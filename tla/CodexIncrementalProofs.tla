------------------------ MODULE CodexIncrementalProofs ------------------------
(***************************************************************************)
(* Why a rollout that is parsed piece by piece gives what one parse of the *)
(* whole would: the parser only ever appends messages, so what it had      *)
(* before a line and what it was told of earlier messages do not matter to *)
(* what the line adds.                                                     *)
(***************************************************************************)
EXTENDS CodexIncremental, GrowingFileProofs

Parts(st, messages, pending, succeeded, unresolved) ==
    [st |-> st, messages |-> messages, pending |-> pending,
     succeeded |-> succeeded, unresolved |-> unresolved]

IsParse(p) ==
    /\ p = Parts(p.st, p.messages, p.pending, p.succeeded, p.unresolved)
    /\ IsSeq(p.messages) /\ IsSeq(p.pending)
    /\ p.succeeded \in BOOLEAN /\ p.unresolved \in BOOLEAN

\* The parse with the messages of an earlier one before its own.
Behind(earlier, p) == [p EXCEPT !.messages = earlier \o @]

\* What a step of the parser may do: the result is a parse, and no failure is
\* undone.
Follows(q, p) == IsParse(q) /\ (q.succeeded => p.succeeded)

\* The parts of a parse.
LEMMA PartsOf ==
    ASSUME NEW a, NEW b, NEW c, NEW d, NEW e
    PROVE  LET p == Parts(a, b, c, d, e)
           IN  p.st = a /\ p.messages = b /\ p.pending = c /\ p.succeeded = d /\ p.unresolved = e
BY DEF Parts

\* Parts of the right kind make a parse.
LEMMA PartsParse ==
    ASSUME NEW a, NEW b, IsSeq(b), NEW c, IsSeq(c), NEW d \in BOOLEAN, NEW e \in BOOLEAN
    PROVE  IsParse(Parts(a, b, c, d, e))
BY PartsOf DEF IsParse

\* Earlier messages change the messages and no other part.
LEMMA BehindParts ==
    ASSUME NEW a, NEW b, NEW c, NEW d, NEW e, NEW earlier, NEW p, p = Parts(a, b, c, d, e)
    PROVE  Behind(earlier, p) = Parts(a, earlier \o b, c, d, e)
<1> DEFINE all == earlier \o p.messages
<1>1. Behind(earlier, p) = [p EXCEPT !.messages = all]
  BY DEF Behind
<1>2. all = earlier \o b
  BY PartsOf
<1> HIDE DEF all
<1>3. [p EXCEPT !.messages = all] = Parts(a, all, c, d, e)
  BY DEF Parts
<1> QED
  BY <1>1, <1>2, <1>3

\* Waiting messages that are given their model are as many.
LEMMA WithModelIsSeq ==
    ASSUME NEW waiting, IsSeq(waiting), NEW model
    PROVE  IsSeq(WithModel(waiting, model))
<1>1. Len(waiting) \in Nat /\ DOMAIN waiting = 1..Len(waiting)
  BY SeqLength
<1> DEFINE s == WithModel(waiting, model)
<1>2. s = [i \in 1..Len(waiting) |-> s[i]]
  BY <1>1 DEF WithModel
<1> HIDE DEF s
<1>3. s \in Seq({s[i] : i \in 1..Len(waiting)})
  BY <1>1, <1>2
<1> QED
  BY <1>3, AnySeq DEF s

\* A flush moves the waiting messages to the others.
LEMMA FlushParts ==
    ASSUME NEW a, NEW b, NEW c, NEW d, NEW e, NEW model, NEW p, p = Parts(a, b, c, d, e)
    PROVE  Flush(p, model) = Parts(a, b \o WithModel(c, model), <<>>, d, e)
<1> DEFINE added == WithModel(p.pending, model)
           all == p.messages \o added
           q == [p EXCEPT !.messages = all]
<1>1. p.messages = b /\ p.pending = c
  BY PartsOf
<1>2. Flush(p, model) = [p EXCEPT !.messages = all, !.pending = <<>>]
  BY DEF Flush
<1> HIDE DEF added
<1>3. all = b \o added /\ added = WithModel(c, model)
  BY <1>1 DEF added
<1> HIDE DEF all
<1>4. [p EXCEPT !.messages = all, !.pending = <<>>] = [q EXCEPT !.pending = <<>>]
  OBVIOUS
<1>5. q = Parts(a, all, c, d, e)
  BY DEF Parts
<1> HIDE DEF q
<1>6. [q EXCEPT !.pending = <<>>] = Parts(a, all, <<>>, d, e)
  BY <1>5 DEF Parts
<1> QED
  BY <1>2, <1>3, <1>4, <1>6

\* A parse behind earlier messages is one.
LEMMA BehindIsParse ==
    ASSUME NEW p, IsParse(p), NEW earlier, IsSeq(earlier)
    PROVE  Follows(Behind(earlier, p), p)
<1> DEFINE q == Parts(p.st, earlier \o p.messages, p.pending, p.succeeded, p.unresolved)
<1>1. Behind(earlier, p) = q
  BY BehindParts DEF IsParse
<1>2. IsSeq(earlier \o p.messages)
  BY Joined DEF IsParse
<1>3. IsParse(q) /\ q.succeeded = p.succeeded
  BY <1>2, PartsParse, PartsOf DEF IsParse
<1> QED
  BY <1>1, <1>3 DEF Follows

\* A flush moves the same behind earlier messages.
LEMMA FlushBehind ==
    ASSUME NEW p, IsParse(p), NEW earlier, IsSeq(earlier), NEW model
    PROVE  /\ Flush(Behind(earlier, p), model) = Behind(earlier, Flush(p, model))
           /\ Follows(Flush(p, model), p)
           /\ Flush(p, model).st = p.st
<1> DEFINE added == WithModel(p.pending, model)
           q == Parts(p.st, p.messages \o added, <<>>, p.succeeded, p.unresolved)
<1>1. IsSeq(added) /\ IsSeq(p.messages)
  BY WithModelIsSeq DEF IsParse
<1>2. (earlier \o p.messages) \o added = earlier \o (p.messages \o added)
  <2> DEFINE own == p.messages
  <2>1. IsSeq(earlier) /\ IsSeq(own) /\ IsSeq(added)
    BY <1>1
  <2> HIDE DEF added, own
  <2>2. (earlier \o own) \o added = earlier \o (own \o added)
    BY <2>1, JoinedThrice
  <2> QED
    BY <2>2 DEF own
<1>3. Flush(p, model) = q
  BY FlushParts DEF IsParse
<1>4. Behind(earlier, p) = Parts(p.st, earlier \o p.messages, p.pending, p.succeeded, p.unresolved)
  BY BehindParts DEF IsParse
<1>5. Flush(Behind(earlier, p), model)
        = Parts(p.st, (earlier \o p.messages) \o added, <<>>, p.succeeded, p.unresolved)
  BY <1>4, FlushParts
<1>6. Behind(earlier, q)
        = Parts(p.st, earlier \o (p.messages \o added), <<>>, p.succeeded, p.unresolved)
  BY BehindParts
<1>7. IsSeq(p.messages \o added) /\ IsSeq(<<>>)
  BY <1>1, Joined
<1>8. IsParse(q) /\ q.succeeded = p.succeeded /\ q.st = p.st
  BY <1>7, PartsParse, PartsOf DEF IsParse
<1> QED
  BY <1>2, <1>3, <1>5, <1>6, <1>8 DEF Follows

(***************************************************************************)
(* The parser changes a parse in five ways, all of them the same behind    *)
(* earlier messages.                                                       *)
(***************************************************************************)
NextState(p, st) == [p EXCEPT !.st = st]
Waits(p, m) == [p EXCEPT !.pending = Append(@, m)]
Adds(p, m) == [p EXCEPT !.messages = Append(@, m)]
Unresolved(p) == [p EXCEPT !.unresolved = TRUE]
Failed(p) == [p EXCEPT !.succeeded = FALSE]

\* Earlier messages leave the state and what waits.
LEMMA BehindState ==
    ASSUME NEW p, IsParse(p), NEW earlier, IsSeq(earlier)
    PROVE  Behind(earlier, p).st = p.st /\ Behind(earlier, p).pending = p.pending
BY BehindParts, PartsOf DEF IsParse

\* The state is set alike behind earlier messages.
LEMMA SetState ==
    ASSUME NEW p, IsParse(p), NEW earlier, IsSeq(earlier), NEW st
    PROVE  /\ NextState(Behind(earlier, p), st) = Behind(earlier, NextState(p, st))
           /\ Follows(NextState(p, st), p)
           /\ NextState(p, st).st = st
<1> DEFINE q == Parts(st, p.messages, p.pending, p.succeeded, p.unresolved)
           r == Parts(p.st, earlier \o p.messages, p.pending, p.succeeded, p.unresolved)
<1>1. p = Parts(p.st, p.messages, p.pending, p.succeeded, p.unresolved)
  BY DEF IsParse
<1>2. NextState(p, st) = q
  BY <1>1 DEF Parts, NextState
<1>3. Behind(earlier, p) = r
  BY <1>1, BehindParts
<1>4. Behind(earlier, q) = Parts(st, earlier \o p.messages, p.pending, p.succeeded, p.unresolved)
  BY BehindParts
<1>5. NextState(r, st) = Behind(earlier, q)
  <2> DEFINE all == earlier \o p.messages
  <2>1. r = Parts(p.st, all, p.pending, p.succeeded, p.unresolved)
    OBVIOUS
  <2> HIDE DEF r, all
  <2>2. NextState(r, st) = Parts(st, all, p.pending, p.succeeded, p.unresolved)
    BY <2>1 DEF Parts, NextState
  <2> QED
    BY <1>4, <2>2 DEF all
<1>6. IsParse(q) /\ q.succeeded = p.succeeded /\ q.st = st
  BY PartsParse, PartsOf DEF IsParse
<1> HIDE DEF q, r
<1> QED
  BY <1>2, <1>3, <1>5, <1>6 DEF Follows

\* A message waits alike behind earlier messages.
LEMMA AddPending ==
    ASSUME NEW p, IsParse(p), NEW earlier, IsSeq(earlier), NEW m
    PROVE  /\ Waits(Behind(earlier, p), m) = Behind(earlier, Waits(p, m))
           /\ Follows(Waits(p, m), p)
           /\ Waits(p, m).st = p.st
<1> DEFINE r == Behind(earlier, p)
           pending == Append(p.pending, m)
           all == earlier \o p.messages
           q == Parts(p.st, p.messages, pending, p.succeeded, p.unresolved)
<1>1. p = Parts(p.st, p.messages, p.pending, p.succeeded, p.unresolved)
  BY DEF IsParse
<1>2. r = Parts(p.st, all, p.pending, p.succeeded, p.unresolved)
  BY <1>1, BehindParts
<1>3. IsSeq(pending)
  BY Joined DEF IsParse
<1>4. r.pending = p.pending
  BY <1>2, PartsOf
<1>5. Waits(r, m) = [r EXCEPT !.pending = pending] /\ Waits(p, m) = [p EXCEPT !.pending = pending]
  BY <1>4 DEF Waits
<1>6. Behind(earlier, q) = Parts(p.st, all, pending, p.succeeded, p.unresolved)
  BY BehindParts
<1> HIDE DEF pending, all, r
<1>7. [p EXCEPT !.pending = pending] = q
  BY <1>1 DEF Parts
<1>8. [r EXCEPT !.pending = pending] = Parts(p.st, all, pending, p.succeeded, p.unresolved)
  BY <1>2 DEF Parts
<1>9. IsParse(q) /\ q.succeeded = p.succeeded /\ q.st = p.st
  BY <1>3, PartsParse, PartsOf DEF IsParse
<1> HIDE DEF q
<1> QED
  BY <1>5, <1>6, <1>7, <1>8, <1>9 DEF r, Follows

\* A message is added alike behind earlier messages.
LEMMA AddMessage ==
    ASSUME NEW p, IsParse(p), NEW earlier, IsSeq(earlier), NEW m
    PROVE  /\ Adds(Behind(earlier, p), m) = Behind(earlier, Adds(p, m))
           /\ Follows(Adds(p, m), p)
           /\ Adds(p, m).st = p.st
<1> DEFINE r == Behind(earlier, p)
           own == Append(p.messages, m)
           all == earlier \o p.messages
           more == Append(all, m)
           q == Parts(p.st, own, p.pending, p.succeeded, p.unresolved)
<1>1. p = Parts(p.st, p.messages, p.pending, p.succeeded, p.unresolved)
  BY DEF IsParse
<1>2. r = Parts(p.st, all, p.pending, p.succeeded, p.unresolved)
  BY <1>1, BehindParts
<1>3. IsSeq(own) /\ earlier \o own = more
  BY Joined DEF IsParse
<1>0. Adds(p, m) = [p EXCEPT !.messages = own]
  BY DEF Adds
<1> HIDE DEF own, all, r
<1>4. r.messages = all
  BY <1>2, PartsOf
<1>5. Adds(r, m) = [r EXCEPT !.messages = more]
  BY <1>4 DEF Adds
<1> HIDE DEF more
<1>6. Behind(earlier, q) = Parts(p.st, more, p.pending, p.succeeded, p.unresolved)
  <2>1. Behind(earlier, q) = Parts(p.st, earlier \o own, p.pending, p.succeeded, p.unresolved)
    BY BehindParts
  <2> QED
    BY <1>3, <2>1
<1>7. [p EXCEPT !.messages = own] = q
  BY <1>1 DEF Parts
<1>8. [r EXCEPT !.messages = more] = Parts(p.st, more, p.pending, p.succeeded, p.unresolved)
  BY <1>2 DEF Parts
<1>9. IsParse(q) /\ q.succeeded = p.succeeded /\ q.st = p.st
  BY <1>3, PartsParse, PartsOf DEF IsParse
<1> HIDE DEF q
<1> QED
  BY <1>0, <1>5, <1>6, <1>7, <1>8, <1>9 DEF r, Follows

\* The flags are set alike behind earlier messages, and only ever one way.
LEMMA SetFlag ==
    ASSUME NEW p, IsParse(p), NEW earlier, IsSeq(earlier)
    PROVE  /\ Unresolved(Behind(earlier, p)) = Behind(earlier, Unresolved(p))
           /\ Follows(Unresolved(p), p) /\ Unresolved(p).unresolved
           /\ Unresolved(p).st = p.st
           /\ Failed(Behind(earlier, p)) = Behind(earlier, Failed(p))
           /\ Follows(Failed(p), p) /\ ~Failed(p).succeeded
           /\ Failed(p).st = p.st
<1>0. PICK on \in BOOLEAN : on = TRUE
  OBVIOUS
<1>00. PICK off \in BOOLEAN : off = FALSE
  OBVIOUS
<1> DEFINE r == Behind(earlier, p)
           all == earlier \o p.messages
           q == Parts(p.st, p.messages, p.pending, p.succeeded, on)
           f == Parts(p.st, p.messages, p.pending, off, p.unresolved)
<1>1. p = Parts(p.st, p.messages, p.pending, p.succeeded, p.unresolved)
  BY DEF IsParse
<1>2. r = Parts(p.st, all, p.pending, p.succeeded, p.unresolved)
  BY <1>1, BehindParts
<1>3. /\ Behind(earlier, q) = Parts(p.st, all, p.pending, p.succeeded, on)
      /\ Behind(earlier, f) = Parts(p.st, all, p.pending, off, p.unresolved)
  BY BehindParts
<1> HIDE DEF all, r
<1>4. Unresolved(p) = q /\ Failed(p) = f
  <2>1. Unresolved(p) = [p EXCEPT !.unresolved = on]
    BY <1>0 DEF Unresolved
  <2>2. Failed(p) = [p EXCEPT !.succeeded = off]
    BY <1>00 DEF Failed
  <2>3. [p EXCEPT !.unresolved = on] = q /\ [p EXCEPT !.succeeded = off] = f
    BY <1>1 DEF Parts
  <2> HIDE DEF q, f
  <2> QED
    BY <2>1, <2>2, <2>3
<1>5. /\ Unresolved(r) = Parts(p.st, all, p.pending, p.succeeded, on)
      /\ Failed(r) = Parts(p.st, all, p.pending, off, p.unresolved)
  <2>1. Unresolved(r) = [r EXCEPT !.unresolved = on]
    BY <1>0 DEF Unresolved
  <2>2. Failed(r) = [r EXCEPT !.succeeded = off]
    BY <1>00 DEF Failed
  <2>3. /\ [r EXCEPT !.unresolved = on] = Parts(p.st, all, p.pending, p.succeeded, on)
        /\ [r EXCEPT !.succeeded = off] = Parts(p.st, all, p.pending, off, p.unresolved)
    BY <1>2 DEF Parts
  <2> QED
    BY <2>1, <2>2, <2>3
<1>6. IsParse(q) /\ q.succeeded = p.succeeded /\ q.unresolved = on /\ q.st = p.st
  BY PartsParse, PartsOf DEF IsParse
<1>7. IsParse(f) /\ f.succeeded = off /\ f.st = p.st
  BY PartsParse, PartsOf DEF IsParse
<1> HIDE DEF q, f
<1> QED
  BY <1>0, <1>00, <1>3, <1>4, <1>5, <1>6, <1>7 DEF r, Follows

\* Messages no model can come for are flushed alike; without the flag none waited.
LEMMA FlushUnknownBehind ==
    ASSUME NEW p, IsParse(p), NEW earlier, IsSeq(earlier)
    PROVE  /\ FlushUnknown(Behind(earlier, p)) = Behind(earlier, FlushUnknown(p))
           /\ Follows(FlushUnknown(p), p)
           /\ FlushUnknown(p).st = p.st
           /\ ~FlushUnknown(p).unresolved => p.pending = <<>> /\ FlushUnknown(p) = p
<1> DEFINE q == Flush(p, UnknownModel)
<1>1. /\ Behind(earlier, p).pending = p.pending
      /\ Follows(p, p)
  BY BehindState DEF Follows
<1>2. CASE p.pending = <<>>
  BY <1>1, <1>2 DEF FlushUnknown
<1>3. CASE p.pending # <<>>
  <2>1. /\ Flush(Behind(earlier, p), UnknownModel) = Behind(earlier, q)
        /\ Follows(q, p) /\ q.st = p.st
    BY FlushBehind
  <2>2. /\ FlushUnknown(p) = Unresolved(q)
        /\ FlushUnknown(Behind(earlier, p)) = Unresolved(Flush(Behind(earlier, p), UnknownModel))
    BY <1>1, <1>3 DEF FlushUnknown, Unresolved
  <2> HIDE DEF q
  <2>3. /\ Unresolved(Behind(earlier, q)) = Behind(earlier, Unresolved(q))
        /\ Follows(Unresolved(q), q)
        /\ Unresolved(q).unresolved /\ Unresolved(q).st = q.st
    BY <2>1, SetFlag DEF Follows
  <2> QED
    BY <2>1, <2>2, <2>3 DEF Follows
<1> QED
  BY <1>2, <1>3

-------------------------------------------------------------------------------
(***************************************************************************)
(* One line behind earlier messages: a lemma for each kind of line.        *)
(***************************************************************************)
LEMMA WaitingBehind ==
    ASSUME NEW p, IsParse(p), NEW earlier, IsSeq(earlier), NEW line
    PROVE  /\ ParseWhileWaiting(Behind(earlier, p), line)
                = Behind(earlier, ParseWhileWaiting(p, line))
           /\ Follows(ParseWhileWaiting(p, line), p)
<1>1. /\ ParseWhileWaiting(p, line) = NextState(p, WhileWaiting(p.st, line))
      /\ ParseWhileWaiting(Behind(earlier, p), line)
           = NextState(Behind(earlier, p), WhileWaiting(Behind(earlier, p).st, line))
  BY DEF ParseWhileWaiting, NextState
<1> QED
  BY <1>1, SetState, BehindState

\* The handlers commute with earlier messages: session_meta.
LEMMA SessionMetaBehind ==
    ASSUME NEW p, IsParse(p), NEW earlier, IsSeq(earlier), NEW line
    PROVE  /\ ParseSessionMeta(Behind(earlier, p), line)
                = Behind(earlier, ParseSessionMeta(p, line))
           /\ Follows(ParseSessionMeta(p, line), p)
<1>1. /\ ParseSessionMeta(p, line) = NextState(p, SessionMeta(p.st, line))
      /\ ParseSessionMeta(Behind(earlier, p), line)
           = NextState(Behind(earlier, p), SessionMeta(Behind(earlier, p).st, line))
  BY DEF ParseSessionMeta, NextState
<1> QED
  BY <1>1, SetState, BehindState

\* turn_context.
LEMMA TurnContextBehind ==
    ASSUME NEW p, IsParse(p), NEW earlier, IsSeq(earlier), NEW line
    PROVE  /\ ParseTurnContext(Behind(earlier, p), line)
                = Behind(earlier, ParseTurnContext(p, line))
           /\ Follows(ParseTurnContext(p, line), p)
<1> DEFINE Turned(st) == [st EXCEPT !.model = line.model, !.cursor = line.time]
           Moved(r) == NextState(r, Turned(r.st))
           r == Behind(earlier, p)
<1>1. \A s : ParseTurnContext(s, line)
               = IF line.model = None THEN Moved(s) ELSE Flush(Moved(s), line.model)
  BY DEF ParseTurnContext, NextState
<1>2. r.st = p.st
  BY BehindState
<1> HIDE DEF Turned
<1>3. Moved(r) = Behind(earlier, Moved(p)) /\ Follows(Moved(p), p)
  BY <1>2, SetState
<1>4. /\ ParseTurnContext(p, line)
           = IF line.model = None THEN Moved(p) ELSE Flush(Moved(p), line.model)
      /\ ParseTurnContext(r, line)
           = IF line.model = None THEN Moved(r) ELSE Flush(Moved(r), line.model)
  BY <1>1
<1> HIDE DEF Moved, r
<1>5. /\ Flush(Behind(earlier, Moved(p)), line.model)
           = Behind(earlier, Flush(Moved(p), line.model))
      /\ Follows(Flush(Moved(p), line.model), Moved(p))
  BY <1>3, FlushBehind DEF Follows
<1> QED
  BY <1>3, <1>4, <1>5 DEF r, Follows

\* user_message.
LEMMA UserMessageBehind ==
    ASSUME NEW p, IsParse(p), NEW earlier, IsSeq(earlier), NEW line
    PROVE  /\ ParseUserMessage(Behind(earlier, p), line)
                = Behind(earlier, ParseUserMessage(p, line))
           /\ Follows(ParseUserMessage(p, line), p)
<1> DEFINE Asked(st) == [st EXCEPT !.pending_turn = TRUE, !.cursor = line.time]
           r == Behind(earlier, p)
<1>1. \A s : ParseUserMessage(s, line)
               = IF line.human THEN NextState(s, Asked(s.st)) ELSE s
  BY DEF ParseUserMessage, NextState
<1> HIDE DEF Asked
<1>2. /\ ParseUserMessage(p, line) = IF line.human THEN NextState(p, Asked(p.st)) ELSE p
      /\ ParseUserMessage(r, line) = IF line.human THEN NextState(r, Asked(r.st)) ELSE r
  BY <1>1
<1> QED
  BY <1>2, SetState, BehindState DEF Follows

\* item_completed.
LEMMA ItemCompletedBehind ==
    ASSUME NEW p, IsParse(p), NEW earlier, IsSeq(earlier), NEW line
    PROVE  /\ ParseItemCompleted(Behind(earlier, p), line)
                = Behind(earlier, ParseItemCompleted(p, line))
           /\ Follows(ParseItemCompleted(p, line), p)
<1> DEFINE Asked(st) == [st EXCEPT !.pending_turn = TRUE]
           r == Behind(earlier, p)
<1>1. \A s : ParseItemCompleted(s, line)
               = IF line.human THEN NextState(s, Asked(s.st)) ELSE s
  BY DEF ParseItemCompleted, NextState
<1> HIDE DEF Asked
<1>2. /\ ParseItemCompleted(p, line) = IF line.human THEN NextState(p, Asked(p.st)) ELSE p
      /\ ParseItemCompleted(r, line) = IF line.human THEN NextState(r, Asked(r.st)) ELSE r
  BY <1>1
<1> QED
  BY <1>2, SetState, BehindState DEF Follows

\* A line of codex exec.
LEMMA HeadlessBehind ==
    ASSUME NEW p, IsParse(p), NEW earlier, IsSeq(earlier), NEW line
    PROVE  /\ ParseHeadlessLine(Behind(earlier, p), line)
                = Behind(earlier, ParseHeadlessLine(p, line))
           /\ Follows(ParseHeadlessLine(p, line), p)
<1> DEFINE r == Behind(earlier, p)
           Named(st, model) == [st EXCEPT !.model = model]
           Flushed(s, model) ==
             IF model = None THEN FlushUnknown(NextState(s, Named(s.st, model)))
             ELSE Flush(NextState(s, Named(s.st, model)), model)
           M(model) ==
             [tokens |-> line.tokens, model |-> OrElse(model, UnknownModel),
              time |-> OrElse(line.time, FallbackTime), turn |-> FALSE,
              fallback |-> line.time = None, key |-> None]
           model == OrElse(line.model, p.st.model)
<1>1. \A s : ParseHeadlessLine(s, line)
               = IF line.tokens = NoTokens THEN Flushed(s, OrElse(line.model, s.st.model))
                 ELSE Adds(Flushed(s, OrElse(line.model, s.st.model)),
                           M(OrElse(line.model, s.st.model)))
  BY DEF ParseHeadlessLine, NextState, Adds
<1>2. r.st = p.st
  BY BehindState
<1> HIDE DEF Named, M
<1>3. Flushed(r, model) = Behind(earlier, Flushed(p, model)) /\ Follows(Flushed(p, model), p)
  <2> DEFINE q == NextState(p, Named(p.st, model))
  <2>1. NextState(r, Named(r.st, model)) = Behind(earlier, q) /\ Follows(q, p)
    BY <1>2, SetState
  <2> HIDE DEF q, r, model
  <2>2. /\ Flush(Behind(earlier, q), model) = Behind(earlier, Flush(q, model))
        /\ Follows(Flush(q, model), q)
        /\ FlushUnknown(Behind(earlier, q)) = Behind(earlier, FlushUnknown(q))
        /\ Follows(FlushUnknown(q), q)
    BY <2>1, FlushBehind, FlushUnknownBehind DEF Follows
  <2> QED
    BY <2>1, <2>2 DEF q, Follows
<1>4. /\ ParseHeadlessLine(p, line)
           = IF line.tokens = NoTokens THEN Flushed(p, model) ELSE Adds(Flushed(p, model), M(model))
      /\ ParseHeadlessLine(r, line)
           = IF line.tokens = NoTokens THEN Flushed(r, model) ELSE Adds(Flushed(r, model), M(model))
  BY <1>1, <1>2
<1> HIDE DEF Flushed, r, model
<1>5. /\ Adds(Behind(earlier, Flushed(p, model)), M(model))
           = Behind(earlier, Adds(Flushed(p, model), M(model)))
      /\ Follows(Adds(Flushed(p, model), M(model)), Flushed(p, model))
  BY <1>3, AddMessage DEF Follows
<1> QED
  BY <1>3, <1>4, <1>5 DEF r, Follows

\* A line that is not JSON, which fails the parse for good.
LEMMA MalformedBehind ==
    ASSUME NEW p, IsParse(p), NEW earlier, IsSeq(earlier)
    PROVE  /\ ParseMalformed(Behind(earlier, p)) = Behind(earlier, ParseMalformed(p))
           /\ Follows(ParseMalformed(p), p) /\ ~ParseMalformed(p).succeeded
<1> DEFINE Flushed(s) == IF s.st.model = None THEN FlushUnknown(s) ELSE Flush(s, s.st.model)
           r == Behind(earlier, p)
<1>1. \A s : ParseMalformed(s) = Failed(Flushed(s))
  BY DEF ParseMalformed, Failed
<1>2. Flushed(r) = Behind(earlier, Flushed(p)) /\ Follows(Flushed(p), p)
  BY BehindState, FlushBehind, FlushUnknownBehind
<1>3. ParseMalformed(p) = Failed(Flushed(p)) /\ ParseMalformed(r) = Failed(Flushed(r))
  BY <1>1
<1> HIDE DEF Flushed, r
<1>4. /\ Failed(Behind(earlier, Flushed(p))) = Behind(earlier, Failed(Flushed(p)))
      /\ Follows(Failed(Flushed(p)), Flushed(p)) /\ ~Failed(Flushed(p)).succeeded
  BY <1>2, SetFlag DEF Follows
<1> QED
  BY <1>2, <1>3, <1>4 DEF r, Follows

\* token_count, in each of its ways to count.
LEMMA TokenCountBehind ==
    ASSUME NEW p, IsParse(p), NEW earlier, IsSeq(earlier), NEW line
    PROVE  /\ ParseTokenCount(Behind(earlier, p), line)
                = Behind(earlier, ParseTokenCount(p, line))
           /\ Follows(ParseTokenCount(p, line), p)
<1> DEFINE Inc(st) == Increment(line.total, line.last, st.previous)
           Tokens(st) == IF Inc(st) = None THEN NoTokens ELSE IntoTokens(Inc(st))
           Past(st) == [st EXCEPT !.base = None, !.base_total = None]
           Skipped(st) == [Past(st) EXCEPT
                             !.previous = TotalsAfterSkip(line.total, line.last, st.previous)]
           Accepted(st) == [Past(st) EXCEPT
                              !.previous = NextTotals(line.total, line.last, st.previous),
                              !.pending_turn = FALSE,
                              !.cursor = LaterTime(@, line.time)]
           M(st, model) == TokenMessage(st, line, model, Tokens(st))
           Named(st, model) == [st EXCEPT !.model = model]
           Flushed(s, model) == IF model = None THEN s
                                ELSE Flush(NextState(s, Named(s.st, model)), model)
           Row(q, model) == IF model = None THEN Waits(q, M(q.st, model))
                                            ELSE Adds(q, M(q.st, model))
           Count(q, model) ==
             IF SkipInherited(q.st, line) THEN q
             ELSE IF Tokens(q.st) = NoTokens THEN NextState(q, Skipped(q.st))
                  ELSE NextState(Row(q, model), Accepted(q.st))
           model == OrElse(line.model, p.st.model)
           r == Behind(earlier, p)
<1>1. \A s : ParseTokenCount(s, line)
               = IF ~line.info THEN s
                 ELSE Count(Flushed(s, OrElse(line.model, s.st.model)),
                            OrElse(line.model, s.st.model))
  BY DEF ParseTokenCount, NextState, Waits, Adds
<1>2. r.st = p.st /\ Follows(p, p)
  BY BehindState DEF Follows
<1> HIDE DEF Named, Tokens, Skipped, Accepted, M, Count
<1>3. /\ ParseTokenCount(p, line) = IF ~line.info THEN p ELSE Count(Flushed(p, model), model)
      /\ ParseTokenCount(r, line) = IF ~line.info THEN r ELSE Count(Flushed(r, model), model)
  <2> HIDE DEF Flushed, r
  <2> QED
    BY <1>1, <1>2
<1>4. Flushed(r, model) = Behind(earlier, Flushed(p, model)) /\ Follows(Flushed(p, model), p)
  <2> DEFINE q == NextState(p, Named(p.st, model))
  <2>1. NextState(r, Named(r.st, model)) = Behind(earlier, q) /\ Follows(q, p)
    BY <1>2, SetState
  <2> HIDE DEF q, r, model
  <2>2. /\ Flush(Behind(earlier, q), model) = Behind(earlier, Flush(q, model))
        /\ Follows(Flush(q, model), q)
    BY <2>1, FlushBehind DEF Follows
  <2> QED
    BY <1>2, <2>1, <2>2 DEF q, r, Follows
<1> DEFINE q == Flushed(p, model)
<1> HIDE DEF Flushed, model
<1>5. Count(Behind(earlier, q), model) = Behind(earlier, Count(q, model)) /\ Follows(Count(q, model), q)
  <2> DEFINE t == Behind(earlier, q)
  <2>1. IsParse(q) /\ t.st = q.st /\ Follows(q, q)
    BY <1>4, BehindState DEF Follows
  <2>2. Row(t, model) = Behind(earlier, Row(q, model)) /\ Follows(Row(q, model), q)
    BY <2>1, AddMessage, AddPending
  <2>3. NextState(t, Skipped(t.st)) = Behind(earlier, NextState(q, Skipped(q.st)))
        /\ Follows(NextState(q, Skipped(q.st)), q)
    BY <2>1, SetState
  <2> DEFINE row == Row(q, model)
  <2>4. IsParse(row) /\ Row(t, model) = Behind(earlier, row) /\ Follows(row, q)
    BY <2>2 DEF Follows
  <2> HIDE DEF Row, row
  <2>5. /\ NextState(Behind(earlier, row), Accepted(q.st))
             = Behind(earlier, NextState(row, Accepted(q.st)))
        /\ Follows(NextState(row, Accepted(q.st)), row)
    BY <2>4, SetState
  <2> HIDE DEF q, t
  <2>6. /\ NextState(Row(t, model), Accepted(t.st))
             = Behind(earlier, NextState(Row(q, model), Accepted(q.st)))
        /\ Follows(NextState(Row(q, model), Accepted(q.st)), q)
    BY <2>1, <2>4, <2>5 DEF row, Follows
  <2> QED
    BY <2>1, <2>3, <2>6 DEF Count, t
<1> HIDE DEF r, q
<1>6. Count(Flushed(r, model), model) = Behind(earlier, Count(Flushed(p, model), model))
  BY <1>4, <1>5 DEF q
<1>7. Follows(Count(Flushed(p, model), model), p)
  BY <1>4, <1>5 DEF q, Follows
<1> QED
  BY <1>2, <1>3, <1>6, <1>7 DEF r

\* token_count with what comes before and after the count.
LEMMA CountedBehind ==
    ASSUME NEW p, IsParse(p), NEW earlier, IsSeq(earlier), NEW line
    PROVE  /\ ParseCounted(Behind(earlier, p), line) = Behind(earlier, ParseCounted(p, line))
           /\ Follows(ParseCounted(p, line), p)
<1>1. Follows(p, p)
  BY DEF Follows
<1>2. CASE line.type = "session_meta"
  BY <1>2, SessionMetaBehind DEF ParseCounted
<1>3. CASE line.type = "turn_context"
  BY <1>3, TurnContextBehind DEF ParseCounted
<1>4. CASE line.type = "user_message"
  BY <1>4, UserMessageBehind DEF ParseCounted
<1>5. CASE line.type = "item_completed"
  BY <1>5, ItemCompletedBehind DEF ParseCounted
<1>6. CASE line.type = "token_count"
  BY <1>6, TokenCountBehind DEF ParseCounted
<1>7. CASE line.type \notin {"session_meta", "turn_context", "user_message",
                             "item_completed", "token_count"}
  BY <1>1, <1>7 DEF ParseCounted
<1> QED
  BY <1>2, <1>3, <1>4, <1>5, <1>6, <1>7

\* A line that settles what waits settles it alike.
LEMMA SettledBehind ==
    ASSUME NEW p, IsParse(p), NEW earlier, IsSeq(earlier), NEW line
    PROVE  /\ Settled(Behind(earlier, p), line) = Behind(earlier, Settled(p, line))
           /\ Follows(Settled(p, line), p)
BY FlushUnknownBehind DEF Settled, Follows

\* A line adds the same to a parse as to one with earlier messages.
LEMMA LineBehind ==
    ASSUME NEW p, IsParse(p), NEW earlier, IsSeq(earlier), NEW line
    PROVE  /\ ParseLine(Behind(earlier, p), line) = Behind(earlier, ParseLine(p, line))
           /\ Follows(ParseLine(p, line), p)
           /\ line = Malformed => ~ParseLine(p, line).succeeded
<1> DEFINE r == Behind(earlier, p)
<1>1. Follows(p, p) /\ r.st = p.st
  BY BehindState DEF Follows
<1>2. CASE line.type = "malformed"
  BY <1>2, MalformedBehind DEF ParseLine
<1>3. CASE line.type = "headless"
  BY <1>1, <1>3, HeadlessBehind DEF ParseLine, Malformed
<1>4. CASE line.type \notin {"malformed", "headless"}
  <2> DEFINE Waited(s) == IF s.st.waiting THEN ParseWhileWaiting(s, line) ELSE s
             Rest(s) == IF s.st.waiting THEN s ELSE ParseCounted(Settled(s, line), line)
  <2>1. \A s : ParseLine(s, line) = Rest(Waited(s))
    BY <1>4 DEF ParseLine
  <2> DEFINE q == Waited(p)
  <2>2. Waited(r) = Behind(earlier, q) /\ Follows(q, p)
    BY <1>1, WaitingBehind
  <2>3. ParseLine(p, line) = Rest(Waited(p)) /\ ParseLine(r, line) = Rest(Waited(r))
    BY <2>1
  <2> HIDE DEF Waited, r, q
  <2>4. Rest(Behind(earlier, q)) = Behind(earlier, Rest(q)) /\ Follows(Rest(q), q)
    <3>1. IsParse(q) /\ Follows(q, q) /\ Behind(earlier, q).st = q.st
      BY <2>2, BehindState DEF Follows
    <3> DEFINE t == Settled(q, line)
    <3>2. Settled(Behind(earlier, q), line) = Behind(earlier, t) /\ Follows(t, q)
      BY <3>1, SettledBehind
    <3> HIDE DEF t
    <3>3. /\ ParseCounted(Behind(earlier, t), line) = Behind(earlier, ParseCounted(t, line))
          /\ Follows(ParseCounted(t, line), t)
      BY <3>2, CountedBehind DEF Follows
    <3> QED
      BY <3>1, <3>2, <3>3 DEF t, Follows
  <2> HIDE DEF Rest
  <2>5. line # Malformed
    BY <1>4 DEF Malformed
  <2> QED
    BY <2>2, <2>3, <2>4, <2>5 DEF q, r, Follows
<1> QED
  BY <1>2, <1>3, <1>4

-------------------------------------------------------------------------------
(***************************************************************************)
(* The parse of a sequence of lines, one line at a time.                   *)
(***************************************************************************)
IsRun(g, p, lines, n) ==
    g = [k \in 0..n |-> IF k = 0 THEN p ELSE ParseLine(g[k - 1], lines[k])]

\* A run of the parser line by line.
LEMMA RunSteps ==
    ASSUME NEW p, NEW lines, NEW n \in Nat, NEW g, IsRun(g, p, lines, n)
    PROVE  g[0] = p /\ \A k \in 1..n : g[k] = ParseLine(g[k - 1], lines[k])
<1> DEFINE Step(k) == IF k = 0 THEN p ELSE ParseLine(g[k - 1], lines[k])
<1>1. g = [k \in 0..n |-> Step(k)]
  BY DEF IsRun
<1> HIDE DEF Step
<1>2. \A k \in 0..n : g[k] = Step(k)
  BY <1>1
<1>3. 0 \in 0..n /\ \A k \in 1..n : k \in 0..n /\ k # 0
  OBVIOUS
<1> QED
  BY <1>2, <1>3 DEF Step

\* There is a run over any lines: otherwise there is a least number without.
LEMMA RunExists ==
    ASSUME NEW p, NEW lines, NEW n \in Nat
    PROVE  \E g : IsRun(g, p, lines, n)
<1> DEFINE S == {k \in Nat : ~\E g : IsRun(g, p, lines, k)}
<1>1. SUFFICES S = {}
  OBVIOUS
<1>2. SUFFICES ASSUME S # {} PROVE FALSE
  OBVIOUS
<1>3. PICK k \in S : \A m \in S : k <= m
  <2>1. S \subseteq Nat
    OBVIOUS
  <2> HIDE DEF S
  <2> QED
    BY <1>2, <2>1, LeastNumber
<1>4. CASE k = 0
  <2> DEFINE g == [i \in 0..0 |-> p]
  <2>1. IsRun(g, p, lines, 0)
    BY DEF IsRun
  <2> QED
    BY <1>3, <1>4, <2>1
<1>5. CASE k # 0
  <2>1. k - 1 \in Nat /\ k \in Nat /\ k - 1 \notin S
    BY <1>3, <1>5
  <2>2. PICK h : IsRun(h, p, lines, k - 1)
    BY <2>1
  <2>3. h[0] = p /\ \A i \in 1..(k - 1) : h[i] = ParseLine(h[i - 1], lines[i])
    <3> DEFINE m == k - 1
    <3>1. m \in Nat /\ IsRun(h, p, lines, m)
      BY <2>1, <2>2
    <3> HIDE DEF m
    <3>2. h[0] = p /\ \A i \in 1..m : h[i] = ParseLine(h[i - 1], lines[i])
      BY <3>1, RunSteps
    <3> QED
      BY <3>2 DEF m
  <2> DEFINE g == [i \in 0..k |-> IF i = k THEN ParseLine(h[k - 1], lines[k]) ELSE h[i]]
             G(i) == IF i = 0 THEN p ELSE ParseLine(g[i - 1], lines[i])
  <2>4. \A i \in 0..k : g[i] = G(i)
    <3> SUFFICES ASSUME NEW i \in 0..k PROVE g[i] = G(i)
      OBVIOUS
    <3>1. CASE i = 0
      BY <1>5, <2>1, <2>3, <3>1
    <3>2. CASE i # 0 /\ i # k
      <4>1. i \in 1..(k - 1) /\ i - 1 \in 0..k /\ i - 1 # k
        BY <2>1, <3>2
      <4>2. g[i] = h[i] /\ g[i - 1] = h[i - 1]
        BY <3>2, <4>1
      <4> QED
        BY <2>3, <3>2, <4>1, <4>2
    <3>3. CASE i # 0 /\ i = k
      <4>1. k - 1 \in 0..k /\ k - 1 # k
        BY <2>1
      <4>2. g[k - 1] = h[k - 1]
        BY <4>1
      <4>3. g[k] = ParseLine(h[k - 1], lines[k])
        BY <3>3
      <4> QED
        BY <3>3, <4>2, <4>3
    <3> QED
      BY <3>1, <3>2, <3>3
  <2>5. g = [i \in 0..k |-> G(i)]
    <3>1. g = [i \in 0..k |-> g[i]]
      OBVIOUS
    <3> HIDE DEF g, G
    <3> QED
      BY <2>4, <3>1
  <2>6. IsRun(g, p, lines, k)
    <3> HIDE DEF g
    <3> QED
      BY <2>5 DEF IsRun
  <2> QED
    BY <1>3, <2>6
<1> QED
  BY <1>4, <1>5

\* Two runs agree as far as their lines do.
LEMMA RunsAgree ==
    ASSUME NEW p, NEW n \in Nat, NEW m \in 0..n,
           NEW lines, NEW g, IsRun(g, p, lines, n),
           NEW others, NEW h, IsRun(h, p, others, m),
           \A k \in 1..m : lines[k] = others[k]
    PROVE  \A k \in 0..m : g[k] = h[k]
<1> DEFINE S == {k \in 0..m : g[k] # h[k]}
<1>1. SUFFICES ASSUME S # {} PROVE FALSE
  OBVIOUS
<1>2. PICK k \in S : \A i \in S : k <= i
  <2>1. S \subseteq Nat
    OBVIOUS
  <2> HIDE DEF S
  <2> QED
    BY <1>1, <2>1, LeastNumber
<1>3. /\ g[0] = p /\ \A i \in 1..n : g[i] = ParseLine(g[i - 1], lines[i])
      /\ h[0] = p /\ \A i \in 1..m : h[i] = ParseLine(h[i - 1], others[i])
  BY RunSteps
<1>4. k # 0
  BY <1>2, <1>3
<1>5. k \in 1..m /\ k \in 1..n /\ k - 1 \in 0..m /\ k - 1 < k
  BY <1>2, <1>4
<1>6. g[k - 1] = h[k - 1]
  BY <1>2, <1>5
<1>7. g[k] = h[k]
  BY <1>3, <1>5, <1>6
<1> QED
  BY <1>2, <1>7

\* ParseFrom is the end of such a run.
LEMMA ParseFromRun ==
    ASSUME NEW p, NEW lines, Len(lines) \in Nat
    PROVE  \E g : IsRun(g, p, lines, Len(lines)) /\ ParseFrom(p, lines) = g[Len(lines)]
<1> DEFINE f == CHOOSE g : g = [n \in 0..Len(lines) |->
                                  IF n = 0 THEN p ELSE ParseLine(g[n - 1], lines[n])]
<1>1. ParseFrom(p, lines) = f[Len(lines)]
  BY DEF ParseFrom
<1>2. PICK g : IsRun(g, p, lines, Len(lines))
  BY RunExists
<1>3. IsRun(f, p, lines, Len(lines))
  BY <1>2 DEF IsRun
<1> QED
  BY <1>1, <1>3

\* No lines leave the parse as it was.
LEMMA ParseNothing ==
    ASSUME NEW p
    PROVE  ParseFrom(p, <<>>) = p
<1>1. Len(<<>>) = 0
  OBVIOUS
<1>2. PICK g : IsRun(g, p, <<>>, 0) /\ ParseFrom(p, <<>>) = g[0]
  BY <1>1, ParseFromRun
<1> QED
  BY <1>2, RunSteps

\* One line more is one step more.
LEMMA ParseOneMore ==
    ASSUME NEW p, NEW lines, IsSeq(lines), NEW line
    PROVE  ParseFrom(p, Append(lines, line)) = ParseLine(ParseFrom(p, lines), line)
<1>1. PICK all : all = Append(lines, line)
  OBVIOUS
<1>2. PICK n, m : n = Len(lines) /\ m = n + 1
  OBVIOUS
<1>3. /\ n \in Nat /\ Len(all) = m /\ all[m] = line
      /\ \A k \in 1..n : all[k] = lines[k]
  <2>1. PICK S : lines \in Seq(S) /\ line \in S
    BY CommonElements
  <2> QED
    BY <1>1, <1>2, <2>1
<1>4. m \in Nat /\ n \in 0..m /\ m \in 1..m /\ n \in 0..n /\ m - 1 = n
  BY <1>2, <1>3
<1>5. PICK h : IsRun(h, p, lines, n) /\ ParseFrom(p, lines) = h[n]
  BY <1>2, <1>3, ParseFromRun
<1>6. PICK g : IsRun(g, p, all, m) /\ ParseFrom(p, all) = g[m]
  BY <1>3, <1>4, ParseFromRun
<1>7. m \in Nat /\ IsRun(g, p, all, m)
  BY <1>4, <1>6
<1>8. g[n] = h[n]
  <2>1. n \in 0..m /\ IsRun(h, p, lines, n) /\ (\A k \in 1..n : all[k] = lines[k]) /\ n \in 0..n
    BY <1>3, <1>4, <1>5
  <2> QED
    BY <2>1, <1>7, RunsAgree
<1>9. \A k \in 1..m : g[k] = ParseLine(g[k - 1], all[k])
  BY <1>7, RunSteps
<1>10. g[m] = ParseLine(g[m - 1], all[m])
  BY <1>4, <1>9
<1> QED
  BY <1>1, <1>3, <1>4, <1>5, <1>6, <1>8, <1>10

Whole(lines) == ParseFrom(InitParse(InitState), lines)

\* What a parse begins with; a stored one is this behind its messages.
LEMMA InitParts ==
    ASSUME NEW st
    PROVE  /\ IsParse(InitParse(st)) /\ InitParse(st).succeeded
           /\ \A p : IsParse(p) /\ p.st = st /\ p.pending = <<>> /\ p.succeeded /\ ~p.unresolved
                       => p = Behind(p.messages, InitParse(st))
           /\ InitParse(st) = Behind(<<>>, InitParse(st))
<1>1. PICK on \in BOOLEAN : on = TRUE
  OBVIOUS
<1>2. PICK off \in BOOLEAN : off = FALSE
  OBVIOUS
<1>0. PICK empty : empty = <<>>
  OBVIOUS
<1>3. InitParse(st) = Parts(st, empty, empty, on, off)
  BY <1>0, <1>1, <1>2 DEF InitParse, Parts
<1>4. IsSeq(empty) /\ empty \o empty = empty
  BY <1>0, EmptySeq
<1>5. IsParse(InitParse(st)) /\ InitParse(st).succeeded = on
  BY <1>3, <1>4, PartsParse, PartsOf
<1>6. ASSUME NEW p, IsParse(p), p.st = st, p.pending = <<>>, p.succeeded, ~p.unresolved
      PROVE  p = Behind(p.messages, InitParse(st))
  <2>1. p = Parts(st, p.messages, empty, on, off)
    BY <1>0, <1>1, <1>2, <1>6 DEF IsParse
  <2>2. p.messages \o empty = p.messages
    BY <1>0, <1>6, <1>4, Joined DEF IsParse
  <2>3. Behind(p.messages, InitParse(st)) = Parts(st, p.messages \o empty, empty, on, off)
    BY <1>3, BehindParts
  <2> QED
    BY <2>1, <2>2, <2>3
<1>7. InitParse(st) = Behind(empty, InitParse(st))
  <2>1. Behind(empty, InitParse(st)) = Parts(st, empty \o empty, empty, on, off)
    BY <1>3, BehindParts
  <2> QED
    BY <1>3, <1>4, <2>1
<1> QED
  BY <1>0, <1>1, <1>5, <1>6, <1>7

\* A full parse is a parse.
LEMMA WholeIsParse ==
    ASSUME NEW lines, IsSeq(lines)
    PROVE  IsParse(Whole(lines))
<1>1. PICK p : p = InitParse(InitState)
  OBVIOUS
<1>2. PICK n : n = Len(lines)
  OBVIOUS
<1>3. n \in Nat
  BY <1>2, SeqLength
<1>4. PICK g : IsRun(g, p, lines, n) /\ ParseFrom(p, lines) = g[n]
  BY <1>2, <1>3, ParseFromRun
<1>5. IsRun(g, p, lines, n)
  BY <1>4
<1>6. g[0] = p /\ \A k \in 1..n : g[k] = ParseLine(g[k - 1], lines[k])
  BY <1>3, <1>5, RunSteps
<1> DEFINE S == {k \in 0..n : ~IsParse(g[k])}
<1>7. SUFFICES ASSUME S # {} PROVE FALSE
  <2>1. n \in 0..n
    BY <1>3
  <2> QED
    BY <1>1, <1>4, <1>7, <2>1 DEF Whole
<1>8. PICK k \in S : \A m \in S : k <= m
  <2>1. S \subseteq Nat
    OBVIOUS
  <2> HIDE DEF S
  <2> QED
    BY <1>7, <2>1, LeastNumber
<1>9. k # 0
  BY <1>1, <1>6, <1>8, InitParts
<1>10. k \in 1..n /\ k - 1 \in 0..n /\ k - 1 < k
  BY <1>3, <1>8, <1>9
<1>11. IsParse(g[k - 1])
  BY <1>8, <1>10
<1>12. IsSeq(<<>>)
  BY EmptySeq
<1>13. PICK q : q = g[k - 1]
  OBVIOUS
<1>14. IsParse(ParseLine(q, lines[k]))
  BY <1>11, <1>12, <1>13, LineBehind DEF Follows
<1> QED
  BY <1>6, <1>8, <1>10, <1>13, <1>14

\* The end of a parse that can be cached changes nothing.
LEMMA CleanEnd ==
    ASSUME NEW lines, IsSeq(lines), ~ParseFile(lines).unresolved
    PROVE  ParseFile(lines) = Whole(lines) /\ Whole(lines).pending = <<>>
<1>1. ParseFile(lines) = FlushUnknown(Whole(lines))
  BY DEF ParseFile, EndOfFile, Whole
<1>2. IsSeq(<<>>)
  BY EmptySeq
<1> QED
  BY <1>1, <1>2, WholeIsParse, FlushUnknownBehind

-------------------------------------------------------------------------------
(***************************************************************************)
(* The running scan.                                                       *)
(***************************************************************************)
Reading == {"full", "tail"}
Finishing == {"read_full", "read_tail", "build_full"}

IsEntry(e) ==
    \E s \in Scripts : \E n \in 0..Len(s) :
       LET content == [lines |-> SubSeq(s, 1, n), part |-> "none"]
           p == ParseFile(content.lines)
       IN  /\ p.succeeded /\ ~p.unresolved
           /\ e = [fp |-> content, prefix |-> content, offset |-> 3 * n, newline |-> TRUE,
                   state |-> p.st, messages |-> p.messages]

\* The reader is behind the n-th line, or only its newline is missing.
At(n) == pos = 3 * n \/ pos + 1 = 3 * n

Reached == \E n \in 0..Len(script) :
              At(n) /\ Behind(prior, parse) = Whole(SubSeq(script, 1, n))
Ended == \E n \in 0..Len(script) :
            At(n) /\ Behind(prior, parse) = ParseFile(SubSeq(script, 1, n))

ScanInv ==
    /\ pc \in {"idle", "prefix"} \cup Reading \cup Finishing
    /\ pc # "idle" => Written(fp, script)
    /\ pc = "prefix" => entry # NoEntry
    /\ pc \in Reading \cup Finishing => pos \in Nat /\ IsParse(parse) /\ IsSeq(prior)
    /\ pc \in {"full", "read_full", "build_full"} => prior = <<>>
    /\ pc \in Reading /\ (parse.succeeded \/ start # None) => Reached
    /\ pc \in Finishing /\ (Cacheable \/ start # None) => Ended
    /\ pc = "build_full" => Cacheable

\* A scan that was not disturbed so far.
StartInv ==
    pc # "idle" /\ start # None =>
       /\ Written(start, script)
       /\ Size(start) <= Size(fp) /\ Size(fp) <= Size(file)
       /\ pc # "prefix" => pos <= Size(file)
       /\ pc \in Finishing => Size(start) <= pos

EntryInv == entry = NoEntry \/ IsEntry(entry)

CodexInv == FileInv /\ ScanInv /\ StartInv /\ EntryInv

\* What is kept while nothing but the file changes, and that only by lines added.
LEMMA WriteInv ==
    ASSUME CodexInv, Write
    PROVE  CodexInv'
<1>1. PICK part \in {"none", "cut", "bare"} : WritePart(part, pc # "idle")
  BY DEF Write
<1>2. FileInv' /\ script' = script
  BY <1>1, WritePartInv DEF CodexInv
<1>3. Size(file) <= Size(file')
  BY <1>1, WritePartGrows DEF CodexInv
<1>4. Size(file) \in Nat /\ Size(file') \in Nat
  BY <1>2, WrittenForm DEF FileInv, CodexInv
<1>5. UNCHANGED <<scanVars, entry>>
  BY DEF Write
<1>6. ScanInv'
  BY <1>2, <1>5 DEF CodexInv, ScanInv, scanVars, Reached, Ended, At, Cacheable, NoEntry
<1>7. StartInv'
  <2> SUFFICES ASSUME pc # "idle", start # None
               PROVE  /\ Written(start, script)
                      /\ Size(start) <= Size(fp) /\ Size(fp) <= Size(file')
                      /\ pc # "prefix" => pos <= Size(file')
                      /\ pc \in Finishing => Size(start) <= pos
    BY <1>2, <1>5 DEF StartInv, scanVars
  <2>1. /\ Written(start, script)
        /\ Size(start) <= Size(fp) /\ Size(fp) <= Size(file)
        /\ pc # "prefix" => pos <= Size(file)
        /\ pc \in Finishing => Size(start) <= pos
    BY DEF CodexInv, StartInv
  <2>2. Size(fp) \in Nat /\ (pc # "prefix" => pos \in Nat)
    BY WrittenForm DEF CodexInv, ScanInv, FileInv
  <2> QED
    BY <1>3, <1>4, <2>1, <2>2
<1>8. EntryInv'
  BY <1>5 DEF CodexInv, EntryInv, IsEntry, NoEntry
<1> QED
  BY <1>2, <1>6, <1>7, <1>8 DEF CodexInv

\* The file is cut back or, between scans, replaced.
LEMMA CutBackInv ==
    ASSUME CodexInv, CutBack
    PROVE  CodexInv'
<1>1. FileInv' /\ (pc # "idle" => script' = script)
  BY RewriteInv DEF CutBack, CodexInv
<1>2. UNCHANGED <<pc, fp, pos, parse, prior, invalidate, entry>> /\ start' = None
  BY DEF CutBack
<1>3. ScanInv'
  BY <1>1, <1>2 DEF CodexInv, ScanInv, Reached, Ended, At, Cacheable, NoEntry, Reading, Finishing
<1>4. StartInv' /\ EntryInv'
  BY <1>2 DEF CodexInv, StartInv, EntryInv, IsEntry, NoEntry
<1> QED
  BY <1>1, <1>3, <1>4 DEF CodexInv

\* A full parse starts before the first line.
LEMMA StartFullReached ==
    ASSUME CodexInv, NEW drop, StartFull(drop), script' = script
    PROVE  /\ pc' = "full" /\ pos' = 0 /\ pos' \in Nat /\ IsParse(parse') /\ prior' = <<>>
           /\ IsSeq(prior') /\ Reached'
<1>1. /\ pc' = "full" /\ pos' = 0 /\ parse' = InitParse(InitState) /\ prior' = <<>>
  BY DEF StartFull
<1>2. SubSeq(script, 1, 0) = <<>> /\ 0 \in 0..Len(script)
  <2>1. IsSeq(script) /\ Len(script) \in Nat
    BY ScriptIsSeq DEF CodexInv, FileInv
  <2>2. PICK S : script \in Seq(S)
    BY <2>1 DEF IsSeq
  <2> QED
    BY <2>1, <2>2
<1>3. Whole(<<>>) = InitParse(InitState)
  BY ParseNothing DEF Whole
<1>4. Behind(prior', parse') = Whole(SubSeq(script, 1, 0))
  BY <1>1, <1>2, <1>3, InitParts
<1>5. pos' = 3 * 0
  BY <1>1
<1> QED
  BY <1>1, <1>2, <1>4, <1>5, InitParts, EmptySeq DEF Reached, At

\* What does not touch the file or the entry keeps what is said of them.
LEMMA SameFile ==
    ASSUME CodexInv, UNCHANGED <<script, file>>
    PROVE  FileInv' /\ (entry' = entry => EntryInv')
BY DEF CodexInv, FileInv, EntryInv, IsEntry, NoEntry, Written

\* A scan compares the fingerprint.
LEMMA CheckInv ==
    ASSUME CodexInv, Check
    PROVE  CodexInv'
<1>1. /\ UNCHANGED <<script, file>> /\ entry' = entry
      /\ start' = file /\ fp' = file
      /\ \/ CanResume /\ pc' = "prefix" /\ UNCHANGED <<pos, parse, prior, invalidate>>
         \/ StartFull(entry # NoEntry)
  BY DEF Check, fileVars
<1>2. FileInv' /\ EntryInv'
  BY <1>1, SameFile
<1>3. Written(file, script) /\ Size(file) \in Nat
  BY WrittenForm DEF CodexInv, FileInv
<1>4. CASE pc' = "prefix" /\ CanResume
  BY <1>1, <1>2, <1>3, <1>4 DEF CodexInv, ScanInv, StartInv, CanResume, NoEntry, Reading, Finishing
<1>5. CASE StartFull(entry # NoEntry)
  <2>1. /\ pc' = "full" /\ pos' = 0 /\ pos' \in Nat /\ IsParse(parse') /\ prior' = <<>>
        /\ IsSeq(prior') /\ Reached'
    <3>1. PICK drop : drop = (entry # NoEntry)
      OBVIOUS
    <3>2. StartFull(drop)
      BY <1>5, <3>1
    <3> QED
      BY <1>1, <3>2, StartFullReached
  <2>2. ScanInv'
    BY <1>1, <1>3, <2>1 DEF ScanInv, Reading, Finishing
  <2>3. StartInv'
    BY <1>1, <1>3, <2>1 DEF StartInv, Finishing
  <2> QED
    BY <1>2, <2>2, <2>3 DEF CodexInv
<1> QED
  BY <1>1, <1>4, <1>5

\* The stored parse is where a resumed one continues.
LEMMA EntryForm ==
    ASSUME IsEntry(entry)
    PROVE  \E s \in Scripts : \E n \in 0..Len(s) :
              /\ entry.fp = [lines |-> SubSeq(s, 1, n), part |-> "none"]
              /\ entry.prefix = entry.fp /\ entry.fp.lines = SubSeq(s, 1, n) /\ entry.fp.part = "none"
              /\ entry.offset = 3 * n /\ entry.newline
              /\ ParseFile(SubSeq(s, 1, n)).succeeded /\ ~ParseFile(SubSeq(s, 1, n)).unresolved
              /\ entry.messages = ParseFile(SubSeq(s, 1, n)).messages
              /\ entry.state = ParseFile(SubSeq(s, 1, n)).st
              /\ IsSeq(entry.messages)
              /\ Behind(entry.messages, InitParse(entry.state)) = Whole(SubSeq(s, 1, n))
<1>1. PICK s \in Scripts : \E n \in 0..Len(s) :
         LET content == [lines |-> SubSeq(s, 1, n), part |-> "none"]
             p == ParseFile(content.lines)
         IN  /\ p.succeeded /\ ~p.unresolved
             /\ entry = [fp |-> content, prefix |-> content, offset |-> 3 * n, newline |-> TRUE,
                         state |-> p.st, messages |-> p.messages]
  BY DEF IsEntry
<1>2. PICK n \in 0..Len(s) :
         LET content == [lines |-> SubSeq(s, 1, n), part |-> "none"]
             p == ParseFile(content.lines)
         IN  /\ p.succeeded /\ ~p.unresolved
             /\ entry = [fp |-> content, prefix |-> content, offset |-> 3 * n, newline |-> TRUE,
                         state |-> p.st, messages |-> p.messages]
  BY <1>1
<1>3. PICK lines : lines = SubSeq(s, 1, n)
  OBVIOUS
<1>4. PICK p : p = ParseFile(lines)
  OBVIOUS
<1>5. [lines |-> lines, part |-> "none"].lines = lines
  OBVIOUS
<1>6. /\ p.succeeded /\ ~p.unresolved
      /\ entry = [fp |-> [lines |-> lines, part |-> "none"],
                  prefix |-> [lines |-> lines, part |-> "none"],
                  offset |-> 3 * n, newline |-> TRUE, state |-> p.st, messages |-> p.messages]
  BY <1>2, <1>3, <1>4, <1>5
<1>7. IsSeq(lines)
  BY <1>3, FirstLines, ScriptIsSeq
<1>8. p = Whole(lines) /\ p.pending = <<>> /\ IsParse(p)
  BY <1>4, <1>6, <1>7, CleanEnd, WholeIsParse
<1>9. IsSeq(p.messages) /\ p = Behind(p.messages, InitParse(p.st))
  BY <1>6, <1>8, InitParts DEF IsParse
<1>10. /\ entry.fp = [lines |-> lines, part |-> "none"] /\ entry.prefix = entry.fp
       /\ entry.fp.lines = lines /\ entry.fp.part = "none"
       /\ entry.offset = 3 * n /\ entry.newline
       /\ entry.state = p.st /\ entry.messages = p.messages
  BY <1>6
<1>11. Behind(entry.messages, InitParse(entry.state)) = Whole(lines) /\ IsSeq(entry.messages)
  BY <1>8, <1>9, <1>10
<1> QED
  BY <1>3, <1>4, <1>6, <1>10, <1>11

\* A scan finds what was parsed before unchanged, or starts afresh.
LEMMA CheckPrefixInv ==
    ASSUME CodexInv, CheckPrefix
    PROVE  CodexInv'
<1>1. /\ pc = "prefix" /\ UNCHANGED <<script, file, fp, start, entry>>
      /\ \/ /\ PrefixMatches(entry, file)
            /\ pc' = "tail" /\ pos' = entry.offset
            /\ parse' = InitParse(entry.state)
            /\ prior' = entry.messages
         \/ StartFull(TRUE)
  BY DEF CheckPrefix, fileVars
<1>2. FileInv' /\ EntryInv'
  BY <1>1, SameFile
<1>3. /\ Written(file, script) /\ Size(file) \in Nat /\ Written(fp, script)
      /\ entry # NoEntry /\ IsEntry(entry)
      /\ start # None => /\ Written(start, script)
                         /\ Size(start) <= Size(fp) /\ Size(fp) <= Size(file)
  BY <1>1, WrittenForm DEF CodexInv, FileInv, ScanInv, EntryInv, StartInv
<1>4. CASE StartFull(TRUE)
  <2>1. /\ pc' = "full" /\ pos' = 0 /\ pos' \in Nat /\ IsParse(parse') /\ prior' = <<>>
        /\ IsSeq(prior') /\ Reached'
    <3>1. PICK drop : drop = TRUE
      OBVIOUS
    <3>2. StartFull(drop)
      BY <1>4, <3>1
    <3> QED
      BY <1>1, <3>2, StartFullReached
  <2>2. ScanInv'
    BY <1>1, <1>3, <2>1 DEF ScanInv, Reading, Finishing
  <2>3. StartInv'
    BY <1>1, <1>3, <2>1 DEF StartInv, Finishing
  <2> QED
    BY <1>2, <2>2, <2>3 DEF CodexInv
<1>5. CASE /\ PrefixMatches(entry, file)
           /\ pc' = "tail" /\ pos' = entry.offset
           /\ parse' = InitParse(entry.state)
           /\ prior' = entry.messages
  <2>0. PICK s \in Scripts : \E n \in 0..Len(s) :
          /\ entry.prefix.lines = SubSeq(s, 1, n)
          /\ entry.offset = 3 * n
          /\ IsSeq(entry.messages)
          /\ Behind(entry.messages, InitParse(entry.state)) = Whole(SubSeq(s, 1, n))
    BY <1>3, EntryForm
  <2>1. PICK n \in 0..Len(s) :
          /\ entry.prefix.lines = SubSeq(s, 1, n)
          /\ entry.offset = 3 * n
          /\ IsSeq(entry.messages)
          /\ Behind(entry.messages, InitParse(entry.state)) = Whole(SubSeq(s, 1, n))
    BY <2>0
  <2>2. n \in Nat
    BY ScriptIsSeq
  <2>3. Size(file) >= 3 * n /\ Prefix(file, 3 * n) = entry.prefix
    BY <1>5, <2>1 DEF PrefixMatches
  <2>4. /\ Len(file.lines) \in 0..Len(script) /\ Len(script) \in Nat
        /\ Size(file) = 3 * Len(file.lines) + PartSize(file.part)
        /\ PartSize(file.part) \in 0..2
        /\ \A m \in 0..Len(file.lines) : SubSeq(file.lines, 1, m) = SubSeq(script, 1, m)
    BY <1>3, WrittenForm, ScriptIsSeq DEF CodexInv, FileInv
  <2>5. n <= Len(file.lines) /\ (3 * n) \div 3 = n
    <3>1. \A a, b \in Nat : \A c \in 0..2 : 3 * a + c >= 3 * b => b <= a
      OBVIOUS
    <3>2. Len(file.lines) \in Nat /\ 3 * Len(file.lines) + PartSize(file.part) >= 3 * n
      BY <2>3, <2>4
    <3>3. (3 * n) \div 3 = n
      BY <2>2
    <3> QED
      BY <2>2, <2>4, <3>1, <3>2, <3>3
  <2>6. n \in 0..Len(script) /\ SubSeq(script, 1, n) = SubSeq(s, 1, n)
    <3>1. Prefix(file, 3 * n).lines = SubSeq(file.lines, 1, n)
      BY <2>5 DEF Prefix
    <3>2. entry.prefix.lines = SubSeq(s, 1, n)
      BY <2>1
    <3>3. n \in 0..Len(file.lines) /\ n \in 0..Len(script)
      BY <2>2, <2>4, <2>5
    <3> QED
      BY <2>3, <2>4, <3>1, <3>2, <3>3
  <2>7. Behind(prior', parse') = Whole(SubSeq(script, 1, n)) /\ pos' = 3 * n
    BY <1>5, <2>1, <2>6
  <2>8. Reached' /\ pos' \in Nat /\ pos' <= Size(file) /\ IsParse(parse') /\ IsSeq(prior')
    BY <1>1, <1>5, <2>1, <2>2, <2>3, <2>6, <2>7, InitParts DEF Reached, At
  <2>9. ScanInv'
    BY <1>1, <1>3, <1>5, <2>8 DEF ScanInv, Reading, Finishing
  <2>10. StartInv'
    BY <1>1, <1>3, <1>5, <2>8 DEF StartInv, Finishing
  <2> QED
    BY <1>2, <2>9, <2>10 DEF CodexInv
<1> QED
  BY <1>1, <1>4, <1>5

\* One more line of the session.
LEMMA NextReached ==
    ASSUME NEW s \in Scripts, NEW n \in Nat, n < Len(s), NEW earlier, IsSeq(earlier),
           NEW p, IsParse(p), Behind(earlier, p) = Whole(SubSeq(s, 1, n))
    PROVE  Behind(earlier, ParseLine(p, s[n + 1])) = Whole(SubSeq(s, 1, n + 1))
<1>1. IsSeq(s) /\ Len(s) \in Nat
  BY ScriptIsSeq
<1>2. IsSeq(SubSeq(s, 1, n)) /\ SubSeq(s, 1, n + 1) = Append(SubSeq(s, 1, n), s[n + 1])
  BY <1>1, FirstLines
<1>3. PICK lines, line, start0 :
         lines = SubSeq(s, 1, n) /\ line = s[n + 1] /\ start0 = InitParse(InitState)
  OBVIOUS
<1>4. ParseFrom(start0, Append(lines, line)) = ParseLine(ParseFrom(start0, lines), line)
  BY <1>2, <1>3, ParseOneMore
<1>5. ParseLine(Behind(earlier, p), line) = Behind(earlier, ParseLine(p, line))
  BY LineBehind
<1> QED
  BY <1>2, <1>3, <1>4, <1>5 DEF Whole

\* A scan reads a line.
LEMMA ReadLineInv ==
    ASSUME CodexInv, ReadLine
    PROVE  CodexInv'
<1> DEFINE at == Read(pos)
<1>1. /\ pc \in Reading /\ pos < Size(file) /\ pos' = at.to
      /\ parse' = (IF at.line = NoLine THEN parse ELSE ParseLine(parse, at.line))
      /\ start' = (IF at.line = Malformed THEN None ELSE start)
      /\ UNCHANGED <<pc, fp, prior, script, file, entry>>
  BY DEF ReadLine, fileVars, Reading
<1>2. FileInv' /\ EntryInv'
  BY <1>1, SameFile
<1>3. /\ script \in Scripts /\ Len(script) \in Nat
      /\ pos \in Nat /\ IsParse(parse) /\ IsSeq(prior) /\ Written(fp, script)
      /\ parse.succeeded \/ start # None => Reached
  BY <1>1, ScriptIsSeq DEF CodexInv, FileInv, ScanInv, Reading
<1>4. /\ pos % 3 \in 0..2 /\ pos = 3 * (pos \div 3) + (pos % 3) /\ pos \div 3 \in Nat
      /\ at.to \in Nat /\ at.to <= Size(file)
      /\ pos % 3 = 0 =>
           \/ at.line = Malformed
           \/ /\ pos \div 3 < Len(script) /\ at.line = script[pos \div 3 + 1]
              /\ at.to % 3 = 0 /\ at.to \div 3 = pos \div 3 + 1
           \/ /\ pos \div 3 < Len(script) /\ at.line = script[pos \div 3 + 1]
              /\ at.to % 3 = 2 /\ at.to \div 3 = pos \div 3
      /\ pos % 3 = 1 => at.line = Malformed
      /\ pos % 3 = 2 => /\ at.line = NoLine
                        /\ at.to % 3 = 0 /\ at.to \div 3 = pos \div 3 + 1
  <2>1. pos \in Nat /\ pos < Size(file) /\ FileInv
    BY <1>1, <1>3 DEF CodexInv
  <2>2. pos % 3 \in 0..2 /\ pos = 3 * (pos \div 3) + (pos % 3) /\ pos \div 3 \in Nat
    BY <2>1
  <2> QED
    BY <2>1, <2>2, WhatIsRead
<1>5. /\ pos' \in Nat /\ pos' <= Size(file)
      /\ at.to = 3 * (at.to \div 3) + (at.to % 3) /\ at.to \div 3 \in Nat
  BY <1>1, <1>4
<1>6. PICK k, r, m, t :
         /\ k = pos \div 3 /\ r = pos % 3 /\ m = at.to \div 3 /\ t = at.to % 3
  OBVIOUS
<1> HIDE DEF at
<1>7. /\ k \in Nat /\ m \in Nat /\ r \in 0..2 /\ pos = 3 * k + r /\ at.to = 3 * m + t
      /\ r = 0 =>
           \/ at.line = Malformed
           \/ /\ k < Len(script) /\ at.line = script[k + 1]
              /\ (t = 0 /\ m = k + 1) \/ (t = 2 /\ m = k)
      /\ r = 1 => at.line = Malformed
      /\ r = 2 => at.line = NoLine /\ t = 0 /\ m = k + 1
  BY <1>4, <1>5, <1>6
<1>8. NoLine # Malformed
  BY DEF NoLine, Malformed
<1>9. IsParse(parse') /\ IsSeq(prior')
  BY <1>1, <1>3, LineBehind DEF Follows
<1>10. ASSUME parse'.succeeded \/ start' # None
      PROVE  Reached'
  <2>1. CASE at.line = NoLine
    <3>1. Reached /\ parse' = parse /\ prior' = prior /\ script' = script
      BY <1>1, <1>3, <1>8, <1>10, <2>1
    <3>2. PICK n \in 0..Len(script) :
             At(n) /\ Behind(prior, parse) = Whole(SubSeq(script, 1, n))
      BY <3>1 DEF Reached
    <3>3. r = 2
      <4>1. r # 1
        BY <1>7, <1>8, <2>1
      <4>2. r # 0
        <5>1. SUFFICES ASSUME r = 0 PROVE FALSE
          OBVIOUS
        <5>2. k + 1 \in 1..Len(script) /\ script[k + 1] = NoLine
          BY <1>3, <1>7, <1>8, <2>1, <5>1
        <5> QED
          BY <1>3, <5>2, ScriptsAssumption
      <4> QED
        BY <1>7, <4>1, <4>2
    <3>4. at.to = 3 * n
      <4>1. pos = 3 * k + 2 /\ at.to = 3 * (k + 1) /\ n \in Nat
        BY <1>3, <1>7, <3>3
      <4>2. n = k + 1
        BY <1>7, <3>2, <4>1 DEF At
      <4> QED
        BY <4>1, <4>2
    <3>5. At(n)'
      BY <1>1, <3>4 DEF At
    <3> QED
      BY <3>1, <3>2, <3>5 DEF Reached
  <2>2. CASE at.line # NoLine
    <3>1. parse' = ParseLine(parse, at.line)
      BY <1>1, <2>2
    <3>2. /\ ParseLine(parse, at.line).succeeded => parse.succeeded
          /\ at.line = Malformed => ~ParseLine(parse, at.line).succeeded
      BY <1>3, LineBehind DEF Follows
    <3>3. at.line # Malformed /\ Reached
      BY <1>1, <1>3, <1>10, <3>1, <3>2
    <3>4. r = 0
      BY <1>7, <2>2, <3>3
    <3>5. PICK n \in 0..Len(script) :
             At(n) /\ Behind(prior, parse) = Whole(SubSeq(script, 1, n))
      BY <3>3 DEF Reached
    <3>6. n = k /\ n \in Nat
      <4>1. pos = 3 * k /\ n \in Nat
        BY <1>3, <1>7, <3>4
      <4> QED
        BY <1>7, <3>5, <4>1 DEF At
    <3>7. n < Len(script) /\ at.line = script[n + 1]
      BY <1>7, <3>3, <3>4, <3>6
    <3>8. at.to = 3 * (n + 1) \/ at.to + 1 = 3 * (n + 1)
      BY <1>7, <3>3, <3>4, <3>6
    <3>9. At(n + 1)'
      BY <1>1, <3>8 DEF At
    <3>10. Behind(prior, parse') = Whole(SubSeq(script, 1, n + 1))
      BY <1>3, <3>1, <3>5, <3>6, <3>7, NextReached
    <3>11. n + 1 \in 0..Len(script)
      BY <1>3, <3>6, <3>7
    <3> QED
      BY <1>1, <3>9, <3>10, <3>11 DEF Reached
  <2> QED
    BY <2>1, <2>2
<1>11. ScanInv'
  BY <1>1, <1>3, <1>5, <1>9, <1>10 DEF CodexInv, ScanInv, Reading, Finishing
<1>12. StartInv'
  <2>1. pc \notin Finishing /\ pc # "prefix" /\ pc # "idle"
    BY <1>1 DEF Reading, Finishing
  <2> QED
    BY <1>1, <1>5, <2>1 DEF CodexInv, StartInv
<1> QED
  BY <1>2, <1>11, <1>12 DEF CodexInv

\* A scan meets the end of the file.
LEMMA EndReadInv ==
    ASSUME CodexInv, EndRead
    PROVE  CodexInv'
<1> DEFINE q == FlushUnknown(parse)
<1>1. PICK ok \in BOOLEAN :
         /\ ok => pos >= Size(file)
         /\ parse' = [q EXCEPT !.succeeded = @ /\ ok]
         /\ start' = IF ok THEN start ELSE None
  BY DEF EndRead, EndOfFile
<1>2. /\ pc \in Reading /\ pc' \in {"read_full", "read_tail"}
      /\ pc' = "read_full" => pc = "full"
      /\ UNCHANGED <<fp, pos, prior, script, file, entry>>
  BY DEF EndRead, fileVars, Reading
<1>3. FileInv' /\ EntryInv'
  BY <1>2, SameFile
<1>4. /\ script \in Scripts /\ Len(script) \in Nat
      /\ pos \in Nat /\ IsParse(parse) /\ IsSeq(prior) /\ Written(fp, script)
      /\ parse.succeeded \/ start # None => Reached
      /\ pc = "full" => prior = <<>>
      /\ Size(file) \in Nat
  BY <1>2, ScriptIsSeq, WrittenForm DEF CodexInv, FileInv, ScanInv, Reading
<1>5. /\ FlushUnknown(Behind(prior, parse)) = Behind(prior, q)
      /\ IsParse(q) /\ (q.succeeded => parse.succeeded)
  BY <1>4, FlushUnknownBehind DEF Follows
<1> HIDE DEF q
<1>6. PICK v \in BOOLEAN : v = (q.succeeded /\ ok)
  OBVIOUS
<1>7. IsParse(parse') /\ parse'.succeeded = v /\ (ok => parse' = q)
  <2>1. parse' = [q EXCEPT !.succeeded = v]
    BY <1>1, <1>6
  <2>2. q = Parts(q.st, q.messages, q.pending, q.succeeded, q.unresolved)
    BY <1>5 DEF IsParse
  <2>3. [q EXCEPT !.succeeded = v] = Parts(q.st, q.messages, q.pending, v, q.unresolved)
    BY <2>2 DEF Parts
  <2>4. IsParse(Parts(q.st, q.messages, q.pending, v, q.unresolved))
    BY <1>5, PartsParse DEF IsParse
  <2>5. Parts(q.st, q.messages, q.pending, v, q.unresolved).succeeded = v
    BY PartsOf
  <2>6. ok => v = q.succeeded
    BY <1>5, <1>6 DEF IsParse
  <2> QED
    BY <2>1, <2>2, <2>3, <2>4, <2>5, <2>6
<1>8. ASSUME parse'.succeeded \/ start' # None
      PROVE  Ended'
  <2>1. ok /\ (parse.succeeded \/ start # None)
    BY <1>1, <1>5, <1>6, <1>7, <1>8
  <2>2. PICK n \in 0..Len(script) :
           At(n) /\ Behind(prior, parse) = Whole(SubSeq(script, 1, n))
    BY <1>4, <2>1 DEF Reached
  <2>3. Behind(prior, parse') = ParseFile(SubSeq(script, 1, n))
    BY <1>5, <1>7, <2>1, <2>2 DEF ParseFile, EndOfFile, Whole
  <2>4. At(n)'
    BY <1>2, <2>2 DEF At
  <2> QED
    BY <1>2, <2>2, <2>3, <2>4 DEF Ended
<1>9. ScanInv'
  BY <1>2, <1>4, <1>7, <1>8 DEF ScanInv, Reading, Finishing, Cacheable
<1>10. StartInv'
  <2> SUFFICES ASSUME start' # None
               PROVE  /\ Written(start, script)
                      /\ Size(start) <= Size(fp) /\ Size(fp) <= Size(file)
                      /\ pos <= Size(file) /\ Size(start) <= pos
    BY <1>1, <1>2 DEF StartInv
  <2>1. ok /\ start # None /\ pos >= Size(file)
    BY <1>1
  <2>2. /\ Written(start, script)
        /\ Size(start) <= Size(fp) /\ Size(fp) <= Size(file)
        /\ pos <= Size(file)
    BY <1>2, <2>1 DEF CodexInv, StartInv, Reading
  <2>3. Size(start) \in Nat /\ Size(fp) \in Nat
    BY <1>4, <2>2, WrittenForm
  <2> QED
    BY <1>4, <2>1, <2>2, <2>3
<1> QED
  BY <1>3, <1>9, <1>10 DEF CodexInv

\* An entry is only made of a parse that covers the fingerprinted content.
LEMMA StoredEntry ==
    ASSUME CodexInv, pc \in {"build_full", "read_tail"}, Cacheable, Storable(fp)
    PROVE  IsEntry(NewEntry(fp))
<1>1. /\ script \in Scripts /\ pos \in Nat /\ IsParse(parse) /\ Written(fp, script) /\ Ended
  BY DEF CodexInv, FileInv, ScanInv, Finishing
<1>2. PICK n \in 0..Len(script) :
         At(n) /\ Behind(prior, parse) = ParseFile(SubSeq(script, 1, n))
  BY <1>1 DEF Ended
<1>3. n \in Nat /\ Len(script) \in Nat
  BY <1>1, ScriptIsSeq
<1>4. Size(fp) = pos /\ pos % 3 = 0
  BY DEF Storable, EndsLine
<1>5. pos = 3 * n
  <2>1. \A k \in Nat : (3 * k - 1) % 3 = 2
    OBVIOUS
  <2>2. pos + 1 = 3 * n => pos = 3 * n - 1
    BY <1>1, <1>3
  <2> QED
    BY <1>2, <1>3, <1>4, <2>1, <2>2 DEF At
<1>6. fp = [lines |-> SubSeq(script, 1, n), part |-> "none"]
  <2>1. /\ Len(fp.lines) \in Nat /\ fp.lines = SubSeq(script, 1, Len(fp.lines))
        /\ fp = [lines |-> fp.lines, part |-> fp.part]
        /\ PartSize(fp.part) \in 0..2 /\ (PartSize(fp.part) = 0 <=> fp.part = "none")
        /\ Size(fp) = 3 * Len(fp.lines) + PartSize(fp.part)
    BY <1>1, <1>3, WrittenForm
  <2>2. \A a, b \in Nat : \A c \in 0..2 : 3 * a + c = 3 * b => a = b /\ c = 0
    OBVIOUS
  <2>3. 3 * Len(fp.lines) + PartSize(fp.part) = 3 * n
    BY <1>4, <1>5, <2>1
  <2>4. Len(fp.lines) = n /\ PartSize(fp.part) = 0
    BY <1>3, <2>1, <2>2, <2>3
  <2> QED
    BY <2>1, <2>4
<1>7. PICK content, p : /\ content = [lines |-> SubSeq(script, 1, n), part |-> "none"]
                        /\ p = ParseFile(content.lines)
  OBVIOUS
<1>8. content.lines = SubSeq(script, 1, n)
  BY <1>7
<1>9. p = Parts(parse.st, prior \o parse.messages, parse.pending, parse.succeeded,
                parse.unresolved)
  BY <1>1, <1>2, <1>7, <1>8, BehindParts DEF IsParse
<1>10. /\ p.st = parse.st /\ p.messages = prior \o parse.messages
       /\ p.succeeded = parse.succeeded /\ p.unresolved = parse.unresolved
  <2>1. PICK all : all = prior \o parse.messages
    OBVIOUS
  <2>2. p = Parts(parse.st, all, parse.pending, parse.succeeded, parse.unresolved)
    BY <1>9, <2>1
  <2> QED
    BY <2>1, <2>2 DEF Parts
<1>11. NewEntry(fp) = [fp |-> content, prefix |-> content, offset |-> 3 * n, newline |-> TRUE,
                       state |-> p.st, messages |-> p.messages]
  BY <1>5, <1>6, <1>7, <1>10 DEF NewEntry
<1>12. p.succeeded /\ ~p.unresolved
  BY <1>10 DEF Cacheable
<1> QED
  BY <1>1, <1>7, <1>11, <1>12 DEF IsEntry

\* A scan that is over leaves its entry.
LEMMA IdleInv ==
    ASSUME CodexInv, UNCHANGED <<script, file>>, pc' = "idle", EntryInv'
    PROVE  CodexInv'
BY SameFile DEF CodexInv, ScanInv, StartInv, Reading, Finishing

\* A scan takes the fingerprint of what it has read.
LEMMA FingerprintInv ==
    ASSUME CodexInv, Fingerprint
    PROVE  CodexInv'
<1>1. /\ pc = "read_full" /\ Cacheable /\ pc' = "build_full" /\ fp' = file
      /\ UNCHANGED <<pos, parse, prior, start, script, file, entry>>
  BY DEF Fingerprint, fileVars
<1>2. FileInv' /\ EntryInv'
  BY <1>1, SameFile
<1>3. Written(file, script) /\ Size(file) \in Nat
  BY WrittenForm DEF CodexInv, FileInv
<1>4. ScanInv'
  BY <1>1, <1>3 DEF CodexInv, ScanInv, Reading, Finishing, Cacheable, Ended, At
<1>5. StartInv'
  <2> SUFFICES ASSUME start # None
               PROVE  /\ Written(start, script)
                      /\ Size(start) <= Size(file) /\ Size(file) <= Size(file)
                      /\ pos <= Size(file) /\ Size(start) <= pos
    BY <1>1 DEF StartInv
  <2>1. /\ Written(start, script)
        /\ Size(start) <= Size(fp) /\ Size(fp) <= Size(file)
        /\ pos <= Size(file) /\ Size(start) <= pos
    BY <1>1 DEF CodexInv, StartInv, Finishing
  <2>2. Size(start) \in Nat /\ Size(fp) \in Nat
    BY <1>1, <2>1, WrittenForm DEF CodexInv, FileInv, ScanInv
  <2> QED
    BY <1>3, <2>1, <2>2
<1> QED
  BY <1>2, <1>4, <1>5 DEF CodexInv

\* A scan starts over with a full parse.
LEMMA ReparseInv ==
    ASSUME CodexInv, Reparse
    PROVE  CodexInv'
<1>1. /\ pc = "read_tail" /\ StartFull(TRUE)
      /\ UNCHANGED <<fp, start, script, file, entry>>
  BY DEF Reparse, fileVars
<1>2. FileInv' /\ EntryInv'
  BY <1>1, SameFile
<1>3. /\ pc' = "full" /\ pos' = 0 /\ pos' \in Nat /\ IsParse(parse') /\ prior' = <<>>
      /\ IsSeq(prior') /\ Reached'
  <2>1. PICK drop : drop = TRUE
    OBVIOUS
  <2>2. StartFull(drop)
    BY <1>1, <2>1
  <2> QED
    BY <1>1, <2>2, StartFullReached
<1>4. /\ Written(fp, script) /\ Size(file) \in Nat
      /\ start # None => /\ Written(start, script)
                         /\ Size(start) <= Size(fp) /\ Size(fp) <= Size(file)
  BY <1>1, WrittenForm DEF CodexInv, FileInv, ScanInv, StartInv
<1>5. ScanInv'
  BY <1>1, <1>3, <1>4 DEF ScanInv, Reading, Finishing
<1>6. StartInv'
  BY <1>1, <1>3, <1>4 DEF StartInv, Finishing
<1> QED
  BY <1>2, <1>5, <1>6 DEF CodexInv

\* Every step keeps the invariant.
LEMMA NextCodexInv ==
    ASSUME CodexInv, [Next]_vars
    PROVE  CodexInv'
<1>1. CASE Write
  BY <1>1, WriteInv
<1>2. CASE CutBack
  BY <1>2, CutBackInv
<1>3. CASE Check
  BY <1>3, CheckInv
<1>4. CASE Hit
  <2>1. UNCHANGED <<fileVars, scanVars, entry>>
    BY <1>4 DEF Hit
  <2> QED
    BY <2>1 DEF CodexInv, FileInv, ScanInv, StartInv, EntryInv, fileVars, scanVars, Written,
                Reached, Ended, At, Cacheable, IsEntry, NoEntry, Size
<1>5. CASE CheckPrefix
  BY <1>5, CheckPrefixInv
<1>6. CASE ReadLine
  BY <1>6, ReadLineInv
<1>7. CASE EndRead
  BY <1>7, EndReadInv
<1>8. CASE FinishUncached
  <2>1. UNCHANGED <<script, file>> /\ pc' = "idle" /\ entry' \in {NoEntry, entry}
    BY <1>8 DEF FinishUncached, Idle, ScanEnds
  <2>2. EntryInv'
    BY <2>1 DEF CodexInv, EntryInv, IsEntry, NoEntry
  <2> QED
    BY <2>1, <2>2, IdleInv
<1>9. CASE Fingerprint
  BY <1>9, FingerprintInv
<1>10. CASE FinishFull
  <2>1. UNCHANGED <<script, file>> /\ pc' = "idle"
    BY <1>10 DEF FinishFull, Idle, ScanEnds
  <2>2. \/ entry' \in {NoEntry, entry}
        \/ Storable(fp) /\ entry' = NewEntry(fp)
    BY <1>10 DEF FinishFull
  <2>3. pc = "build_full" /\ Cacheable
    BY <1>10 DEF FinishFull, CodexInv, ScanInv
  <2>4. Storable(fp) => IsEntry(NewEntry(fp))
    BY <2>3, StoredEntry
  <2>5. EntryInv'
    BY <2>2, <2>4 DEF CodexInv, EntryInv, IsEntry, NoEntry
  <2> QED
    BY <2>1, <2>5, IdleInv
<1>11. CASE FinishTail
  <2>1. UNCHANGED <<script, file>> /\ pc' = "idle" /\ entry' = NewEntry(fp)
    BY <1>11 DEF FinishTail, Idle, ScanEnds
  <2>2. IsEntry(NewEntry(fp))
    BY <1>11, StoredEntry DEF FinishTail
  <2>3. EntryInv'
    BY <2>1, <2>2 DEF EntryInv, IsEntry
  <2> QED
    BY <2>1, <2>3, IdleInv
<1>12. CASE Reparse
  BY <1>12, ReparseInv
<1>13. CASE UNCHANGED vars
  BY <1>13 DEF CodexInv, FileInv, ScanInv, StartInv, EntryInv, vars, fileVars, scanVars, Written,
               Reached, Ended, At, Cacheable, IsEntry, NoEntry, Size
<1> QED
  BY <1>1, <1>2, <1>3, <1>4, <1>5, <1>6, <1>7, <1>8, <1>9, <1>10, <1>11, <1>12, <1>13
  DEF Next, Scan

\* Initially there is no entry.
LEMMA InitCodexInv == Init => CodexInv
BY InitFileInv DEF Init, CodexInv, ScanInv, StartInv, EntryInv, Reading, Finishing

(***************************************************************************)
(* The inductive invariant of the incremental parse: the script of the    *)
(* file, what a scan has read and how it resumed, what it goes on from    *)
(* and what its entry is the parse of, for any sessions and any forks,    *)
(* with a writer at every step of codex_stage_a.                          *)
(***************************************************************************)
THEOREM ScansAreSound == Spec => []CodexInv
<1>1. CodexInv /\ [Next]_vars => CodexInv'
  BY NextCodexInv
<1> QED
  BY <1>1, InitCodexInv, PTL DEF Spec

-------------------------------------------------------------------------------
\* The contents the properties have computed the parse of.
LEMMA ParseOfIsParseFile ==
    ASSUME NEW s \in Scripts, NEW n \in 0..Len(s)
    PROVE  ParseOf[SubSeq(s, 1, n)] = ParseFile(SubSeq(s, 1, n))
<1>1. SubSeq(s, 1, n) \in Prefixes
  BY DEF Prefixes
<1> QED
  BY <1>1 DEF ParseOf

(***************************************************************************)
(* The cached entry of a rollout is the parse of exactly the content it is *)
(* fingerprinted with, for any sessions, forks and interleaving of writes, *)
(* replacements and scans: codex_stage_a may resume from it.               *)
(***************************************************************************)
THEOREM EntriesAreFullParses == Spec => []EntryIsFullParse
<1>1. CodexInv => EntryIsFullParse
  <2> SUFFICES ASSUME CodexInv, entry # NoEntry
               PROVE  LET p == ParseOf[entry.fp.lines]
                      IN  /\ entry.fp.part = "none" /\ entry.offset = Size(entry.fp)
                          /\ p.succeeded /\ ~p.unresolved
                          /\ entry.messages = p.messages /\ entry.state = p.st
    BY DEF EntryIsFullParse
  <2>1. PICK s \in Scripts : \E n \in 0..Len(s) :
          /\ entry.fp.lines = SubSeq(s, 1, n) /\ entry.fp.part = "none"
          /\ entry.offset = 3 * n
          /\ ParseFile(SubSeq(s, 1, n)).succeeded /\ ~ParseFile(SubSeq(s, 1, n)).unresolved
          /\ entry.messages = ParseFile(SubSeq(s, 1, n)).messages
          /\ entry.state = ParseFile(SubSeq(s, 1, n)).st
    BY EntryForm DEF CodexInv, EntryInv
  <2>2. PICK n \in 0..Len(s) :
          /\ entry.fp.lines = SubSeq(s, 1, n) /\ entry.fp.part = "none"
          /\ entry.offset = 3 * n
          /\ ParseFile(SubSeq(s, 1, n)).succeeded /\ ~ParseFile(SubSeq(s, 1, n)).unresolved
          /\ entry.messages = ParseFile(SubSeq(s, 1, n)).messages
          /\ entry.state = ParseFile(SubSeq(s, 1, n)).st
    BY <2>1
  <2>3. Len(SubSeq(s, 1, n)) = n /\ n \in Nat
    BY ScriptIsSeq, FirstLines
  <2>4. Size(entry.fp) = 3 * n
    BY <2>2, <2>3 DEF Size, PartSize
  <2> QED
    BY <2>2, <2>4, ParseOfIsParseFile
<1> QED
  BY <1>1, ScansAreSound, PTL

(***************************************************************************)
(* What an undisturbed scan serves is the parse of the first lines of the  *)
(* session, and of no fewer than the file held when it started.            *)
(***************************************************************************)
LEMMA UndisturbedServes ==
    ASSUME CodexInv, pc \in Finishing, start # None
    PROVE  \E n \in Len(start.lines)..Len(script) :
             prior \o parse.messages = ParseOf[SubSeq(script, 1, n)].messages
<1>1. /\ script \in Scripts /\ pos \in Nat /\ IsParse(parse) /\ Written(start, script)
      /\ Ended /\ Size(start) <= pos
  BY DEF CodexInv, FileInv, ScanInv, StartInv, Finishing
<1>2. PICK n \in 0..Len(script) :
         At(n) /\ Behind(prior, parse) = ParseFile(SubSeq(script, 1, n))
  BY <1>1 DEF Ended
<1>3. n \in Nat /\ Len(script) \in Nat
  BY <1>1, ScriptIsSeq
<1>4. Len(start.lines) \in Nat /\ Len(start.lines) <= n
  <2>1. /\ Len(start.lines) \in Nat /\ PartSize(start.part) \in 0..2
        /\ Size(start) = 3 * Len(start.lines) + PartSize(start.part)
    BY <1>1, <1>3, WrittenForm
  <2>2. \A a, b \in Nat : \A c \in 0..2 : 3 * a + c <= 3 * b => a <= b
    OBVIOUS
  <2>3. pos <= 3 * n
    BY <1>1, <1>2, <1>3 DEF At
  <2>4. 3 * Len(start.lines) + PartSize(start.part) <= 3 * n
    BY <1>1, <1>3, <2>1, <2>3
  <2> QED
    BY <1>3, <2>1, <2>2, <2>4
<1>5. Behind(prior, parse).messages = prior \o parse.messages
  <2>1. PICK all : all = prior \o parse.messages
    OBVIOUS
  <2>2. Behind(prior, parse)
          = Parts(parse.st, all, parse.pending, parse.succeeded, parse.unresolved)
    BY <1>1, <2>1, BehindParts DEF IsParse
  <2> QED
    BY <2>1, <2>2 DEF Parts
<1>6. prior \o parse.messages = ParseOf[SubSeq(script, 1, n)].messages
  <2>1. ParseOf[SubSeq(script, 1, n)] = ParseFile(SubSeq(script, 1, n))
    BY <1>1, <1>2, ParseOfIsParseFile
  <2> QED
    BY <1>2, <1>5, <2>1
<1>7. n \in Len(start.lines)..Len(script)
  BY <1>2, <1>3, <1>4
<1> QED
  BY <1>6, <1>7

(***************************************************************************)
(* What a scan reports is the parse of a state the file was in, and of no  *)
(* earlier one than the scan found.                                        *)
(***************************************************************************)
THEOREM ScansServeAState == Spec => ServesAState
<1> DEFINE Served == \E n \in Len(served'.of.lines)..Len(script) :
                       served'.messages = ParseOf[SubSeq(script, 1, n)].messages
<1>1. ASSUME CodexInv, Next, served' # served, served'.of # None
      PROVE  Served
  <2>1. NothingServed.of = None
    BY DEF NothingServed
  <2>2. CASE Write \/ CutBack
    BY <1>1, <2>2 DEF Write, CutBack
  <2>3. CASE Check
    BY <1>1, <2>1, <2>3 DEF Check
  <2>4. CASE CheckPrefix \/ ReadLine \/ EndRead \/ Fingerprint \/ Reparse
    BY <1>1, <2>4 DEF CheckPrefix, ReadLine, EndRead, Fingerprint, Reparse
  <2>5. CASE Hit
    <3>1. entry # NoEntry /\ entry.fp = file /\ served' = [messages |-> entry.messages, of |-> file]
      BY <2>5 DEF Hit, IsHit
    <3>2. PICK s \in Scripts : \E n \in 0..Len(s) :
            /\ entry.fp.lines = SubSeq(s, 1, n)
            /\ entry.messages = ParseFile(SubSeq(s, 1, n)).messages
      BY <1>1, <3>1, EntryForm DEF CodexInv, EntryInv
    <3>3. PICK n \in 0..Len(s) :
            /\ entry.fp.lines = SubSeq(s, 1, n)
            /\ entry.messages = ParseFile(SubSeq(s, 1, n)).messages
      BY <3>2
    <3>4. /\ script \in Scripts /\ Len(file.lines) \in 0..Len(script) /\ Len(script) \in Nat
          /\ file.lines = SubSeq(script, 1, Len(file.lines))
      BY <1>1, WrittenForm, ScriptIsSeq DEF CodexInv, FileInv
    <3>5. entry.messages = ParseOf[SubSeq(script, 1, Len(file.lines))].messages
      BY <3>1, <3>3, <3>4, ParseOfIsParseFile
    <3>6. served'.messages = entry.messages /\ served'.of = file
      BY <3>1
    <3>7. Len(file.lines) \in Len(file.lines)..Len(script)
      BY <3>4
    <3> QED
      BY <3>5, <3>6, <3>7
  <2>6. CASE FinishUncached \/ FinishFull
    <3>1. /\ pc \in Finishing /\ prior = <<>> /\ Serve(parse.messages) /\ IsParse(parse)
      BY <1>1, <2>6 DEF FinishUncached, FinishFull, CodexInv, ScanInv, Finishing
    <3>2. start # None /\ served' = [messages |-> parse.messages, of |-> start]
      BY <1>1, <2>1, <3>1 DEF Serve
    <3>3. prior \o parse.messages = parse.messages
      BY <3>1, Joined DEF IsParse
    <3>4. served'.messages = parse.messages /\ served'.of = start
      BY <3>2
    <3> QED
      BY <1>1, <3>1, <3>2, <3>3, <3>4, UndisturbedServes
  <2>7. CASE FinishTail
    <3>1. pc \in Finishing /\ Serve(prior \o parse.messages)
      BY <2>7 DEF FinishTail, Finishing
    <3>2. PICK all : all = prior \o parse.messages
      OBVIOUS
    <3>3. start # None /\ served' = [messages |-> all, of |-> start]
      BY <1>1, <2>1, <3>1, <3>2 DEF Serve
    <3>4. served'.messages = all /\ served'.of = start
      BY <3>3
    <3> QED
      BY <1>1, <3>1, <3>2, <3>3, <3>4, UndisturbedServes
  <2> QED
    BY <1>1, <2>2, <2>3, <2>4, <2>5, <2>6, <2>7 DEF Next, Scan
<1>2. CodexInv /\ [Next]_vars => [served' # served /\ served'.of # None => Served]_vars
  BY <1>1 DEF vars
<1> QED
  BY <1>2, ScansAreSound, PTL DEF Spec, ServesAState

(***************************************************************************)
(* Where a scan of a clean file that nobody touched meanwhile ends, the   *)
(* entry it leaves is one the next scan hits.                              *)
(***************************************************************************)
LEMMA QuietScan ==
    ASSUME CodexInv, pc \in Finishing, start = file, start # None, CleanFile
    PROVE  /\ Cacheable /\ Size(file) = pos /\ EndsLine(file, pos)
           /\ fp = file \/ pc = "read_full"
<1>1. /\ script \in Scripts /\ pos \in Nat /\ IsParse(parse) /\ Written(file, script)
      /\ Written(fp, script) /\ Ended /\ Size(file) <= pos /\ pos <= Size(file)
      /\ Size(file) <= Size(fp) /\ Size(fp) <= Size(file)
  BY DEF CodexInv, FileInv, ScanInv, StartInv, Finishing
<1>2. /\ Size(file) \in Nat /\ Size(fp) \in Nat
      /\ Len(file.lines) \in 0..Len(script) /\ Len(script) \in Nat
      /\ file.lines = SubSeq(script, 1, Len(file.lines))
  BY <1>1, ScriptIsSeq, WrittenForm
<1>3. Size(file) = pos /\ fp = file
  <2>1. Size(file) = pos /\ Size(fp) = Size(file)
    BY <1>1, <1>2
  <2> QED
    BY <1>1, <2>1, SameSize
<1>4. Size(file) = 3 * Len(file.lines)
  BY <1>2 DEF CleanFile, Size, PartSize
<1>5. EndsLine(file, pos)
  <2>1. \A k \in Nat : (3 * k) % 3 = 0 /\ 3 * k <= 3 * k
    OBVIOUS
  <2>2. PICK k : k = Len(file.lines)
    OBVIOUS
  <2>3. k \in Nat /\ pos = 3 * k
    BY <1>2, <1>3, <1>4, <2>2
  <2>4. pos % 3 = 0 /\ pos <= 3 * k
    BY <2>1, <2>3
  <2> QED
    BY <2>2, <2>4 DEF EndsLine
<1>6. PICK n \in 0..Len(script) :
         At(n) /\ Behind(prior, parse) = ParseFile(SubSeq(script, 1, n))
  BY <1>1 DEF Ended
<1>7. n = Len(file.lines)
  BY <1>1, <1>2, <1>3, <1>4, <1>6 DEF At
<1>8. Behind(prior, parse) = ParseOf[file.lines]
  BY <1>1, <1>2, <1>6, <1>7, ParseOfIsParseFile
<1>9. /\ Behind(prior, parse).succeeded = parse.succeeded
      /\ Behind(prior, parse).unresolved = parse.unresolved
  <2>1. PICK all : all = prior \o parse.messages
    OBVIOUS
  <2>2. Behind(prior, parse)
          = Parts(parse.st, all, parse.pending, parse.succeeded, parse.unresolved)
    BY <1>1, <2>1, BehindParts DEF IsParse
  <2> QED
    BY <2>2 DEF Parts
<1> QED
  BY <1>3, <1>5, <1>8, <1>9 DEF CleanFile, Cacheable

\* An entry just made of an unchanged file is a hit.
LEMMA NewEntryHits ==
    ASSUME EndsLine(file, pos), Size(file) = pos, fp = file,
           UNCHANGED <<script, file>>, entry' = NewEntry(fp)
    PROVE  IsHit'
<1>1. /\ entry'.fp = file /\ entry'.prefix = file /\ entry'.offset = pos
      /\ entry'.newline /\ DOMAIN entry' = {"fp", "prefix", "offset", "newline", "state", "messages"}
  BY DEF NewEntry
<1>2. DOMAIN NoEntry = {"fp"}
  BY DEF NoEntry
<1>3. entry' # NoEntry /\ NoEntry' = NoEntry
  <2>1. "offset" \in DOMAIN entry' /\ "offset" \notin DOMAIN NoEntry
    BY <1>1, <1>2
  <2> QED
    BY <2>1 DEF NoEntry
<1> QED
  BY <1>1, <1>3 DEF IsHit, Matches, Size

(***************************************************************************)
(* A scan of a clean file that nobody touched meanwhile leaves an entry    *)
(* that the next scan hits, so the file is read once for each state of it. *)
(***************************************************************************)
THEOREM QuietScansCache == Spec => QuietScanCaches
<1>1. ASSUME CodexInv, Next, pc # "idle", pc' = "idle", start = file, CleanFile
      PROVE  IsHit'
  <2>1. start # None
    <3>1. /\ script \in Scripts /\ Len(file.lines) \in 0..Len(script)
          /\ file = [lines |-> SubSeq(script, 1, Len(file.lines)), part |-> file.part]
          /\ file.part \in {"none", "cut", "bare"}
      BY <1>1, WrittenForm DEF CodexInv, FileInv
    <3> QED
      BY <1>1, <3>1, NoneAssumption
  <2>2. CASE FinishUncached
    BY <1>1, <2>1, <2>2, QuietScan DEF FinishUncached, Finishing
  <2>3. CASE FinishFull
    BY <1>1, <2>1, <2>3, QuietScan, NewEntryHits DEF FinishFull, Finishing, Storable, ScanEnds
  <2>4. CASE FinishTail
    BY <1>1, <2>1, <2>4, QuietScan, NewEntryHits DEF FinishTail, Finishing, Storable, ScanEnds
  <2>5. CASE Write \/ CutBack \/ Check \/ Hit \/ CheckPrefix \/ ReadLine \/ EndRead
             \/ Fingerprint \/ Reparse
    BY <1>1, <2>5 DEF Write, CutBack, Check, Hit, CheckPrefix, ReadLine, EndRead, Fingerprint,
                      Reparse, scanVars, StartFull
  <2> QED
    BY <1>1, <2>2, <2>3, <2>4, <2>5 DEF Next, Scan
<1>2. CodexInv /\ [Next]_vars
        => [pc # "idle" /\ pc' = "idle" /\ start = file /\ CleanFile => IsHit']_vars
  BY <1>1
<1> QED
  BY <1>2, ScansAreSound, PTL DEF Spec, QuietScanCaches
===============================================================================
