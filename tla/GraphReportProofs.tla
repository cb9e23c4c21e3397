--------------------------- MODULE GraphReportProofs ---------------------------
(***************************************************************************)
(* Of a graph: that sessions are shown under what cost the most, and that  *)
(* the merged report is the one of the whole list, for all messages,       *)
(* however their list is cut and in whatever order its pieces are merged.  *)
(***************************************************************************)
EXTENDS UsageReportProofs

(***************************************************************************)
(* What a session is shown under.                                          *)
(***************************************************************************)
\* A finite set of numbers has a largest.
LEMMA FiniteMax ==
    ASSUME NEW S, S \subseteq Int, IsFiniteSet(S), S # {}
    PROVE  Graph!Max(S) \in S /\ \A y \in S : Graph!Max(S) >= y
<1>1. PICK n \in Nat : n = Cardinality(S)
  BY FS_CardinalityType
<1>2. PICK f \in Bijection(1..n, S) : TRUE
  BY <1>1, FS_CardinalityType DEF ExistsBijection
<1>3. (\A k \in 1..n : f[k] \in S) /\ \A y \in S : \E k \in 1..n : f[k] = y
  <2>1. f \in Surjection(1..n, S)
    BY <1>2 DEF Bijection
  <2>2. f \in [1..n -> S]
    BY <2>1 DEF Surjection
  <2>3. \A y \in S : \E k \in 1..n : f[k] = y
    BY <2>1 DEF Surjection
  <2>. QED
    BY <2>2, <2>3
<1>. DEFINE Largest(k, x) == x \in 1..k /\ \A y \in 1..k : f[x] >= f[y]
            C == {k \in Nat : k \in 1..n /\ \A x : ~Largest(k, x)}
<1>5. C = {}
  <2>. SUFFICES ASSUME C # {} PROVE FALSE
    OBVIOUS
  <2>1. C \subseteq Nat /\ C # {}
    OBVIOUS
  <2>2. PICK k \in C : \A i \in C : k <= i
    <3>. HIDE DEF C
    <3>. QED
      BY <2>1, LeastNumber
  <2>3. k \in Nat /\ k \in 1..n /\ \A x : ~Largest(k, x)
    BY <2>2
  <2>4. k # 1
    <3>1. ASSUME k = 1 PROVE FALSE
      <4>1. f[1] \in Int
        BY <1>3, <2>3, <3>1
      <4>2. \A y \in 1..1 : f[1] >= f[y]
        BY <4>1
      <4>3. Largest(1, 1)
        BY <4>2
      <4>. QED
        BY <2>3, <3>1, <4>3
    <3>. QED
      BY <3>1
  <2>5. PICK j \in Nat : j = k - 1
    BY <2>3, <2>4
  <2>6. j \in 1..n /\ ~(k <= j)
    BY <2>3, <2>4, <2>5
  <2>7. \E x : Largest(j, x)
    <3>1. j \notin C
      BY <2>2, <2>6
    <3>. HIDE DEF Largest
    <3>. QED
      BY <2>6, <3>1
  <2>8. PICK x : Largest(j, x)
    BY <2>7
  <2>9. f[x] \in Int /\ f[k] \in Int /\ x \in 1..j /\ \A y \in 1..j : f[y] \in Int /\ f[x] >= f[y]
    <3>1. x \in 1..j /\ \A y \in 1..j : f[x] >= f[y]
      BY <2>8
    <3>2. \A y \in 1..j : y \in 1..n
      BY <1>1, <2>6
    <3>3. \A y \in 1..n : f[y] \in Int
      BY <1>3
    <3>. QED
      BY <2>3, <3>1, <3>2, <3>3
  <2>10. \A y \in 1..k : y \in 1..j \/ y = k
    BY <2>3, <2>5
  <2>11. x \in 1..k /\ k \in 1..k
    BY <2>3, <2>5, <2>9
  <2>12. CASE f[x] >= f[k]
    <3>1. \A y \in 1..k : f[x] >= f[y]
      BY <2>9, <2>10, <2>12
    <3>2. Largest(k, x)
      BY <2>11, <3>1
    <3>. QED
      BY <2>3, <3>2
  <2>13. CASE ~(f[x] >= f[k])
    <3>1. f[k] >= f[x]
      BY <2>9, <2>13
    <3>2. \A y \in 1..j : f[k] >= f[y]
      BY <2>9, <3>1
    <3>3. \A y \in 1..k : f[k] >= f[y]
      <4>1. f[k] >= f[k]
        BY <2>9
      <4>. QED
        BY <2>10, <3>2, <4>1
    <3>4. Largest(k, k)
      BY <2>11, <3>3
    <3>. QED
      BY <2>3, <3>4
  <2>. QED
    BY <2>12, <2>13
<1>6. n \in 1..n
  <2>1. PICK y : y \in S
    OBVIOUS
  <2>2. PICK k : k \in 1..n
    BY <1>3, <2>1
  <2>3. n # 0
    BY <2>2
  <2>. QED
    BY <1>1, <2>3
<1>7. \E x : Largest(n, x)
  <2>1. n \notin C
    BY <1>5
  <2>. HIDE DEF Largest
  <2>. QED
    BY <1>1, <1>6, <2>1
<1>8. PICK x : Largest(n, x)
  BY <1>7
<1>9. f[x] \in S /\ \A y \in S : f[x] >= y
  BY <1>3, <1>8
<1>10. \E m \in S : \A y \in S : m >= y
  BY <1>9
<1>. QED
  BY <1>10 DEF Graph!Max

\* The client under which a session is shown has cost what the session says and
\* no client more.
SessionInv(session) ==
    /\ IsFiniteSet(DOMAIN session.clients)
    /\ \A c \in DOMAIN session.clients : session.clients[c].cost \in Nat
    /\ session.top \in DOMAIN session.clients
    /\ session.top_cost = session.clients[session.top].cost
    /\ \A c \in DOMAIN session.clients : session.clients[c].cost <= session.top_cost

\* A session that messages were found of, or none yet.
IsSession(session) == SessionInv(session) \/ session = Graph!NewSession

\* What a session that is looked up is known to have.
LEMMA SessionParts ==
    ASSUME NEW session, IsSession(session)
    PROVE  /\ IsFiniteSet(DOMAIN session.clients)
           /\ session.top_cost \in Int /\ session.top_cost >= -1
           /\ \A c : Graph!At(session.clients, c, Graph!Zero).cost \in Nat
           /\ \A c \in DOMAIN session.clients : session.clients[c].cost <= session.top_cost
<1>1. CASE SessionInv(session)
  BY <1>1 DEF SessionInv, Graph!At, Graph!Zero
<1>2. CASE session = Graph!NewSession
  <2>1. DOMAIN session.clients = {} /\ session.top_cost = -1
    BY <1>2 DEF Graph!NewSession
  <2>. QED
    BY <2>1, FS_EmptySet DEF Graph!At, Graph!Zero
<1>. QED
  BY <1>1, <1>2 DEF IsSession

\* A message added to a session.
LEMMA AddSession ==
    ASSUME NEW session, IsSession(session), NEW m \in GraphMessages
    PROVE  SessionInv(Graph!AddToSession(session, m))
<1>1. PICK key : key = Graph!SessionClient(m)
  OBVIOUS
<1>2. PICK clients : clients = session.clients
  OBVIOUS
<1>3. PICK old : old = Graph!At(clients, key, Graph!Zero)
  OBVIOUS
<1>4. PICK entry : entry = Graph!Plus(old, m.amount)
  OBVIOUS
<1>5. PICK new : new = Graph!AddToSession(session, m)
  OBVIOUS
<1>6. old.cost \in Nat /\ m.amount.cost \in Nat
  <2>1. {m.amount.tokens, m.amount.cost, m.amount.messages} \subseteq Nat
    BY ReportAssumption DEF Graph!AmountsAreNatural
  <2>. QED
    BY SessionParts, <1>2, <1>3, <2>1
<1>7. entry.cost = old.cost + m.amount.cost
  BY <1>4 DEF Graph!Plus
<1>8. /\ new.clients = [k \in DOMAIN clients \cup {key} |-> IF k = key THEN entry ELSE clients[k]]
      /\ new.top = IF entry.cost > session.top_cost THEN key ELSE session.top
      /\ new.top_cost = IF entry.cost > session.top_cost THEN entry.cost ELSE session.top_cost
  BY <1>1, <1>2, <1>3, <1>4, <1>5 DEF Graph!AddToSession, Graph!With
<1>9. IsFiniteSet(DOMAIN clients) /\ session.top_cost \in Int /\ session.top_cost >= -1
  BY SessionParts, <1>2
<1>10. \A c \in DOMAIN clients : clients[c].cost \in Nat /\ clients[c].cost <= session.top_cost
  <2>1. CASE SessionInv(session)
    BY <2>1, <1>2 DEF SessionInv
  <2>2. CASE session = Graph!NewSession
    BY <2>2, <1>2 DEF Graph!NewSession
  <2>. QED
    BY <2>1, <2>2 DEF IsSession
<1>11. key \in DOMAIN clients => old = clients[key]
  BY <1>3 DEF Graph!At
<1>12. SessionInv(session) \/ session.top_cost = -1
  BY DEF IsSession, Graph!NewSession
<1>13. DOMAIN new.clients = DOMAIN clients \cup {key}
  BY <1>8
<1>14. IsFiniteSet(DOMAIN new.clients)
  BY <1>9, <1>13, FS_AddElement
<1>15. new.clients[key] = entry
  BY <1>8
<1>16. \A c \in DOMAIN clients : c # key => new.clients[c] = clients[c]
  BY <1>8
<1>17. \A c \in DOMAIN new.clients : new.clients[c].cost \in Nat
  BY <1>6, <1>7, <1>10, <1>13, <1>15, <1>16
<1>18. CASE entry.cost > session.top_cost
  <2>1. new.top = key /\ new.top_cost = entry.cost
    BY <1>8, <1>18
  <2>2. \A c \in DOMAIN new.clients : new.clients[c].cost <= new.top_cost
    BY <1>6, <1>7, <1>9, <1>10, <1>13, <1>15, <1>16, <1>18, <2>1
  <2>. QED
    BY <1>5, <1>13, <1>14, <1>15, <1>17, <2>1, <2>2 DEF SessionInv
<1>19. CASE ~(entry.cost > session.top_cost)
  <2>1. entry.cost <= session.top_cost
    BY <1>6, <1>7, <1>9, <1>19
  <2>2. SessionInv(session)
    BY <1>6, <1>7, <1>9, <1>12, <2>1
  <2>3. new.top = session.top /\ new.top_cost = session.top_cost
    BY <1>8, <1>19
  <2>4. session.top \in DOMAIN clients /\ session.top_cost = clients[session.top].cost
    BY <1>2, <2>2 DEF SessionInv
  <2>5. new.clients[session.top].cost = session.top_cost
    <3>1. CASE session.top = key
      <4>1. session.top_cost = old.cost
        BY <1>11, <2>4, <3>1
      <4>2. entry.cost = session.top_cost
        BY <1>6, <1>7, <2>1, <4>1
      <4>. QED
        BY <1>15, <3>1, <4>2
    <3>2. CASE session.top # key
      BY <1>16, <2>4, <3>2
    <3>. QED
      BY <3>1, <3>2
  <2>6. \A c \in DOMAIN new.clients : new.clients[c].cost <= new.top_cost
    BY <1>10, <1>13, <1>15, <1>16, <2>1, <2>3
  <2>. QED
    BY <1>5, <1>13, <1>14, <1>17, <2>3, <2>4, <2>5, <2>6 DEF SessionInv
<1>. QED
  BY <1>18, <1>19

\* Two sessions merged: in the first there may be none yet.
LEMMA MergeSession ==
    ASSUME NEW a, IsSession(a), NEW b, SessionInv(b), NEW new \in Graph!MergeSessions(a, b)
    PROVE  SessionInv(new)
<1>1. PICK W : W = {Graph!Weight(a, b, key) : key \in DOMAIN b.clients}
  OBVIOUS
<1>2. PICK most : most = Graph!Max({a.top_cost} \cup W)
  OBVIOUS
<1>3. PICK left : left = [c \in DOMAIN a.clients \cup DOMAIN b.clients |-> Graph!At(a.clients, c, Graph!Zero).cost]
  OBVIOUS
<1>4. PICK right : right = [c \in DOMAIN a.clients \cup DOMAIN b.clients |-> Graph!At(b.clients, c, Graph!Zero).cost]
  OBVIOUS
<1>5. /\ new.clients = [key \in DOMAIN a.clients \cup DOMAIN b.clients |->
                          Graph!Plus(Graph!At(a.clients, key, Graph!Zero), Graph!At(b.clients, key, Graph!Zero))]
      /\ new.top_cost = most
      /\ new.top \in IF most > a.top_cost THEN {key \in DOMAIN b.clients : Graph!Weight(a, b, key) = most} ELSE {a.top}
  BY <1>1, <1>2 DEF Graph!MergeSessions
<1>6. /\ IsFiniteSet(DOMAIN a.clients) /\ IsFiniteSet(DOMAIN b.clients)
      /\ a.top_cost \in Int /\ a.top_cost >= -1
  BY SessionParts DEF IsSession
<1>7. \A c \in DOMAIN a.clients \cup DOMAIN b.clients : left[c] \in Nat /\ right[c] \in Nat
  BY SessionParts, <1>3, <1>4 DEF IsSession
<1>8. \A c \in DOMAIN a.clients : left[c] <= a.top_cost
  BY SessionParts, <1>3 DEF Graph!At
<1>9. \A c \in DOMAIN a.clients \cup DOMAIN b.clients : c \notin DOMAIN b.clients => right[c] = 0
  BY <1>4 DEF Graph!At, Graph!Zero
<1>10. DOMAIN new.clients = DOMAIN a.clients \cup DOMAIN b.clients
  BY <1>5
<1>11. \A c \in DOMAIN new.clients : new.clients[c].cost = left[c] + right[c]
  BY <1>3, <1>4, <1>5 DEF Graph!Plus
<1>12. \A c \in DOMAIN b.clients : Graph!Weight(a, b, c) = left[c] + right[c]
  BY <1>3, <1>4 DEF Graph!Weight, Graph!Plus, Graph!At
<1>13. most \in {a.top_cost} \cup W /\ \A y \in {a.top_cost} \cup W : most >= y
  <2>1. IsFiniteSet(W)
    <3>1. PICK f : f = [key \in DOMAIN b.clients |-> Graph!Weight(a, b, key)]
      OBVIOUS
    <3>2. f \in Surjection(DOMAIN b.clients, W)
      BY <1>1, <3>1 DEF Surjection
    <3>. QED
      BY <1>6, <3>2, FS_Surjection
  <2>2. IsFiniteSet({a.top_cost} \cup W)
    BY <2>1, FS_AddElement
  <2>3. W \subseteq Int
    BY <1>1, <1>7, <1>12
  <2>. QED
    BY <1>2, <1>6, <2>2, <2>3, FiniteMax
<1>14. most \in Int /\ most >= a.top_cost
  BY <1>1, <1>6, <1>7, <1>12, <1>13
<1>15. \A c \in DOMAIN b.clients : left[c] + right[c] <= most
  BY <1>1, <1>7, <1>12, <1>13, <1>14
<1>16. \A c \in DOMAIN new.clients : new.clients[c].cost \in Nat /\ new.clients[c].cost <= most
  <2>1. SUFFICES ASSUME NEW c \in DOMAIN new.clients
                 PROVE  new.clients[c].cost \in Nat /\ new.clients[c].cost <= most
    OBVIOUS
  <2>2. new.clients[c].cost = left[c] + right[c] /\ left[c] \in Nat /\ right[c] \in Nat
    BY <1>7, <1>10, <1>11
  <2>3. CASE c \in DOMAIN b.clients
    BY <1>15, <2>2, <2>3
  <2>4. CASE c \notin DOMAIN b.clients
    <3>1. c \in DOMAIN a.clients /\ right[c] = 0
      BY <1>9, <1>10, <2>4
    <3>2. left[c] <= a.top_cost
      BY <1>8, <3>1
    <3>. QED
      BY <1>6, <1>14, <2>2, <3>1, <3>2
  <2>. QED
    BY <2>3, <2>4
<1>17. IsFiniteSet(DOMAIN new.clients)
  BY <1>6, <1>10, FS_Union
<1>18. new.top \in DOMAIN new.clients /\ new.clients[new.top].cost = most
  <2>1. CASE most > a.top_cost
    <3>1. new.top \in DOMAIN b.clients /\ Graph!Weight(a, b, new.top) = most
      BY <1>5, <2>1
    <3>. QED
      BY <1>10, <1>11, <1>12, <3>1
  <2>2. CASE ~(most > a.top_cost)
    <3>1. most = a.top_cost /\ new.top = a.top
      BY <1>5, <1>6, <1>14, <2>2
    <3>2. a.top_cost # -1
      <4>1. b.top \in DOMAIN b.clients
        BY DEF SessionInv
      <4>2. left[b.top] \in Nat /\ right[b.top] \in Nat /\ left[b.top] + right[b.top] <= most
        BY <1>7, <1>15, <4>1
      <4>. QED
        BY <3>1, <4>2
    <3>3. SessionInv(a)
      BY <3>2 DEF IsSession, Graph!NewSession
    <3>4. a.top \in DOMAIN a.clients /\ a.top_cost = a.clients[a.top].cost
      BY <3>3 DEF SessionInv
    <3>5. left[a.top] = a.top_cost
      BY <1>3, <3>4 DEF Graph!At
    <3>6. a.top \in DOMAIN new.clients
      BY <1>10, <3>4
    <3>7. new.clients[a.top].cost = left[a.top] + right[a.top] /\ right[a.top] \in Nat
      BY <1>7, <1>10, <1>11, <3>6
    <3>8. new.clients[a.top].cost <= most
      BY <1>16, <3>6
    <3>. QED
      BY <1>6, <3>1, <3>5, <3>6, <3>7, <3>8
  <2>. QED
    BY <2>1, <2>2
<1>. QED
  BY <1>5, <1>16, <1>17, <1>18 DEF SessionInv

\* All sessions of a piece are right.
PieceInv(piece) == \A s \in DOMAIN piece.sessions : SessionInv(piece.sessions[s])

\* The pieces are a sequence, never an empty one, of such pieces.
PiecesInv == \E X : pieces \in Seq(X) /\ Len(pieces) > 0 /\ \A piece \in X : PieceInv(piece)

\* A piece nothing was added to is right.
LEMMA NewPieceInv == PieceInv(Graph!NewPiece)
<1>1. DOMAIN Graph!NewPiece.sessions = {}
  BY DEF Graph!NewPiece
<1>. QED
  BY <1>1 DEF PieceInv

\* A session looked up in a piece.
LEMMA SessionOf ==
    ASSUME NEW piece, PieceInv(piece), NEW s
    PROVE  IsSession(Graph!At(piece.sessions, s, Graph!NewSession))
  BY DEF PieceInv, IsSession, Graph!At

\* A message told.
LEMMA AddPieces ==
    ASSUME PiecesInv, NEW m \in GraphMessages, Graph!Add(m)
    PROVE  PiecesInv'
<1>1. PICK X : pieces \in Seq(X) /\ Len(pieces) > 0 /\ \A piece \in X : PieceInv(piece)
  BY DEF PiecesInv
<1>2. PICK piece : piece = pieces[Len(pieces)]
  OBVIOUS
<1>3. Graph!Last(pieces) = piece
  BY <1>2 DEF Graph!Last
<1>4. piece \in X /\ PieceInv(piece)
  BY <1>1, <1>2
<1>5. PICK session : session = Graph!At(piece.sessions, m.session, Graph!NewSession)
  OBVIOUS
<1>6. PICK added : added = Graph!AddToSession(session, m)
  OBVIOUS
<1>7. SessionInv(added)
  BY <1>4, <1>5, <1>6, SessionOf, AddSession
<1>8. PICK days : days = Graph!With(piece.days, m.day, Graph!AddToDay(Graph!At(piece.days, m.day, Graph!NewDay), m))
  OBVIOUS
<1>9. PICK sessions : sessions = Graph!With(piece.sessions, m.session, added)
  OBVIOUS
<1>10. PICK new : new = [days |-> days, sessions |-> sessions]
  OBVIOUS
<1>11. pieces' = [pieces EXCEPT ![Len(pieces)] = new]
  BY <1>3, <1>5, <1>6, <1>8, <1>9, <1>10 DEF Graph!Add
<1>12. PieceInv(new)
  <2>1. new.sessions = sessions
    BY <1>10
  <2>. QED
    BY <1>4, <1>7, <1>9, <2>1 DEF PieceInv, Graph!With
<1>13. pieces' \in Seq(X \cup {new}) /\ Len(pieces') > 0
  BY <1>1, <1>11
<1>. QED
  BY <1>1, <1>12, <1>13 DEF PiecesInv

\* Another piece.
LEMMA SplitPieces ==
    ASSUME PiecesInv, Graph!Split
    PROVE  PiecesInv'
<1>1. PICK X : pieces \in Seq(X) /\ Len(pieces) > 0 /\ \A piece \in X : PieceInv(piece)
  BY DEF PiecesInv
<1>2. PICK new : new = Graph!NewPiece
  OBVIOUS
<1>3. pieces' = Append(pieces, new)
  BY <1>2 DEF Graph!Split
<1>4. pieces' \in Seq(X \cup {new}) /\ Len(pieces') > 0
  BY <1>1, <1>3
<1>5. PieceInv(new)
  BY <1>2, NewPieceInv
<1>. QED
  BY <1>1, <1>4, <1>5 DEF PiecesInv

\* Two neighbours made one.
LEMMA ReducePieces ==
    ASSUME PiecesInv, NEW i \in 1..(Len(pieces) - 1), Graph!Reduce(i)
    PROVE  PiecesInv'
<1>1. PICK X : pieces \in Seq(X) /\ Len(pieces) > 0 /\ \A piece \in X : PieceInv(piece)
  BY DEF PiecesInv
<1>2. PICK a : a = pieces[i]
  OBVIOUS
<1>3. PICK b : b = pieces[i + 1]
  OBVIOUS
<1>4. PieceInv(a) /\ PieceInv(b)
  BY <1>1, <1>2, <1>3
<1>5. PICK sessions :
        /\ DOMAIN sessions = DOMAIN a.sessions \cup DOMAIN b.sessions
        /\ \A s \in DOMAIN sessions :
             sessions[s] \in
               CASE s \notin DOMAIN b.sessions -> {a.sessions[s]}
                 [] OTHER -> Graph!MergeSessions(Graph!At(a.sessions, s, Graph!NewSession), b.sessions[s])
        /\ \E days : pieces' = SubSeq(pieces, 1, i - 1) \o <<[days |-> days, sessions |-> sessions]>>
                                \o SubSeq(pieces, i + 2, Len(pieces))
  BY <1>2, <1>3 DEF Graph!Reduce
<1>6. PICK days : pieces' = SubSeq(pieces, 1, i - 1) \o <<[days |-> days, sessions |-> sessions]>>
                            \o SubSeq(pieces, i + 2, Len(pieces))
  BY <1>5
<1>7. PICK new : new = [days |-> days, sessions |-> sessions]
  OBVIOUS
<1>8. new.sessions = sessions /\ pieces' = SubSeq(pieces, 1, i - 1) \o <<new>> \o SubSeq(pieces, i + 2, Len(pieces))
  BY <1>6, <1>7
<1>9. PieceInv(new)
  <2>1. SUFFICES ASSUME NEW s \in DOMAIN sessions
                 PROVE  SessionInv(sessions[s])
    BY <1>8 DEF PieceInv
  <2>2. CASE s \notin DOMAIN b.sessions
    <3>1. sessions[s] = a.sessions[s] /\ s \in DOMAIN a.sessions
      BY <1>5, <2>2
    <3>. QED
      BY <1>4, <3>1 DEF PieceInv
  <2>3. CASE s \in DOMAIN b.sessions
    <3>1. sessions[s] \in Graph!MergeSessions(Graph!At(a.sessions, s, Graph!NewSession), b.sessions[s])
      BY <1>5, <2>3
    <3>2. IsSession(Graph!At(a.sessions, s, Graph!NewSession)) /\ SessionInv(b.sessions[s])
      BY <1>4, <2>3, SessionOf DEF PieceInv
    <3>. QED
      BY <3>1, <3>2, MergeSession
  <2>. QED
    BY <2>2, <2>3
<1>10. pieces' \in Seq(X \cup {new}) /\ Len(pieces') > 0
  <2>1. PICK Y : Y = X \cup {new}
    OBVIOUS
  <2>2. pieces \in Seq(Y) /\ <<new>> \in Seq(Y) /\ Len(<<new>>) = 1
    BY <1>1, <2>1
  <2>3. PICK s, t : s = SubSeq(pieces, 1, i - 1) /\ t = SubSeq(pieces, i + 2, Len(pieces))
    OBVIOUS
  <2>4. s \in Seq(Y) /\ t \in Seq(Y)
    BY <2>2, <2>3
  <2>5. pieces' = s \o <<new>> \o t
    BY <1>8, <2>3
  <2>6. s \o <<new>> \in Seq(Y) /\ Len(s \o <<new>>) > 0
    BY <2>2, <2>4
  <2>7. (s \o <<new>>) \o t \in Seq(Y) /\ Len((s \o <<new>>) \o t) > 0
    BY <2>4, <2>6
  <2>. QED
    BY <2>1, <2>5, <2>7
<1>. QED
  BY <1>1, <1>9, <1>10 DEF PiecesInv

\* Of a graph; no other lane is called so.
GraphInv == lane = "graph" => lane \in Reports /\ PiecesInv

\* Initially there is one piece without sessions.
LEMMA InitGraph == ReportInit => GraphInv
<1>1. Graph!Init => PiecesInv
  <2>1. SUFFICES ASSUME Graph!Init PROVE PiecesInv
    OBVIOUS
  <2>2. PICK new : new = Graph!NewPiece
    OBVIOUS
  <2>3. pieces = <<new>>
    BY <2>1, <2>2 DEF Graph!Init
  <2>4. pieces \in Seq({new}) /\ Len(pieces) > 0
    BY <2>3
  <2>5. \A piece \in {new} : PieceInv(piece)
    BY <2>2, NewPieceInv
  <2>. QED
    BY <2>4, <2>5 DEF PiecesInv
<1>2. ScanInit => lane # "graph"
  BY LaneAssumption DEF ScanInit, Init, InitLane, Cached
<1>. QED
  BY <1>1, <1>2 DEF ReportInit, InitLane, GraphInv

\* Only a graph has pieces, and each of its steps keeps them right.
LEMMA NextGraph ==
    ASSUME GraphInv, [ReportNext]_<<vars, openCodeVars, reportVars>>
    PROVE  GraphInv'
<1>1. CASE UNCHANGED <<vars, openCodeVars, reportVars>>
  BY <1>1 DEF vars, reportVars, GraphInv, PiecesInv
<1>2. CASE lane = "graph" /\ ReportNext
  <2>1. lane' = lane /\ Graph!Next
    BY <1>2 DEF ReportNext, GraphInv, vars
  <2>. QED
    BY <1>2, <2>1, AddPieces, SplitPieces, ReducePieces DEF Graph!Next, GraphInv
<1>3. CASE lane # "graph" /\ ReportNext
  <2>1. Next => lane' = lane
    BY DEF Next, Write, Scan, Emit, PutOff, EmitKiro, BufferTrae, EmitAntigravity, FinishSource,
           StartFlush, FlushRetained, FlushTrae, Finish, Rest, Sink
  <2>2. lane' = lane
    BY <1>3, <2>1 DEF ReportNext, ScanNext, vars
  <2>. QED
    BY <1>3, <2>2 DEF GraphInv
<1>. QED
  BY <1>1, <1>2, <1>3

\* A session is shown under what cost the most of all its messages, however the
\* list of messages was cut into pieces and in whatever order they were merged.
THEOREM ShownUnderTheDearest == ReportSpec => []TopCostsMost
<1>1. GraphInv => TopCostsMost
  <2>1. SUFFICES ASSUME PiecesInv, NEW i \in DOMAIN pieces, NEW s \in DOMAIN pieces[i].sessions
                 PROVE  LET session == pieces[i].sessions[s]
                        IN  /\ session.top \in DOMAIN session.clients
                            /\ \A c \in DOMAIN session.clients :
                                 session.clients[c].cost <= session.clients[session.top].cost
    BY DEF GraphInv, TopCostsMost, Graph!TopCostsMost
  <2>2. SessionInv(pieces[i].sessions[s])
    BY <2>1 DEF PiecesInv, PieceInv
  <2>. QED
    BY <2>2 DEF SessionInv
<1>. QED
  BY <1>1, InitGraph, NextGraph, PTL DEF ReportSpec
-------------------------------------------------------------------------------
(***************************************************************************)
(* The amounts of messages.                                                *)
(***************************************************************************)
\* Both reports add up alike.
LEMMA SameTotal == \A a : Graph!Total(a) = Remote!Total(a)
  BY DEF Graph!Total, Remote!Total

\* The sum of two sequences of numbers, place by place, is the sum of their sums.
LEMMA TotalOfBoth ==
    ASSUME NEW n \in Nat, NEW a, n = Len(a), NEW b, n = Len(b), NEW c, n = Len(c),
           \A i \in 1..n : a[i] \in Nat /\ b[i] \in Nat /\ c[i] = a[i] + b[i]
    PROVE  Graph!Total(a) \in Nat /\ Graph!Total(b) \in Nat /\ Graph!Total(c) = Graph!Total(a) + Graph!Total(b)
<1>1. PICK f : Sums(f, a, n) /\ Remote!Total(a) = f[n]
  BY TotalIsSum
<1>2. PICK g : Sums(g, b, n) /\ Remote!Total(b) = g[n]
  BY TotalIsSum
<1>3. PICK h : Sums(h, c, n) /\ Remote!Total(c) = h[n]
  BY TotalIsSum
<1>4. f[0] = 0 /\ \A i \in 1..n : f[i] = f[i - 1] + a[i]
  BY <1>1, SumSteps
<1>5. g[0] = 0 /\ \A i \in 1..n : g[i] = g[i - 1] + b[i]
  BY <1>2, SumSteps
<1>6. h[0] = 0 /\ \A i \in 1..n : h[i] = h[i - 1] + c[i]
  BY <1>3, SumSteps
<1>. DEFINE S == {k \in 0..n : ~(f[k] \in Nat /\ g[k] \in Nat /\ h[k] = f[k] + g[k])}
<1>7. S = {}
  <2>. SUFFICES ASSUME S # {} PROVE FALSE
    OBVIOUS
  <2>1. PICK k \in S : \A i \in S : k <= i
    <3>1. S \subseteq Nat
      OBVIOUS
    <3>. HIDE DEF S
    <3>. QED
      BY <3>1, LeastNumber
  <2>2. k # 0
    BY <1>4, <1>5, <1>6, <2>1
  <2>3. k \in 1..n /\ k - 1 \in 0..n /\ ~(k <= k - 1)
    BY <2>1, <2>2
  <2>4. f[k - 1] \in Nat /\ g[k - 1] \in Nat /\ h[k - 1] = f[k - 1] + g[k - 1]
    BY <2>1, <2>3
  <2>5. f[k] = f[k - 1] + a[k] /\ g[k] = g[k - 1] + b[k] /\ h[k] = h[k - 1] + c[k]
    BY <1>4, <1>5, <1>6, <2>3
  <2>6. a[k] \in Nat /\ b[k] \in Nat /\ c[k] = a[k] + b[k]
    BY <2>3
  <2>7. f[k] \in Nat /\ g[k] \in Nat /\ h[k] = f[k] + g[k]
    BY <2>4, <2>5, <2>6
  <2>. QED
    BY <2>1, <2>7
<1>8. f[n] \in Nat /\ g[n] \in Nat /\ h[n] = f[n] + g[n]
  BY <1>7
<1>. QED
  BY <1>1, <1>2, <1>3, <1>8, SameTotal

\* What stands at places of a list, of one of the three amounts.
Numbers(list, places, field) == [i \in DOMAIN list |-> IF i \in places THEN list[i].amount[field] ELSE 0]

Field == {"tokens", "cost", "messages"}

\* A list of messages.
IsList(list, n) ==
    /\ n \in Nat /\ n = Len(list) /\ DOMAIN list = 1..n
    /\ \A i \in 1..n : list[i] \in GraphMessages

\* Amounts are numbers.
LEMMA NumbersType ==
    ASSUME NEW list, NEW n, IsList(list, n), NEW places, NEW field \in Field
    PROVE  /\ Len(Numbers(list, places, field)) = n
           /\ \A i \in 1..n : /\ Numbers(list, places, field)[i] \in Nat
                              /\ list[i].amount[field] \in Nat
                              /\ Numbers(list, places, field)[i] = IF i \in places THEN list[i].amount[field] ELSE 0
<1>1. \A i \in 1..n : list[i].amount[field] \in Nat
  <2>1. SUFFICES ASSUME NEW i \in 1..n PROVE list[i].amount[field] \in Nat
    OBVIOUS
  <2>2. PICK m \in GraphMessages : m = list[i]
    BY DEF IsList
  <2>3. {m.amount.tokens, m.amount.cost, m.amount.messages} \subseteq Nat
    BY ReportAssumption DEF Graph!AmountsAreNatural
  <2>. QED
    BY <2>2, <2>3 DEF Field
<1>2. PICK a : a = Numbers(list, places, field)
  OBVIOUS
<1>3. DOMAIN a = 1..n /\ \A i \in 1..n : a[i] = IF i \in places THEN list[i].amount[field] ELSE 0
  BY <1>2 DEF Numbers, IsList
<1>4. Len(a) = n
  BY <1>2 DEF Numbers, IsList
<1>. QED
  BY <1>1, <1>2, <1>3, <1>4

\* The places of two lists, together.
LEMMA NumbersOfBoth ==
    ASSUME NEW list, NEW n, IsList(list, n), NEW P, NEW Q, P \cap Q = {}, NEW field \in Field
    PROVE  /\ Graph!Total(Numbers(list, P, field)) \in Nat
           /\ Graph!Total(Numbers(list, Q, field)) \in Nat
           /\ Graph!Total(Numbers(list, P \cup Q, field))
                = Graph!Total(Numbers(list, P, field)) + Graph!Total(Numbers(list, Q, field))
<1>1. PICK a : a = Numbers(list, P, field)
  OBVIOUS
<1>2. PICK b : b = Numbers(list, Q, field)
  OBVIOUS
<1>3. PICK c : c = Numbers(list, P \cup Q, field)
  OBVIOUS
<1>4. n \in Nat /\ n = Len(a) /\ \A i \in 1..n : a[i] \in Nat /\ a[i] = IF i \in P THEN list[i].amount[field] ELSE 0
  BY <1>1, NumbersType DEF IsList
<1>5. n = Len(b) /\ \A i \in 1..n : b[i] \in Nat /\ b[i] = IF i \in Q THEN list[i].amount[field] ELSE 0
  BY <1>2, NumbersType
<1>6. n = Len(c) /\ \A i \in 1..n : c[i] \in Nat /\ c[i] = IF i \in P \cup Q THEN list[i].amount[field] ELSE 0
  BY <1>3, NumbersType
<1>7. \A i \in 1..n : a[i] \in Nat /\ b[i] \in Nat /\ c[i] = a[i] + b[i]
  BY <1>4, <1>5, <1>6
<1>8. Graph!Total(a) \in Nat /\ Graph!Total(b) \in Nat /\ Graph!Total(c) = Graph!Total(a) + Graph!Total(b)
  BY ONLY <1>4, <1>5, <1>6, <1>7, TotalOfBoth
<1>. QED
  BY <1>1, <1>2, <1>3, <1>8

\* Places in a list of n messages.
IsPlaces(P, n) == P \subseteq 1..n

\* A list that is one message longer.
LEMMA NumbersOneMore ==
    ASSUME NEW list, NEW n, IsList(list, n), NEW longer, NEW k, k = n + 1, IsList(longer, k),
           \A i \in 1..n : longer[i] = list[i], NEW P, IsPlaces(P, n), NEW field \in Field
    PROVE  /\ Graph!Total(Numbers(list, P, field)) \in Nat
           /\ longer[k].amount[field] \in Nat
           /\ Graph!Total(Numbers(longer, P, field)) = Graph!Total(Numbers(list, P, field))
           /\ Graph!Total(Numbers(longer, P \cup {k}, field))
                = Graph!Total(Numbers(list, P, field)) + longer[k].amount[field]
<1>1. n \in Nat /\ k \in Nat /\ k = n + 1 /\ k \in 1..k /\ k \notin P /\ \A i \in 1..n : i \in 1..k /\ i # k
  BY DEF IsList, IsPlaces
<1>2. PICK a : a = Numbers(list, P, field)
  OBVIOUS
<1>3. n = Len(a) /\ \A i \in 1..n : a[i] \in Nat /\ a[i] = IF i \in P THEN list[i].amount[field] ELSE 0
  BY <1>2, NumbersType
<1>4. PICK b : b = Numbers(longer, P, field)
  OBVIOUS
<1>5. k = Len(b) /\ \A i \in 1..k : b[i] \in Nat /\ b[i] = IF i \in P THEN longer[i].amount[field] ELSE 0
  BY <1>4, NumbersType
<1>6. PICK c : c = Numbers(longer, P \cup {k}, field)
  OBVIOUS
<1>7. /\ k = Len(c) /\ \A i \in 1..k : c[i] \in Nat /\ c[i] = IF i \in P \cup {k} THEN longer[i].amount[field] ELSE 0
      /\ longer[k].amount[field] \in Nat
  BY <1>1, <1>6, NumbersType
<1>8. (\A i \in 1..n : b[i] = a[i] /\ a[i] \in Nat) /\ b[k] \in Nat /\ b[k] = 0
  BY <1>1, <1>3, <1>5
<1>9. (\A i \in 1..n : c[i] = a[i] /\ a[i] \in Nat) /\ c[k] \in Nat /\ c[k] = longer[k].amount[field]
  BY <1>1, <1>3, <1>7
<1>10. Remote!Total(a) \in Nat /\ Remote!Total(b) = Remote!Total(a) + b[k]
  BY ONLY <1>1, <1>3, <1>5, <1>8, TotalOneMore
<1>11. Remote!Total(c) = Remote!Total(a) + c[k]
  BY ONLY <1>1, <1>3, <1>7, <1>9, TotalOneMore
<1>12. Remote!Total(b) = Remote!Total(a)
  BY <1>8, <1>10
<1>. QED
  BY <1>2, <1>4, <1>6, <1>7, <1>9, <1>10, <1>11, <1>12, SameTotal

\* The smaller and the larger of two numbers.
LEMMA OfTwo ==
    ASSUME NEW x \in Int, NEW y \in Int
    PROVE  /\ Graph!Min({x, y}) = IF x <= y THEN x ELSE y
           /\ Graph!Max({x, y}) = IF x >= y THEN x ELSE y
<1>1. PICK S : S = {x, y}
  OBVIOUS
<1>2. PICK least : least = IF x <= y THEN x ELSE y
  OBVIOUS
<1>3. least \in S /\ \A z \in S : least <= z
  BY <1>1, <1>2
<1>4. Graph!Min(S) \in S /\ \A z \in S : Graph!Min(S) <= z
  BY <1>3 DEF Graph!Min
<1>5. Graph!Min(S) \in Int /\ least \in Int /\ Graph!Min(S) <= least /\ least <= Graph!Min(S)
  BY <1>1, <1>3, <1>4
<1>6. PICK most : most = IF x >= y THEN x ELSE y
  OBVIOUS
<1>7. most \in S /\ \A z \in S : most >= z
  BY <1>1, <1>6
<1>8. Graph!Max(S) \in S /\ \A z \in S : Graph!Max(S) >= z
  BY <1>7 DEF Graph!Max
<1>9. Graph!Max(S) \in Int /\ most \in Int /\ Graph!Max(S) >= most /\ most >= Graph!Max(S)
  BY <1>1, <1>7, <1>8
<1>10. Graph!Min(S) = least /\ Graph!Max(S) = most
  BY <1>5, <1>9
<1>. QED
  BY <1>1, <1>2, <1>6, <1>10

\* What is shown of a number.
Cut(x) == IF MAX <= x THEN MAX ELSE x

\* Numbers are cut off where saturating additions end up, whenever they are cut.
LEMMA CutSums ==
    ASSUME NEW x \in Nat, NEW y \in Nat
    PROVE  /\ Graph!Min({MAX, x}) = Cut(x)
           /\ Graph!Sum(Cut(x), Cut(y)) = Cut(x + y)
           /\ Graph!Sum(Cut(x), y) = Cut(x + y)
           /\ Cut(0) = 0 /\ Graph!Sum(0, 0) = 0
<1>1. MAX \in Nat /\ MAX > 0
  BY ReportAssumption
<1>2. Graph!Min({MAX, x}) = Cut(x)
  BY <1>1, OfTwo DEF Cut
<1>. QED
  BY <1>1, <1>2 DEF Cut, Graph!Sum

\* The three amounts.
LEMMA TogetherIs ==
    ASSUME NEW list, NEW n, IsList(list, n), NEW P
    PROVE  /\ \A field \in Field : Graph!Total(Numbers(list, P, field)) \in Nat
           /\ Graph!Together(list, P) =
                [tokens |-> Cut(Graph!Total(Numbers(list, P, "tokens"))),
                 cost |-> Graph!Total(Numbers(list, P, "cost")),
                 messages |-> Cut(Graph!Total(Numbers(list, P, "messages")))]
<1>1. \A field \in Field : Graph!Total(Numbers(list, P, field)) \in Nat
  <2>1. ASSUME NEW field \in Field PROVE Graph!Total(Numbers(list, P, field)) \in Nat
    <3>1. P \cap {} = {} /\ IsList(list, n)
      OBVIOUS
    <3>. QED
      BY <3>1, NumbersOfBoth
  <2>. QED
    BY <2>1
<1>2. PICK t : t = Graph!Total(Numbers(list, P, "tokens"))
  OBVIOUS
<1>3. PICK c : c = Graph!Total(Numbers(list, P, "cost"))
  OBVIOUS
<1>4. PICK m : m = Graph!Total(Numbers(list, P, "messages"))
  OBVIOUS
<1>5. Graph!Together(list, P) = [tokens |-> Graph!Min({MAX, t}), cost |-> c, messages |-> Graph!Min({MAX, m})]
  BY <1>2, <1>3, <1>4 DEF Graph!Together, Numbers
<1>6. t \in Nat /\ m \in Nat
  BY <1>1, <1>2, <1>4 DEF Field
<1>7. Graph!Min({MAX, t}) = Cut(t) /\ Graph!Min({MAX, m}) = Cut(m)
  BY <1>6, CutSums
<1>. QED
  BY <1>1, <1>2, <1>3, <1>4, <1>5, <1>7

\* Saturating addition of what two sets of places have gives what they have together.
LEMMA TogetherOfBoth ==
    ASSUME NEW list, NEW n, IsList(list, n), NEW P, NEW Q, P \cap Q = {}
    PROVE  Graph!Together(list, P \cup Q) = Graph!Plus(Graph!Together(list, P), Graph!Together(list, Q))
<1>1. \A field \in Field : Graph!Total(Numbers(list, P \cup Q, field))
                             = Graph!Total(Numbers(list, P, field)) + Graph!Total(Numbers(list, Q, field))
  BY NumbersOfBoth
<1>2. PICK p, q : p = Graph!Together(list, P) /\ q = Graph!Together(list, Q)
  OBVIOUS
<1>3. PICK pt, pc, pm : pt = Graph!Total(Numbers(list, P, "tokens")) /\ pc = Graph!Total(Numbers(list, P, "cost"))
                          /\ pm = Graph!Total(Numbers(list, P, "messages"))
  OBVIOUS
<1>4. PICK qt, qc, qm : qt = Graph!Total(Numbers(list, Q, "tokens")) /\ qc = Graph!Total(Numbers(list, Q, "cost"))
                          /\ qm = Graph!Total(Numbers(list, Q, "messages"))
  OBVIOUS
<1>5. p = [tokens |-> Cut(pt), cost |-> pc, messages |-> Cut(pm)] /\ {pt, pc, pm} \subseteq Nat
  BY <1>2, <1>3, TogetherIs DEF Field
<1>6. q = [tokens |-> Cut(qt), cost |-> qc, messages |-> Cut(qm)] /\ {qt, qc, qm} \subseteq Nat
  BY <1>2, <1>4, TogetherIs DEF Field
<1>7. Graph!Together(list, P \cup Q) = [tokens |-> Cut(pt + qt), cost |-> pc + qc, messages |-> Cut(pm + qm)]
  BY <1>1, <1>3, <1>4, TogetherIs DEF Field
<1>8. Graph!Plus(p, q) = [tokens |-> Graph!Sum(Cut(pt), Cut(qt)), cost |-> pc + qc, messages |-> Graph!Sum(Cut(pm), Cut(qm))]
  BY <1>5, <1>6 DEF Graph!Plus
<1>9. Graph!Sum(Cut(pt), Cut(qt)) = Cut(pt + qt) /\ Graph!Sum(Cut(pm), Cut(qm)) = Cut(pm + qm)
  BY <1>5, <1>6, CutSums
<1>. QED
  BY <1>2, <1>7, <1>8, <1>9

\* No places have nothing.
LEMMA TogetherOfNone ==
    ASSUME NEW list, NEW n, IsList(list, n)
    PROVE  Graph!Together(list, {}) = Graph!Zero /\ Graph!Plus(Graph!Zero, Graph!Zero) = Graph!Zero
<1>1. \A field \in Field : Graph!Total(Numbers(list, {}, field)) = 0
  <2>1. ASSUME NEW field \in Field PROVE Graph!Total(Numbers(list, {}, field)) = 0
    <3>1. PICK E : E = {}
      OBVIOUS
    <3>2. IsList(list, n) /\ field \in Field /\ E \cap E = {} /\ E \cup E = E
      BY <2>1, <3>1
    <3>3. /\ Graph!Total(Numbers(list, E, field)) \in Nat
          /\ Graph!Total(Numbers(list, E \cup E, field))
               = Graph!Total(Numbers(list, E, field)) + Graph!Total(Numbers(list, E, field))
      BY ONLY <3>2, NumbersOfBoth
    <3>4. PICK t : t = Graph!Total(Numbers(list, E, field))
      OBVIOUS
    <3>5. t \in Nat /\ t = t + t
      BY <3>2, <3>3, <3>4
    <3>6. t = 0
      BY <3>5
    <3>. QED
      BY <3>1, <3>4, <3>6
  <2>. QED
    BY <2>1
<1>2. Cut(0) = 0 /\ Graph!Sum(0, 0) = 0
  BY CutSums
<1>. QED
  BY <1>1, <1>2, TogetherIs DEF Field, Graph!Zero, Graph!Plus

\* A list, and the same with one message more.
OneLonger(list, n, longer, k) ==
    /\ IsList(list, n) /\ k = n + 1 /\ IsList(longer, k)
    /\ \A i \in 1..n : longer[i] = list[i]

\* One message more.
LEMMA TogetherOneMore ==
    ASSUME NEW list, NEW n, NEW longer, NEW k, OneLonger(list, n, longer, k), NEW P, IsPlaces(P, n)
    PROVE  /\ Graph!Together(longer, P) = Graph!Together(list, P)
           /\ Graph!Together(longer, P \cup {k}) = Graph!Plus(Graph!Together(list, P), longer[k].amount)
<1>1. \A field \in Field :
        /\ longer[k].amount[field] \in Nat
        /\ Graph!Total(Numbers(longer, P, field)) = Graph!Total(Numbers(list, P, field))
        /\ Graph!Total(Numbers(longer, P \cup {k}, field))
             = Graph!Total(Numbers(list, P, field)) + longer[k].amount[field]
  <2>1. SUFFICES ASSUME NEW field \in Field
                 PROVE  /\ longer[k].amount[field] \in Nat
                        /\ Graph!Total(Numbers(longer, P, field)) = Graph!Total(Numbers(list, P, field))
                        /\ Graph!Total(Numbers(longer, P \cup {k}, field))
                             = Graph!Total(Numbers(list, P, field)) + longer[k].amount[field]
    OBVIOUS
  <2>2. /\ IsList(list, n) /\ k = n + 1 /\ IsList(longer, k)
        /\ (\A i \in 1..n : longer[i] = list[i]) /\ IsPlaces(P, n) /\ field \in Field
    BY <2>1 DEF OneLonger
  <2>3. /\ longer[k].amount[field] \in Nat
        /\ Graph!Total(Numbers(longer, P, field)) = Graph!Total(Numbers(list, P, field))
        /\ Graph!Total(Numbers(longer, P \cup {k}, field))
             = Graph!Total(Numbers(list, P, field)) + longer[k].amount[field]
    BY ONLY <2>2, NumbersOneMore
  <2>. QED
    BY <2>3
<1>11. IsList(list, n) /\ IsList(longer, k)
  BY DEF OneLonger
<1>2. PICK p : p = Graph!Together(list, P)
  OBVIOUS
<1>3. PICK pt, pc, pm : pt = Graph!Total(Numbers(list, P, "tokens")) /\ pc = Graph!Total(Numbers(list, P, "cost"))
                          /\ pm = Graph!Total(Numbers(list, P, "messages"))
  OBVIOUS
<1>4. PICK new : new = longer[k].amount
  OBVIOUS
<1>5. p = [tokens |-> Cut(pt), cost |-> pc, messages |-> Cut(pm)] /\ {pt, pc, pm} \subseteq Nat
  BY <1>2, <1>3, <1>11, TogetherIs DEF Field
<1>6. new.tokens \in Nat /\ new.cost \in Nat /\ new.messages \in Nat
  BY <1>1, <1>4 DEF Field
<1>7. Graph!Together(longer, P) = [tokens |-> Cut(pt), cost |-> pc, messages |-> Cut(pm)]
  BY <1>1, <1>3, <1>11, TogetherIs DEF Field
<1>8. Graph!Together(longer, P \cup {k})
        = [tokens |-> Cut(pt + new.tokens), cost |-> pc + new.cost, messages |-> Cut(pm + new.messages)]
  BY <1>1, <1>3, <1>4, <1>11, TogetherIs DEF Field
<1>9. Graph!Plus(p, new) = [tokens |-> Graph!Sum(Cut(pt), new.tokens), cost |-> pc + new.cost,
                            messages |-> Graph!Sum(Cut(pm), new.messages)]
  BY <1>5 DEF Graph!Plus
<1>10. Graph!Sum(Cut(pt), new.tokens) = Cut(pt + new.tokens) /\ Graph!Sum(Cut(pm), new.messages) = Cut(pm + new.messages)
  BY <1>5, <1>6, CutSums
<1>. QED
  BY <1>2, <1>4, <1>5, <1>7, <1>8, <1>9, <1>10

-------------------------------------------------------------------------------
(***************************************************************************)
(* The days and sessions of a piece.                                       *)
(***************************************************************************)
\* Places of messages can be counted, and a further one is one more.
LEMMA PlacesCount ==
    ASSUME NEW n \in Nat, NEW P, P \subseteq 1..n
    PROVE  /\ IsFiniteSet(P) /\ Graph!Cardinality(P) = Cardinality(P) /\ Cardinality(P) \in Nat
           /\ \A k : k \notin P => Cardinality(P \cup {k}) = Cardinality(P) + 1
           /\ \A Q : Q \subseteq 1..n /\ P \cap Q = {} => Cardinality(P \cup Q) = Cardinality(P) + Cardinality(Q)
<1>0. IsFiniteSet(1..n)
  <2>1. 1 \in Int /\ n \in Int
    OBVIOUS
  <2>. QED
    BY <2>1, FS_Interval
<1>1. IsFiniteSet(P)
  BY <1>0, FS_Subset
<1>2. Graph!Cardinality(P) = Cardinality(P)
  BY DEF Graph!Cardinality, Cardinality
<1>3. Cardinality(P) \in Nat
  BY <1>1, FS_CardinalityType
<1>4. \A k : k \notin P => Cardinality(P \cup {k}) = Cardinality(P) + 1
  BY <1>1, FS_AddElement
<1>5. ASSUME NEW Q, Q \subseteq 1..n, P \cap Q = {}
      PROVE  Cardinality(P \cup Q) = Cardinality(P) + Cardinality(Q)
  <2>1. IsFiniteSet(Q)
    BY <1>0, <1>5, FS_Subset
  <2>2. Cardinality(P \cup Q) = Cardinality(P) + Cardinality(Q) - Cardinality(P \cap Q)
    BY <1>1, <2>1, FS_Union
  <2>3. Cardinality(P \cap Q) = 0
    BY <1>5, FS_EmptySet
  <2>4. Cardinality(Q) \in Nat
    BY <2>1, FS_CardinalityType
  <2>. QED
    BY <1>3, <2>2, <2>3, <2>4
<1>. QED
  BY <1>1, <1>2, <1>3, <1>4, <1>5

\* The places of the messages of a client and model, and of the turns of a client.
OfClient(list, P, c) == {i \in P : Graph!DayClient(list[i]) = c}
TurnsOf(list, P, c) == {i \in P : list[i].turn /\ list[i].client = c}

\* A day says what the messages at these places have together.
DayAdds(list, day, P) ==
    /\ day.totals = Graph!Together(list, P)
    /\ DOMAIN day.clients = {Graph!DayClient(list[i]) : i \in P}
    /\ \A c : Graph!At(day.clients, c, Graph!NewClient) =
                [amount |-> Graph!Together(list, OfClient(list, P, c)),
                 providers |-> {list[i].provider : i \in OfClient(list, P, c)}]
    /\ \A c : Graph!At(day.turns, c, 0) = Cut(Cardinality(TurnsOf(list, P, c)))

\* A day without messages.
LEMMA NoDay ==
    ASSUME NEW list, NEW n, IsList(list, n)
    PROVE  DayAdds(list, Graph!NewDay, {})
<1>1. Graph!Together(list, {}) = Graph!Zero
  BY TogetherOfNone
<1>2. \A c : OfClient(list, {}, c) = {} /\ TurnsOf(list, {}, c) = {}
  BY DEF OfClient, TurnsOf
<1>3. Cardinality({}) = 0 /\ Cut(0) = 0
  BY FS_EmptySet, CutSums
<1>4. PICK day : day = Graph!NewDay
  OBVIOUS
<1>5. day.totals = Graph!Zero /\ DOMAIN day.clients = {} /\ DOMAIN day.turns = {}
  BY <1>4 DEF Graph!NewDay
<1>6. \A c : Graph!At(day.clients, c, Graph!NewClient) = Graph!NewClient /\ Graph!At(day.turns, c, 0) = 0
  BY <1>5 DEF Graph!At
<1>7. Graph!NewClient = [amount |-> Graph!Zero, providers |-> {}]
  BY DEF Graph!NewClient
<1>8. \A c : Graph!At(day.clients, c, Graph!NewClient) =
                [amount |-> Graph!Together(list, OfClient(list, {}, c)),
                 providers |-> {list[i].provider : i \in OfClient(list, {}, c)}]
  BY <1>1, <1>2, <1>6, <1>7
<1>9. \A c : Graph!At(day.turns, c, 0) = Cut(Cardinality(TurnsOf(list, {}, c)))
  BY <1>2, <1>3, <1>6
<1>10. DOMAIN day.clients = {Graph!DayClient(list[i]) : i \in {}}
  BY <1>5
<1>. QED
  BY <1>1, <1>4, <1>5, <1>8, <1>9, <1>10 DEF DayAdds

\* Two days merged.
LEMMA MergedDay ==
    ASSUME NEW list, NEW n, IsList(list, n), NEW P, IsPlaces(P, n), NEW Q, IsPlaces(Q, n), P \cap Q = {},
           NEW a, DayAdds(list, a, P), NEW b, DayAdds(list, b, Q)
    PROVE  DayAdds(list, Graph!MergeDays(a, b), P \cup Q)
<1>1. PICK new : new = Graph!MergeDays(a, b)
  OBVIOUS
<1>2. /\ new.totals = Graph!Plus(a.totals, b.totals)
      /\ new.clients = [c \in DOMAIN a.clients \cup DOMAIN b.clients |->
                   LET x == Graph!At(a.clients, c, Graph!NewClient)
                       y == Graph!At(b.clients, c, Graph!NewClient)
                   IN  [amount |-> Graph!Plus(x.amount, y.amount), providers |-> x.providers \cup y.providers]]
      /\ new.turns = [c \in DOMAIN a.turns \cup DOMAIN b.turns |->
                        Graph!Sum(Graph!At(a.turns, c, 0), Graph!At(b.turns, c, 0))]
  BY <1>1 DEF Graph!MergeDays
<1>3. new.totals = Graph!Together(list, P \cup Q)
  <2>1. IsList(list, n) /\ P \cap Q = {}
    OBVIOUS
  <2>2. Graph!Together(list, P \cup Q) = Graph!Plus(Graph!Together(list, P), Graph!Together(list, Q))
    BY ONLY <2>1, TogetherOfBoth
  <2>. QED
    BY <1>2, <2>2 DEF DayAdds
<1>4. DOMAIN new.clients = {Graph!DayClient(list[i]) : i \in P \cup Q}
  BY <1>2 DEF DayAdds
<1>5. ASSUME NEW c
      PROVE  Graph!At(new.clients, c, Graph!NewClient) =
                [amount |-> Graph!Together(list, OfClient(list, P \cup Q, c)),
                 providers |-> {list[i].provider : i \in OfClient(list, P \cup Q, c)}]
  <2>1. PICK A, B : A = OfClient(list, P, c) /\ B = OfClient(list, Q, c)
    OBVIOUS
  <2>2. OfClient(list, P \cup Q, c) = A \cup B /\ A \cap B = {}
    BY <2>1 DEF OfClient
  <2>9. IsList(list, n)
    OBVIOUS
  <2>3. Graph!Together(list, A \cup B) = Graph!Plus(Graph!Together(list, A), Graph!Together(list, B))
    BY ONLY <2>2, <2>9, TogetherOfBoth
  <2>4. Graph!At(a.clients, c, Graph!NewClient) =
          [amount |-> Graph!Together(list, A), providers |-> {list[i].provider : i \in A}]
    BY <2>1 DEF DayAdds
  <2>5. Graph!At(b.clients, c, Graph!NewClient) =
          [amount |-> Graph!Together(list, B), providers |-> {list[i].provider : i \in B}]
    BY <2>1 DEF DayAdds
  <2>6. {list[i].provider : i \in A} \cup {list[i].provider : i \in B} = {list[i].provider : i \in A \cup B}
    OBVIOUS
  <2>7. CASE c \in DOMAIN a.clients \cup DOMAIN b.clients
    <3>1. Graph!At(new.clients, c, Graph!NewClient) =
            [amount |-> Graph!Plus(Graph!Together(list, A), Graph!Together(list, B)),
             providers |-> {list[i].provider : i \in A} \cup {list[i].provider : i \in B}]
      <4>1. PICK x, y : x = Graph!At(a.clients, c, Graph!NewClient) /\ y = Graph!At(b.clients, c, Graph!NewClient)
        OBVIOUS
      <4>2. c \in DOMAIN new.clients /\ new.clients[c] =
              [amount |-> Graph!Plus(x.amount, y.amount), providers |-> x.providers \cup y.providers]
        BY <1>2, <2>7, <4>1
      <4>3. x.amount = Graph!Together(list, A) /\ x.providers = {list[i].provider : i \in A}
        BY <2>4, <4>1
      <4>4. y.amount = Graph!Together(list, B) /\ y.providers = {list[i].provider : i \in B}
        BY <2>5, <4>1
      <4>5. Graph!At(new.clients, c, Graph!NewClient) = new.clients[c]
        BY <4>2 DEF Graph!At
      <4>. QED
        BY <4>2, <4>3, <4>4, <4>5
    <3>. QED
      BY <2>2, <2>3, <2>6, <3>1
  <2>8. CASE c \notin DOMAIN a.clients \cup DOMAIN b.clients
    <3>1. A = {} /\ B = {}
      BY <2>1, <2>8 DEF OfClient, DayAdds
    <3>2. Graph!At(new.clients, c, Graph!NewClient) = [amount |-> Graph!Zero, providers |-> {}]
      BY <1>2, <2>8 DEF Graph!At, Graph!NewClient
    <3>3. Graph!Together(list, {}) = Graph!Zero
      BY TogetherOfNone
    <3>. QED
      BY <2>2, <3>1, <3>2, <3>3
  <2>. QED
    BY <2>7, <2>8
<1>6. ASSUME NEW c PROVE Graph!At(new.turns, c, 0) = Cut(Cardinality(TurnsOf(list, P \cup Q, c)))
  <2>1. PICK A, B : A = TurnsOf(list, P, c) /\ B = TurnsOf(list, Q, c)
    OBVIOUS
  <2>2. TurnsOf(list, P \cup Q, c) = A \cup B /\ A \cap B = {} /\ A \subseteq 1..n /\ B \subseteq 1..n
    BY <2>1 DEF TurnsOf, IsPlaces
  <2>3. n \in Nat
    BY DEF IsList
  <2>4. Cardinality(A \cup B) = Cardinality(A) + Cardinality(B) /\ Cardinality(A) \in Nat /\ Cardinality(B) \in Nat
    BY ONLY <2>2, <2>3, PlacesCount
  <2>5. Graph!At(a.turns, c, 0) = Cut(Cardinality(A)) /\ Graph!At(b.turns, c, 0) = Cut(Cardinality(B))
    BY <2>1 DEF DayAdds
  <2>6. Graph!Sum(Cut(Cardinality(A)), Cut(Cardinality(B))) = Cut(Cardinality(A) + Cardinality(B))
    BY <2>4, CutSums
  <2>7. Graph!At(new.turns, c, 0) = Graph!Sum(Graph!At(a.turns, c, 0), Graph!At(b.turns, c, 0))
    <3>1. CASE c \in DOMAIN a.turns \cup DOMAIN b.turns
      BY <1>2, <3>1 DEF Graph!At
    <3>2. CASE c \notin DOMAIN a.turns \cup DOMAIN b.turns
      <4>1. Graph!At(a.turns, c, 0) = 0 /\ Graph!At(b.turns, c, 0) = 0 /\ Graph!At(new.turns, c, 0) = 0
        BY <1>2, <3>2 DEF Graph!At
      <4>. QED
        BY <4>1, CutSums
    <3>. QED
      BY <3>1, <3>2
  <2>. QED
    BY <2>2, <2>4, <2>5, <2>6, <2>7
<1>. QED
  BY <1>1, <1>3, <1>4, <1>5, <1>6 DEF DayAdds

\* A day without the message that was added to the list.
LEMMA SameDay ==
    ASSUME NEW list, NEW n, NEW longer, NEW k, OneLonger(list, n, longer, k), NEW P, IsPlaces(P, n),
           NEW day, DayAdds(list, day, P)
    PROVE  DayAdds(longer, day, P)
<1>1. ASSUME NEW Q, Q \subseteq 1..n PROVE Graph!Together(longer, Q) = Graph!Together(list, Q)
  <2>1. OneLonger(list, n, longer, k) /\ IsPlaces(Q, n)
    BY <1>1 DEF IsPlaces
  <2>2. /\ Graph!Together(longer, Q) = Graph!Together(list, Q)
        /\ Graph!Together(longer, Q \cup {k}) = Graph!Plus(Graph!Together(list, Q), longer[k].amount)
    BY ONLY <2>1, TogetherOneMore
  <2>. QED
    BY <2>2
<1>2. \A i \in P : longer[i] = list[i]
  BY DEF OneLonger, IsPlaces
<1>3. \A c : OfClient(longer, P, c) = OfClient(list, P, c) /\ TurnsOf(longer, P, c) = TurnsOf(list, P, c)
  BY <1>2 DEF OfClient, TurnsOf
<1>4. {Graph!DayClient(longer[i]) : i \in P} = {Graph!DayClient(list[i]) : i \in P}
  BY <1>2
<1>5. \A c : OfClient(list, P, c) \subseteq P
  BY DEF OfClient, IsPlaces
<1>6. \A c : {longer[i].provider : i \in OfClient(list, P, c)} = {list[i].provider : i \in OfClient(list, P, c)}
  BY <1>2, <1>5
<1>7. day.totals = Graph!Together(longer, P)
  <2>1. P \subseteq 1..n /\ day.totals = Graph!Together(list, P)
    BY DEF DayAdds, IsPlaces
  <2>. QED
    BY <1>1, <2>1
<1>8. DOMAIN day.clients = {Graph!DayClient(longer[i]) : i \in P}
  BY <1>4 DEF DayAdds
<1>9. ASSUME NEW c
      PROVE  Graph!At(day.clients, c, Graph!NewClient) =
                [amount |-> Graph!Together(longer, OfClient(longer, P, c)),
                 providers |-> {longer[i].provider : i \in OfClient(longer, P, c)}]
  <2>1. Graph!At(day.clients, c, Graph!NewClient) =
                [amount |-> Graph!Together(list, OfClient(list, P, c)),
                 providers |-> {list[i].provider : i \in OfClient(list, P, c)}]
    BY DEF DayAdds
  <2>2. Graph!Together(longer, OfClient(list, P, c)) = Graph!Together(list, OfClient(list, P, c))
    BY <1>1, <1>5 DEF IsPlaces
  <2>3. PICK places : places = OfClient(list, P, c)
    OBVIOUS
  <2>4. OfClient(longer, P, c) = places /\ Graph!Together(longer, places) = Graph!Together(list, places)
    BY <1>3, <2>2, <2>3
  <2>5. {longer[i].provider : i \in places} = {list[i].provider : i \in places}
    BY <1>6, <2>3
  <2>. QED
    BY <2>1, <2>3, <2>4, <2>5
<1>10. \A c : Graph!At(day.turns, c, 0) = Cut(Cardinality(TurnsOf(longer, P, c)))
  BY <1>3 DEF DayAdds
<1>. QED
  BY <1>7, <1>8, <1>9, <1>10 DEF DayAdds

\* A message added to a day.
LEMMA AddedDay ==
    ASSUME NEW list, NEW n, NEW longer, NEW k, OneLonger(list, n, longer, k), NEW P, IsPlaces(P, n),
           NEW day, DayAdds(list, day, P)
    PROVE  DayAdds(longer, Graph!AddToDay(day, longer[k]), P \cup {k})
<1>1. PICK m, key : m = longer[k] /\ key = Graph!DayClient(m)
  OBVIOUS
<1>2. PICK new : new = Graph!AddToDay(day, m)
  OBVIOUS
<1>3. PICK entry : entry = Graph!At(day.clients, key, Graph!NewClient)
  OBVIOUS
<1>4. PICK value : value = [amount |-> Graph!Plus(entry.amount, m.amount), providers |-> entry.providers \cup {m.provider}]
  OBVIOUS
<1>5. /\ new.totals = Graph!Plus(day.totals, m.amount)
      /\ new.clients = Graph!With(day.clients, key, value)
      /\ new.turns = IF m.turn THEN Graph!With(day.turns, m.client, Graph!Sum(Graph!At(day.turns, m.client, 0), 1))
                     ELSE day.turns
  BY <1>1, <1>2, <1>3, <1>4 DEF Graph!AddToDay
<1>6. k \notin P /\ n \in Nat /\ \A i \in P : longer[i] = list[i]
  BY DEF OneLonger, IsList, IsPlaces
<1>7. \A Q : Q \subseteq 1..n => /\ Graph!Together(longer, Q) = Graph!Together(list, Q)
                                 /\ Graph!Together(longer, Q \cup {k}) = Graph!Plus(Graph!Together(list, Q), m.amount)
  <2>1. SUFFICES ASSUME NEW Q, Q \subseteq 1..n
                 PROVE  /\ Graph!Together(longer, Q) = Graph!Together(list, Q)
                        /\ Graph!Together(longer, Q \cup {k}) = Graph!Plus(Graph!Together(list, Q), m.amount)
    OBVIOUS
  <2>2. OneLonger(list, n, longer, k) /\ IsPlaces(Q, n)
    BY <2>1 DEF IsPlaces
  <2>3. /\ Graph!Together(longer, Q) = Graph!Together(list, Q)
        /\ Graph!Together(longer, Q \cup {k}) = Graph!Plus(Graph!Together(list, Q), longer[k].amount)
    BY ONLY <2>2, TogetherOneMore
  <2>. QED
    BY <1>1, <2>3
<1>8. DayAdds(longer, day, P)
  BY SameDay
<1>9. new.totals = Graph!Together(longer, P \cup {k})
  BY <1>5, <1>7 DEF DayAdds, IsPlaces
<1>10. DOMAIN new.clients = {Graph!DayClient(longer[i]) : i \in P \cup {k}}
  <2>1. DOMAIN new.clients = DOMAIN day.clients \cup {key}
    BY <1>5 DEF Graph!With
  <2>2. DOMAIN day.clients = {Graph!DayClient(longer[i]) : i \in P}
    BY <1>8 DEF DayAdds
  <2>. QED
    BY <1>1, <2>1, <2>2
<1>11. ASSUME NEW c
       PROVE  Graph!At(new.clients, c, Graph!NewClient) =
                [amount |-> Graph!Together(longer, OfClient(longer, P \cup {k}, c)),
                 providers |-> {longer[i].provider : i \in OfClient(longer, P \cup {k}, c)}]
  <2>1. PICK Q : Q = OfClient(longer, P, c)
    OBVIOUS
  <2>2. Graph!At(day.clients, c, Graph!NewClient) =
          [amount |-> Graph!Together(longer, Q), providers |-> {longer[i].provider : i \in Q}]
    BY <1>8, <2>1 DEF DayAdds
  <2>3. Q \subseteq 1..n /\ Graph!Together(longer, Q \cup {k}) = Graph!Plus(Graph!Together(longer, Q), m.amount)
    <3>1. Q \subseteq 1..n
      BY <2>1 DEF OfClient, IsPlaces
    <3>. QED
      BY <1>7, <3>1
  <2>4. Graph!At(new.clients, c, Graph!NewClient)
          = IF c = key THEN value ELSE Graph!At(day.clients, c, Graph!NewClient)
    BY <1>5 DEF Graph!At, Graph!With
  <2>5. CASE c = key
    <3>1. OfClient(longer, P \cup {k}, c) = Q \cup {k}
      BY <1>1, <2>1, <2>5 DEF OfClient
    <3>2. entry.amount = Graph!Together(longer, Q) /\ entry.providers = {longer[i].provider : i \in Q}
      BY <1>3, <2>2, <2>5
    <3>3. {longer[i].provider : i \in Q} \cup {m.provider} = {longer[i].provider : i \in Q \cup {k}}
      BY <1>1
    <3>. QED
      BY <1>4, <2>3, <2>4, <2>5, <3>1, <3>2, <3>3
  <2>6. CASE c # key
    <3>1. OfClient(longer, P \cup {k}, c) = Q
      BY <1>1, <2>1, <2>6 DEF OfClient
    <3>. QED
      BY <2>2, <2>4, <2>6, <3>1
  <2>. QED
    BY <2>5, <2>6
<1>12. ASSUME NEW c PROVE Graph!At(new.turns, c, 0) = Cut(Cardinality(TurnsOf(longer, P \cup {k}, c)))
  <2>1. PICK Q : Q = TurnsOf(longer, P, c)
    OBVIOUS
  <2>2. n \in Nat /\ Q \subseteq 1..n /\ k \notin Q
    BY <1>6, <2>1 DEF TurnsOf, IsPlaces
  <2>3. Cardinality(Q) \in Nat /\ Cardinality(Q \cup {k}) = Cardinality(Q) + 1
    BY ONLY <2>2, PlacesCount
  <2>4. Graph!At(day.turns, c, 0) = Cut(Cardinality(Q))
    BY <1>8, <2>1 DEF DayAdds
  <2>5. CASE m.turn /\ c = m.client
    <3>1. TurnsOf(longer, P \cup {k}, c) = Q \cup {k}
      BY <1>1, <2>1, <2>5 DEF TurnsOf
    <3>2. Graph!At(new.turns, c, 0) = Graph!Sum(Graph!At(day.turns, c, 0), 1)
      BY <1>5, <2>5 DEF Graph!At, Graph!With
    <3>3. Graph!Sum(Cut(Cardinality(Q)), 1) = Cut(Cardinality(Q) + 1)
      BY <2>3, CutSums
    <3>. QED
      BY <2>3, <2>4, <3>1, <3>2, <3>3
  <2>6. CASE ~(m.turn /\ c = m.client)
    <3>1. TurnsOf(longer, P \cup {k}, c) = Q
      BY <1>1, <2>1, <2>6 DEF TurnsOf
    <3>2. Graph!At(new.turns, c, 0) = Graph!At(day.turns, c, 0)
      BY <1>5, <2>6 DEF Graph!At, Graph!With
    <3>. QED
      BY <2>4, <3>1, <3>2
  <2>. QED
    BY <2>5, <2>6
<1>. QED
  BY <1>1, <1>2, <1>9, <1>10, <1>11, <1>12 DEF DayAdds

-------------------------------------------------------------------------------
\* The places of the messages of a client, provider and model.
OfSessionClient(list, P, c) == {i \in P : Graph!SessionClient(list[i]) = c}

\* A session begins no later and ends no earlier than its messages, and with one of
\* them if it has any.
Spans(list, session, P) ==
    /\ session.first \in {MAX} \cup {list[i].time : i \in P}
    /\ session.last \in {Graph!MIN} \cup {list[i].time : i \in P}
    /\ \A i \in P : session.first <= list[i].time /\ list[i].time <= session.last

\* A session says what the messages at these places have together.
SessionAdds(list, session, P) ==
    /\ session.totals = Graph!Together(list, P)
    /\ DOMAIN session.clients = {Graph!SessionClient(list[i]) : i \in P}
    /\ \A c : Graph!At(session.clients, c, Graph!Zero) = Graph!Together(list, OfSessionClient(list, P, c))
    /\ Spans(list, session, P)

\* A time is within what 64 bits hold.
IsTime(t) == t \in Int /\ MAX \in Nat /\ Graph!MIN \in Int /\ Graph!MIN <= t /\ t <= MAX

\* Times of messages are such.
LEMMA TimesOf ==
    ASSUME NEW list, NEW n, IsList(list, n)
    PROVE  \A i \in 1..n : IsTime(list[i].time)
<1>1. SUFFICES ASSUME NEW i \in 1..n PROVE IsTime(list[i].time)
  OBVIOUS
<1>2. PICK m \in GraphMessages : m = list[i]
  BY DEF IsList
<1>3. m.time \in Graph!MIN..MAX /\ MAX \in Nat
  BY ReportAssumption DEF Graph!AmountsAreNatural
<1>. QED
  BY <1>2, <1>3 DEF Graph!MIN, IsTime

\* A session without messages.
LEMMA NoSession ==
    ASSUME NEW list, NEW n, IsList(list, n)
    PROVE  SessionAdds(list, Graph!NewSession, {})
<1>1. Graph!Together(list, {}) = Graph!Zero
  BY TogetherOfNone
<1>2. \A c : OfSessionClient(list, {}, c) = {}
  BY DEF OfSessionClient
<1>3. PICK session : session = Graph!NewSession
  OBVIOUS
<1>4. session.totals = Graph!Zero /\ DOMAIN session.clients = {} /\ session.first = MAX /\ session.last = Graph!MIN
  BY <1>3 DEF Graph!NewSession
<1>5. \A c : Graph!At(session.clients, c, Graph!Zero) = Graph!Zero
  BY <1>4 DEF Graph!At
<1>6. \A c : Graph!At(session.clients, c, Graph!Zero) = Graph!Together(list, OfSessionClient(list, {}, c))
  BY <1>1, <1>2, <1>5
<1>7. Spans(list, session, {})
  BY <1>4 DEF Spans
<1>8. DOMAIN session.clients = {Graph!SessionClient(list[i]) : i \in {}}
  BY <1>4
<1>. QED
  BY <1>1, <1>3, <1>4, <1>6, <1>7, <1>8 DEF SessionAdds

\* Two spans merged.
LEMMA MergedSpans ==
    ASSUME NEW list, NEW n, IsList(list, n), NEW P, IsPlaces(P, n), NEW Q, IsPlaces(Q, n),
           NEW a, Spans(list, a, P), NEW b, Spans(list, b, Q),
           NEW new, new.first = Graph!Min({a.first, b.first}), new.last = Graph!Max({a.last, b.last})
    PROVE  Spans(list, new, P \cup Q)
<1>1. \A i \in P \cup Q : list[i].time \in Int
  BY TimesOf DEF IsPlaces, IsTime
<1>2. MAX \in Nat /\ Graph!MIN \in Int
  BY ReportAssumption DEF Graph!MIN
<1>3. {a.first, b.first, a.last, b.last} \subseteq Int
  BY <1>1, <1>2 DEF Spans
<1>4. /\ new.first = IF a.first <= b.first THEN a.first ELSE b.first
      /\ new.last = IF a.last >= b.last THEN a.last ELSE b.last
  BY <1>3, OfTwo
<1>5. new.first \in {MAX} \cup {list[i].time : i \in P \cup Q}
  BY <1>4 DEF Spans
<1>6. new.last \in {Graph!MIN} \cup {list[i].time : i \in P \cup Q}
  BY <1>4 DEF Spans
<1>7. ASSUME NEW i \in P \cup Q PROVE new.first <= list[i].time /\ list[i].time <= new.last
  <2>1. (a.first <= list[i].time /\ list[i].time <= a.last) \/ (b.first <= list[i].time /\ list[i].time <= b.last)
    BY DEF Spans
  <2>. QED
    BY <1>1, <1>3, <1>4, <2>1
<1>. QED
  BY <1>5, <1>6, <1>7 DEF Spans

\* Two sessions merged.
LEMMA MergedSession ==
    ASSUME NEW list, NEW n, IsList(list, n), NEW P, IsPlaces(P, n), NEW Q, IsPlaces(Q, n), P \cap Q = {},
           NEW a, SessionAdds(list, a, P), NEW b, SessionAdds(list, b, Q), NEW new \in Graph!MergeSessions(a, b)
    PROVE  SessionAdds(list, new, P \cup Q)
<1>1. /\ new.totals = Graph!Plus(a.totals, b.totals)
      /\ new.clients = [key \in DOMAIN a.clients \cup DOMAIN b.clients |->
                          Graph!Plus(Graph!At(a.clients, key, Graph!Zero), Graph!At(b.clients, key, Graph!Zero))]
      /\ new.first = Graph!Min({a.first, b.first})
      /\ new.last = Graph!Max({a.last, b.last})
  <2>1. PICK most : most = Graph!Max({a.top_cost} \cup {Graph!Weight(a, b, key) : key \in DOMAIN b.clients})
    OBVIOUS
  <2>2. \E top : new = [totals |-> Graph!Plus(a.totals, b.totals),
          clients |-> [key \in DOMAIN a.clients \cup DOMAIN b.clients |->
                        Graph!Plus(Graph!At(a.clients, key, Graph!Zero), Graph!At(b.clients, key, Graph!Zero))],
          top |-> top,
          top_cost |-> most,
          first |-> Graph!Min({a.first, b.first}),
          last |-> Graph!Max({a.last, b.last})]
    BY <2>1 DEF Graph!MergeSessions
  <2>. QED
    BY <2>2
<1>2. new.totals = Graph!Together(list, P \cup Q)
  <2>1. IsList(list, n) /\ P \cap Q = {}
    OBVIOUS
  <2>2. Graph!Together(list, P \cup Q) = Graph!Plus(Graph!Together(list, P), Graph!Together(list, Q))
    BY ONLY <2>1, TogetherOfBoth
  <2>. QED
    BY <1>1, <2>2 DEF SessionAdds
<1>3. DOMAIN new.clients = {Graph!SessionClient(list[i]) : i \in P \cup Q}
  BY <1>1 DEF SessionAdds
<1>4. ASSUME NEW c
      PROVE  Graph!At(new.clients, c, Graph!Zero) = Graph!Together(list, OfSessionClient(list, P \cup Q, c))
  <2>1. PICK A, B : A = OfSessionClient(list, P, c) /\ B = OfSessionClient(list, Q, c)
    OBVIOUS
  <2>2. OfSessionClient(list, P \cup Q, c) = A \cup B /\ A \cap B = {}
    BY <2>1 DEF OfSessionClient
  <2>3. IsList(list, n)
    OBVIOUS
  <2>4. Graph!Together(list, A \cup B) = Graph!Plus(Graph!Together(list, A), Graph!Together(list, B))
    BY ONLY <2>2, <2>3, TogetherOfBoth
  <2>5. Graph!At(a.clients, c, Graph!Zero) = Graph!Together(list, A)
        /\ Graph!At(b.clients, c, Graph!Zero) = Graph!Together(list, B)
    BY <2>1 DEF SessionAdds
  <2>6. CASE c \in DOMAIN a.clients \cup DOMAIN b.clients
    <3>1. c \in DOMAIN new.clients /\ new.clients[c] =
            Graph!Plus(Graph!At(a.clients, c, Graph!Zero), Graph!At(b.clients, c, Graph!Zero))
      BY <1>1, <2>6
    <3>2. Graph!At(new.clients, c, Graph!Zero) = new.clients[c]
      BY <3>1 DEF Graph!At
    <3>. QED
      BY <2>2, <2>4, <2>5, <3>1, <3>2
  <2>7. CASE c \notin DOMAIN a.clients \cup DOMAIN b.clients
    <3>1. A = {} /\ B = {}
      BY <2>1, <2>7 DEF OfSessionClient, SessionAdds
    <3>2. Graph!At(new.clients, c, Graph!Zero) = Graph!Zero
      BY <1>1, <2>7 DEF Graph!At
    <3>3. Graph!Together(list, {}) = Graph!Zero
      BY TogetherOfNone
    <3>. QED
      BY <2>2, <3>1, <3>2, <3>3
  <2>. QED
    BY <2>6, <2>7
<1>5. Spans(list, new, P \cup Q)
  <2>1. /\ IsList(list, n) /\ IsPlaces(P, n) /\ IsPlaces(Q, n) /\ Spans(list, a, P) /\ Spans(list, b, Q)
        /\ new.first = Graph!Min({a.first, b.first}) /\ new.last = Graph!Max({a.last, b.last})
    BY <1>1 DEF SessionAdds
  <2>. QED
    BY ONLY <2>1, MergedSpans
<1>. QED
  BY <1>2, <1>3, <1>4, <1>5 DEF SessionAdds

\* A longer list has these amounts.
LEMMA SamePlaces ==
    ASSUME NEW list, NEW n, NEW longer, NEW k, OneLonger(list, n, longer, k), NEW Q, IsPlaces(Q, n)
    PROVE  /\ Graph!Together(longer, Q) = Graph!Together(list, Q)
           /\ Graph!Together(longer, Q \cup {k}) = Graph!Plus(Graph!Together(longer, Q), longer[k].amount)
           /\ \A i \in Q : longer[i] = list[i]
           /\ k \notin Q /\ k \in Nat /\ n \in Nat
<1>1. OneLonger(list, n, longer, k) /\ IsPlaces(Q, n)
  OBVIOUS
<1>2. /\ Graph!Together(longer, Q) = Graph!Together(list, Q)
      /\ Graph!Together(longer, Q \cup {k}) = Graph!Plus(Graph!Together(list, Q), longer[k].amount)
  BY ONLY <1>1, TogetherOneMore
<1>3. k = n + 1 /\ k \in Nat /\ n \in Nat /\ \A i \in 1..n : longer[i] = list[i]
  BY DEF OneLonger, IsList
<1>4. Q \subseteq 1..n
  BY DEF IsPlaces
<1>5. k \notin Q
  <2>1. k \notin 1..n
    BY <1>3
  <2>. QED
    BY <1>4, <2>1
<1>6. \A i \in Q : longer[i] = list[i]
  BY <1>3, <1>4
<1>. QED
  BY <1>2, <1>3, <1>5, <1>6

\* A session without the message that was added to the list.
LEMMA SameSession ==
    ASSUME NEW list, NEW n, NEW longer, NEW k, OneLonger(list, n, longer, k), NEW P, IsPlaces(P, n),
           NEW session, SessionAdds(list, session, P)
    PROVE  SessionAdds(longer, session, P)
<1>1. Graph!Together(longer, P) = Graph!Together(list, P) /\ \A i \in P : longer[i] = list[i]
  <2>1. OneLonger(list, n, longer, k) /\ IsPlaces(P, n)
    OBVIOUS
  <2>2. /\ Graph!Together(longer, P) = Graph!Together(list, P)
        /\ Graph!Together(longer, P \cup {k}) = Graph!Plus(Graph!Together(longer, P), longer[k].amount)
        /\ \A i \in P : longer[i] = list[i]
        /\ k \notin P /\ k \in Nat /\ n \in Nat
    BY ONLY <2>1, SamePlaces
  <2>. QED
    BY <2>2
<1>2. session.totals = Graph!Together(longer, P)
  BY <1>1 DEF SessionAdds
<1>3. DOMAIN session.clients = {Graph!SessionClient(longer[i]) : i \in P}
  BY <1>1 DEF SessionAdds
<1>4. ASSUME NEW c
      PROVE  Graph!At(session.clients, c, Graph!Zero) = Graph!Together(longer, OfSessionClient(longer, P, c))
  <2>1. PICK Q : Q = OfSessionClient(list, P, c)
    OBVIOUS
  <2>2. OneLonger(list, n, longer, k) /\ IsPlaces(Q, n)
    BY <2>1 DEF OfSessionClient, IsPlaces
  <2>3. OfSessionClient(longer, P, c) = Q
    BY <1>1, <2>1 DEF OfSessionClient
  <2>4. /\ Graph!Together(longer, Q) = Graph!Together(list, Q)
        /\ Graph!Together(longer, Q \cup {k}) = Graph!Plus(Graph!Together(longer, Q), longer[k].amount)
        /\ \A i \in Q : longer[i] = list[i]
        /\ k \notin Q /\ k \in Nat /\ n \in Nat
    BY ONLY <2>2, SamePlaces
  <2>. QED
    BY <2>1, <2>3, <2>4 DEF SessionAdds
<1>5. Spans(longer, session, P)
  BY <1>1 DEF SessionAdds, Spans
<1>. QED
  BY <1>2, <1>3, <1>4, <1>5 DEF SessionAdds

\* A message added to a session.
LEMMA AddedSession ==
    ASSUME NEW list, NEW n, NEW longer, NEW k, OneLonger(list, n, longer, k), NEW P, IsPlaces(P, n),
           NEW session, SessionAdds(list, session, P)
    PROVE  SessionAdds(longer, Graph!AddToSession(session, longer[k]), P \cup {k})
<1>1. PICK m, key : m = longer[k] /\ key = Graph!SessionClient(m)
  OBVIOUS
<1>2. PICK new : new = Graph!AddToSession(session, m)
  OBVIOUS
<1>3. PICK entry : entry = Graph!Plus(Graph!At(session.clients, key, Graph!Zero), m.amount)
  OBVIOUS
<1>4. /\ new.totals = Graph!Plus(session.totals, m.amount)
      /\ new.clients = Graph!With(session.clients, key, entry)
      /\ new.first = Graph!Min({session.first, m.time})
      /\ new.last = Graph!Max({session.last, m.time})
  BY <1>1, <1>2, <1>3 DEF Graph!AddToSession
<1>5. SessionAdds(longer, session, P)
  BY SameSession
<1>6. IsList(longer, k) /\ k \in 1..k /\ IsPlaces(P, k)
  BY DEF OneLonger, IsList, IsPlaces
<1>11. OneLonger(list, n, longer, k)
  OBVIOUS
<1>7. new.totals = Graph!Together(longer, P \cup {k})
  <2>1. Graph!Together(longer, P \cup {k}) = Graph!Plus(Graph!Together(longer, P), longer[k].amount)
    <3>1. IsPlaces(P, n)
      OBVIOUS
    <3>. QED
      BY ONLY <1>11, <3>1, SamePlaces
  <2>. QED
    BY <1>1, <1>4, <1>5, <2>1 DEF SessionAdds
<1>8. DOMAIN new.clients = {Graph!SessionClient(longer[i]) : i \in P \cup {k}}
  <2>1. DOMAIN new.clients = DOMAIN session.clients \cup {key}
    BY <1>4 DEF Graph!With
  <2>2. DOMAIN session.clients = {Graph!SessionClient(longer[i]) : i \in P}
    BY <1>5 DEF SessionAdds
  <2>. QED
    BY <1>1, <2>1, <2>2
<1>9. ASSUME NEW c
      PROVE  Graph!At(new.clients, c, Graph!Zero) = Graph!Together(longer, OfSessionClient(longer, P \cup {k}, c))
  <2>1. PICK Q : Q = OfSessionClient(longer, P, c)
    OBVIOUS
  <2>2. Graph!At(session.clients, c, Graph!Zero) = Graph!Together(longer, Q)
    BY <1>5, <2>1 DEF SessionAdds
  <2>3. IsPlaces(Q, n)
    BY <2>1 DEF OfSessionClient, IsPlaces
  <2>4. Graph!Together(longer, Q \cup {k}) = Graph!Plus(Graph!Together(longer, Q), longer[k].amount)
    BY ONLY <1>11, <2>3, SamePlaces
  <2>5. Graph!At(new.clients, c, Graph!Zero) = IF c = key THEN entry ELSE Graph!At(session.clients, c, Graph!Zero)
    BY <1>4 DEF Graph!At, Graph!With
  <2>6. CASE c = key
    <3>1. OfSessionClient(longer, P \cup {k}, c) = Q \cup {k}
      BY <1>1, <2>1, <2>6 DEF OfSessionClient
    <3>. QED
      BY <1>1, <1>3, <2>2, <2>4, <2>5, <2>6, <3>1
  <2>7. CASE c # key
    <3>1. OfSessionClient(longer, P \cup {k}, c) = Q
      BY <1>1, <2>1, <2>7 DEF OfSessionClient
    <3>. QED
      BY <2>2, <2>5, <2>7, <3>1
  <2>. QED
    BY <2>6, <2>7
<1>10. Spans(longer, new, P \cup {k})
  <2>1. PICK one : one = [first |-> m.time, last |-> m.time]
    OBVIOUS
  <2>2. one.first = m.time /\ one.last = m.time
    BY <2>1
  <2>3. m.time \in Int
    BY <1>1, <1>6, TimesOf DEF IsTime
  <2>4. Spans(longer, one, {k})
    BY <1>1, <2>2, <2>3 DEF Spans
  <2>5. Spans(longer, session, P)
    BY <1>5 DEF SessionAdds
  <2>6. IsPlaces({k}, k)
    BY <1>6 DEF IsPlaces
  <2>7. new.first = Graph!Min({session.first, one.first}) /\ new.last = Graph!Max({session.last, one.last})
    BY <1>4, <2>2
  <2>. QED
    BY ONLY <1>6, <2>4, <2>5, <2>6, <2>7, MergedSpans
<1>. QED
  BY <1>1, <1>2, <1>7, <1>8, <1>9, <1>10 DEF SessionAdds

-------------------------------------------------------------------------------
\* The places of the messages of a day and of a session.
OfDay(list, P, d) == {i \in P : list[i].day = d}
OfSession(list, P, s) == {i \in P : list[i].session = s}

\* A piece says what the messages at these places have together.
PieceAdds(list, piece, P) ==
    /\ DOMAIN piece.days = {list[i].day : i \in P}
    /\ DOMAIN piece.sessions = {list[i].session : i \in P}
    /\ \A d : DayAdds(list, Graph!At(piece.days, d, Graph!NewDay), OfDay(list, P, d))
    /\ \A s : SessionAdds(list, Graph!At(piece.sessions, s, Graph!NewSession), OfSession(list, P, s))

\* A piece without messages.
LEMMA NoPiece ==
    ASSUME NEW list, NEW n, IsList(list, n)
    PROVE  PieceAdds(list, Graph!NewPiece, {})
<1>1. PICK piece : piece = Graph!NewPiece
  OBVIOUS
<1>2. DOMAIN piece.days = {} /\ DOMAIN piece.sessions = {}
  BY <1>1 DEF Graph!NewPiece
<1>3. /\ \A d : Graph!At(piece.days, d, Graph!NewDay) = Graph!NewDay /\ OfDay(list, {}, d) = {}
      /\ \A s : Graph!At(piece.sessions, s, Graph!NewSession) = Graph!NewSession /\ OfSession(list, {}, s) = {}
  BY <1>2 DEF Graph!At, OfDay, OfSession
<1>4. DayAdds(list, Graph!NewDay, {}) /\ SessionAdds(list, Graph!NewSession, {})
  BY NoDay, NoSession
<1>5. \A d : DayAdds(list, Graph!At(piece.days, d, Graph!NewDay), OfDay(list, {}, d))
  BY <1>3, <1>4
<1>6. \A s : SessionAdds(list, Graph!At(piece.sessions, s, Graph!NewSession), OfSession(list, {}, s))
  BY <1>3, <1>4
<1>. QED
  BY <1>1, <1>2, <1>5, <1>6 DEF PieceAdds

\* A piece without the message that was added to the list.
LEMMA SamePiece ==
    ASSUME NEW list, NEW n, NEW longer, NEW k, OneLonger(list, n, longer, k), NEW P, IsPlaces(P, n),
           NEW piece, PieceAdds(list, piece, P)
    PROVE  PieceAdds(longer, piece, P)
<1>0. OneLonger(list, n, longer, k)
  OBVIOUS
<1>1. \A i \in P : longer[i] = list[i]
  BY DEF OneLonger, IsPlaces
<1>2. DOMAIN piece.days = {longer[i].day : i \in P} /\ DOMAIN piece.sessions = {longer[i].session : i \in P}
  BY <1>1 DEF PieceAdds
<1>3. ASSUME NEW d PROVE DayAdds(longer, Graph!At(piece.days, d, Graph!NewDay), OfDay(longer, P, d))
  <2>1. PICK Q, day : Q = OfDay(list, P, d) /\ day = Graph!At(piece.days, d, Graph!NewDay)
    OBVIOUS
  <2>2. IsPlaces(Q, n) /\ OfDay(longer, P, d) = Q /\ DayAdds(list, day, Q)
    BY <1>1, <2>1 DEF OfDay, IsPlaces, PieceAdds
  <2>3. DayAdds(longer, day, Q)
    BY ONLY <1>0, <2>2, SameDay
  <2>. QED
    BY <2>1, <2>2, <2>3
<1>4. ASSUME NEW s PROVE SessionAdds(longer, Graph!At(piece.sessions, s, Graph!NewSession), OfSession(longer, P, s))
  <2>1. PICK Q, session : Q = OfSession(list, P, s) /\ session = Graph!At(piece.sessions, s, Graph!NewSession)
    OBVIOUS
  <2>2. IsPlaces(Q, n) /\ OfSession(longer, P, s) = Q /\ SessionAdds(list, session, Q)
    BY <1>1, <2>1 DEF OfSession, IsPlaces, PieceAdds
  <2>3. SessionAdds(longer, session, Q)
    BY ONLY <1>0, <2>2, SameSession
  <2>. QED
    BY <2>1, <2>2, <2>3
<1>. QED
  BY <1>2, <1>3, <1>4 DEF PieceAdds

\* A message added to a piece.
LEMMA AddedPiece ==
    ASSUME NEW list, NEW n, NEW longer, NEW k, OneLonger(list, n, longer, k), NEW P, IsPlaces(P, n),
           NEW piece, PieceAdds(list, piece, P), NEW m, m = longer[k], NEW new,
           new.days = Graph!With(piece.days, m.day, Graph!AddToDay(Graph!At(piece.days, m.day, Graph!NewDay), m)),
           new.sessions = Graph!With(piece.sessions, m.session,
                            Graph!AddToSession(Graph!At(piece.sessions, m.session, Graph!NewSession), m))
    PROVE  PieceAdds(longer, new, P \cup {k})
<1>0. OneLonger(list, n, longer, k)
  OBVIOUS
<1>1. \A i \in P : longer[i] = list[i]
  BY DEF OneLonger, IsPlaces
<1>2. PieceAdds(longer, piece, P)
  BY SamePiece
<1>3. DOMAIN new.days = {longer[i].day : i \in P \cup {k}}
  <2>1. DOMAIN new.days = DOMAIN piece.days \cup {m.day}
    BY DEF Graph!With
  <2>2. DOMAIN piece.days = {longer[i].day : i \in P}
    BY <1>2 DEF PieceAdds
  <2>. QED
    BY <2>1, <2>2
<1>4. DOMAIN new.sessions = {longer[i].session : i \in P \cup {k}}
  <2>1. DOMAIN new.sessions = DOMAIN piece.sessions \cup {m.session}
    BY DEF Graph!With
  <2>2. DOMAIN piece.sessions = {longer[i].session : i \in P}
    BY <1>2 DEF PieceAdds
  <2>. QED
    BY <2>1, <2>2
<1>5. ASSUME NEW d PROVE DayAdds(longer, Graph!At(new.days, d, Graph!NewDay), OfDay(longer, P \cup {k}, d))
  <2>1. PICK Q, day : Q = OfDay(list, P, d) /\ day = Graph!At(piece.days, d, Graph!NewDay)
    OBVIOUS
  <2>2. IsPlaces(Q, n) /\ OfDay(longer, P, d) = Q /\ DayAdds(list, day, Q)
    BY <1>1, <2>1 DEF OfDay, IsPlaces, PieceAdds
  <2>3. CASE d = m.day
    <3>1. DayAdds(longer, Graph!AddToDay(day, longer[k]), Q \cup {k})
      BY ONLY <1>0, <2>2, AddedDay
    <3>2. Graph!At(new.days, d, Graph!NewDay) = Graph!AddToDay(day, m)
      BY <2>1, <2>3 DEF Graph!At, Graph!With
    <3>3. OfDay(longer, P \cup {k}, d) = Q \cup {k}
      BY <2>2, <2>3 DEF OfDay
    <3>. QED
      BY <3>1, <3>2, <3>3
  <2>4. CASE d # m.day
    <3>1. DayAdds(longer, day, Q)
      BY ONLY <1>0, <2>2, SameDay
    <3>2. Graph!At(new.days, d, Graph!NewDay) = day
      BY <2>1, <2>4 DEF Graph!At, Graph!With
    <3>3. OfDay(longer, P \cup {k}, d) = Q
      BY <2>2, <2>4 DEF OfDay
    <3>. QED
      BY <3>1, <3>2, <3>3
  <2>. QED
    BY <2>3, <2>4
<1>6. ASSUME NEW s
      PROVE  SessionAdds(longer, Graph!At(new.sessions, s, Graph!NewSession), OfSession(longer, P \cup {k}, s))
  <2>1. PICK Q, session : Q = OfSession(list, P, s) /\ session = Graph!At(piece.sessions, s, Graph!NewSession)
    OBVIOUS
  <2>2. IsPlaces(Q, n) /\ OfSession(longer, P, s) = Q /\ SessionAdds(list, session, Q)
    BY <1>1, <2>1 DEF OfSession, IsPlaces, PieceAdds
  <2>3. CASE s = m.session
    <3>1. SessionAdds(longer, Graph!AddToSession(session, longer[k]), Q \cup {k})
      BY ONLY <1>0, <2>2, AddedSession
    <3>2. Graph!At(new.sessions, s, Graph!NewSession) = Graph!AddToSession(session, m)
      BY <2>1, <2>3 DEF Graph!At, Graph!With
    <3>3. OfSession(longer, P \cup {k}, s) = Q \cup {k}
      BY <2>2, <2>3 DEF OfSession
    <3>. QED
      BY <3>1, <3>2, <3>3
  <2>4. CASE s # m.session
    <3>1. SessionAdds(longer, session, Q)
      BY ONLY <1>0, <2>2, SameSession
    <3>2. Graph!At(new.sessions, s, Graph!NewSession) = session
      BY <2>1, <2>4 DEF Graph!At, Graph!With
    <3>3. OfSession(longer, P \cup {k}, s) = Q
      BY <2>2, <2>4 DEF OfSession
    <3>. QED
      BY <3>1, <3>2, <3>3
  <2>. QED
    BY <2>3, <2>4
<1>. QED
  BY <1>3, <1>4, <1>5, <1>6 DEF PieceAdds

\* Two pieces merged.
LEMMA MergedPiece ==
    ASSUME NEW list, NEW n, IsList(list, n), NEW P, IsPlaces(P, n), NEW Q, IsPlaces(Q, n), P \cap Q = {},
           NEW a, PieceAdds(list, a, P), NEW b, PieceAdds(list, b, Q), NEW new,
           DOMAIN new.days = DOMAIN a.days \cup DOMAIN b.days,
           \A d \in DOMAIN new.days :
             new.days[d] = CASE d \notin DOMAIN b.days -> a.days[d]
                             [] OTHER -> Graph!MergeDays(Graph!At(a.days, d, Graph!NewDay), b.days[d]),
           DOMAIN new.sessions = DOMAIN a.sessions \cup DOMAIN b.sessions,
           \A s \in DOMAIN new.sessions :
             new.sessions[s] \in
               CASE s \notin DOMAIN b.sessions -> {a.sessions[s]}
                 [] OTHER -> Graph!MergeSessions(Graph!At(a.sessions, s, Graph!NewSession), b.sessions[s])
    PROVE  PieceAdds(list, new, P \cup Q)
<1>0. IsList(list, n)
  OBVIOUS
<1>1. DOMAIN new.days = {list[i].day : i \in P \cup Q} /\ DOMAIN new.sessions = {list[i].session : i \in P \cup Q}
  BY DEF PieceAdds
<1>2. ASSUME NEW d PROVE DayAdds(list, Graph!At(new.days, d, Graph!NewDay), OfDay(list, P \cup Q, d))
  <2>1. PICK A, x : A = OfDay(list, P, d) /\ x = Graph!At(a.days, d, Graph!NewDay)
    OBVIOUS
  <2>2. PICK B, y : B = OfDay(list, Q, d) /\ y = Graph!At(b.days, d, Graph!NewDay)
    OBVIOUS
  <2>3. DayAdds(list, x, A) /\ DayAdds(list, y, B)
    BY <2>1, <2>2 DEF PieceAdds
  <2>4. IsPlaces(A, n) /\ IsPlaces(B, n) /\ A \cap B = {} /\ OfDay(list, P \cup Q, d) = A \cup B
    BY <2>1, <2>2 DEF OfDay, IsPlaces
  <2>5. CASE d \in DOMAIN b.days
    <3>1. Graph!At(new.days, d, Graph!NewDay) = Graph!MergeDays(x, y)
      BY <2>1, <2>2, <2>5 DEF Graph!At
    <3>2. DayAdds(list, Graph!MergeDays(x, y), A \cup B)
      BY ONLY <1>0, <2>3, <2>4, MergedDay
    <3>. QED
      BY <2>4, <3>1, <3>2
  <2>6. CASE d \notin DOMAIN b.days
    <3>1. B = {}
      BY <2>2, <2>6 DEF OfDay, PieceAdds
    <3>2. Graph!At(new.days, d, Graph!NewDay) = x
      BY <2>1, <2>6 DEF Graph!At
    <3>3. OfDay(list, P \cup Q, d) = A
      BY <2>4, <3>1
    <3>. QED
      BY <2>3, <3>2, <3>3
  <2>. QED
    BY <2>5, <2>6
<1>3. ASSUME NEW s
      PROVE  SessionAdds(list, Graph!At(new.sessions, s, Graph!NewSession), OfSession(list, P \cup Q, s))
  <2>1. PICK A, x : A = OfSession(list, P, s) /\ x = Graph!At(a.sessions, s, Graph!NewSession)
    OBVIOUS
  <2>2. PICK B, y : B = OfSession(list, Q, s) /\ y = Graph!At(b.sessions, s, Graph!NewSession)
    OBVIOUS
  <2>7. PICK z : z = Graph!At(new.sessions, s, Graph!NewSession)
    OBVIOUS
  <2>3. SessionAdds(list, x, A) /\ SessionAdds(list, y, B)
    BY <2>1, <2>2 DEF PieceAdds
  <2>4. IsPlaces(A, n) /\ IsPlaces(B, n) /\ A \cap B = {} /\ OfSession(list, P \cup Q, s) = A \cup B
    BY <2>1, <2>2 DEF OfSession, IsPlaces
  <2>5. CASE s \in DOMAIN b.sessions
    <3>1. z \in Graph!MergeSessions(x, y)
      BY <2>1, <2>2, <2>5, <2>7 DEF Graph!At
    <3>2. SessionAdds(list, z, A \cup B)
      BY ONLY <1>0, <2>3, <2>4, <3>1, MergedSession
    <3>. QED
      BY <2>4, <2>7, <3>2
  <2>6. CASE s \notin DOMAIN b.sessions
    <3>1. B = {}
      BY <2>2, <2>6 DEF OfSession, PieceAdds
    <3>2. z = x
      BY <2>1, <2>6, <2>7 DEF Graph!At
    <3>3. OfSession(list, P \cup Q, s) = A
      BY <2>4, <3>1
    <3>. QED
      BY <2>3, <2>7, <3>2, <3>3
  <2>. QED
    BY <2>5, <2>6
<1>. QED
  BY <1>1, <1>2, <1>3 DEF PieceAdds

-------------------------------------------------------------------------------
\* Every message stands in the accounts of one piece: these places for each piece.
Accounts(list, n, parts, places) ==
    /\ DOMAIN places = 1..Len(parts)
    /\ \A j \in 1..Len(parts) : IsPlaces(places[j], n) /\ PieceAdds(list, parts[j], places[j])
    /\ \A i, j \in 1..Len(parts) : i # j => places[i] \cap places[j] = {}
    /\ \A x \in 1..n : \E j \in 1..Len(parts) : x \in places[j]

\* The pieces account for the messages told.
AccountsInv ==
    /\ told \in Seq(GraphMessages)
    /\ \E places : Accounts(told, Len(told), pieces, places)

\* A sequence of messages is a list of them.
LEMMA ListOf ==
    ASSUME NEW list \in Seq(GraphMessages)
    PROVE  IsList(list, Len(list))
  BY DEF IsList

\* A message told is one message more.
LEMMA AppendedList ==
    ASSUME NEW list \in Seq(GraphMessages), NEW m \in GraphMessages, NEW longer, longer = Append(list, m)
    PROVE  /\ longer \in Seq(GraphMessages) /\ Len(longer) = Len(list) + 1 /\ longer[Len(longer)] = m
           /\ OneLonger(list, Len(list), longer, Len(longer))
<1>1. longer \in Seq(GraphMessages) /\ Len(longer) = Len(list) + 1 /\ longer[Len(longer)] = m
  OBVIOUS
<1>2. \A i \in 1..Len(list) : longer[i] = list[i]
  OBVIOUS
<1>3. IsList(list, Len(list)) /\ IsList(longer, Len(longer))
  BY <1>1, ListOf
<1>. QED
  BY <1>1, <1>2, <1>3 DEF OneLonger

\* A sequence of N elements with one in place of the two neighbours at i.
IsReplaced(s, N, i, x, t) ==
    /\ N = Len(s) /\ i \in 1..(N - 1)
    /\ t = SubSeq(s, 1, i - 1) \o <<x>> \o SubSeq(s, i + 2, N)

\* What it has at its places.
LEMMA Replaced ==
    ASSUME NEW X, NEW s, s \in Seq(X), NEW x, x \in X, NEW N, NEW i, NEW t, IsReplaced(s, N, i, x, t)
    PROVE  /\ Len(t) = N - 1
           /\ \A j \in 1..(N - 1) : t[j] = IF j < i THEN s[j] ELSE IF j = i THEN x ELSE s[j + 1]
<1>12. N = Len(s) /\ i \in 1..(N - 1) /\ t = SubSeq(s, 1, i - 1) \o <<x>> \o SubSeq(s, i + 2, N)
  BY DEF IsReplaced
<1>0. N \in Nat /\ i \in Nat /\ i <= N - 1 /\ i > 0
  BY <1>12
<1>1. PICK a : a = SubSeq(s, 1, i - 1)
  OBVIOUS
<1>2. PICK b : b = SubSeq(s, i + 2, N)
  OBVIOUS
<1>3. a \in Seq(X) /\ Len(a) = i - 1 /\ \A j \in 1..(i - 1) : a[j] = s[j]
  BY <1>1, <1>12
<1>4. b \in Seq(X) /\ Len(b) = N - i - 1 /\ \A j \in 1..(N - i - 1) : b[j] = s[j + i + 1]
  BY <1>2, <1>12
<1>5. PICK c : c = a \o <<x>>
  OBVIOUS
<1>6. c \in Seq(X) /\ Len(c) = i /\ c[i] = x /\ \A j \in 1..(i - 1) : c[j] = s[j]
  BY <1>0, <1>3, <1>5
<1>7. t = c \o b
  BY <1>1, <1>2, <1>5, <1>12
<1>11. b \in Seq(X) /\ c \in Seq(X)
  BY <1>4, <1>6
<1>8. /\ Len(t) = Len(c) + Len(b)
      /\ \A j \in 1..Len(c) : t[j] = c[j]
      /\ \A h \in 1..Len(b) : t[Len(c) + h] = b[h]
  <2>1. Len(c \o b) = Len(c) + Len(b)
    BY ONLY <1>11
  <2>2. \A j \in 1..Len(c) : (c \o b)[j] = c[j]
    BY ONLY <1>11
  <2>3. \A h \in 1..Len(b) : (c \o b)[Len(c) + h] = b[h]
    BY ONLY <1>11
  <2>. QED
    BY <1>7, <2>1, <2>2, <2>3
<1>9. Len(t) = N - 1
  <2>1. Len(t) = i + (N - i - 1)
    BY <1>4, <1>6, <1>8
  <2>. QED
    BY <1>0, <2>1
<1>10. ASSUME NEW j \in 1..(N - 1) PROVE t[j] = IF j < i THEN s[j] ELSE IF j = i THEN x ELSE s[j + 1]
  <2>0. j \in Nat /\ j > 0 /\ j <= N - 1
    BY <1>0
  <2>1. CASE j < i
    <3>1. j \in 1..Len(c) /\ j \in 1..(i - 1)
      BY <1>0, <1>6, <2>0, <2>1
    <3>2. t[j] = c[j]
      BY <1>8, <3>1
    <3>3. c[j] = s[j]
      BY <1>6, <3>1
    <3>. QED
      BY <2>1, <3>2, <3>3
  <2>2. CASE j = i
    <3>1. j \in 1..Len(c)
      BY <1>0, <1>6, <2>0, <2>2
    <3>2. t[j] = c[j]
      BY <1>8, <3>1
    <3>3. ~(j < i)
      BY <1>0, <2>2
    <3>. QED
      BY <1>6, <2>2, <3>2, <3>3
  <2>3. CASE j > i
    <3>1. PICK h : h = j - i
      OBVIOUS
    <3>2. h \in 1..Len(b) /\ h \in 1..(N - i - 1) /\ j = Len(c) + h /\ h + i + 1 = j + 1
      BY <1>0, <1>4, <1>6, <2>0, <2>3, <3>1
    <3>3. t[Len(c) + h] = b[h]
      BY <1>8, <3>2
    <3>4. b[h] = s[h + i + 1]
      BY <1>4, <3>2
    <3>5. ~(j < i) /\ j # i
      BY <1>0, <2>0, <2>3
    <3>. QED
      BY <3>2, <3>3, <3>4, <3>5
  <2>4. j < i \/ j = i \/ j > i
    BY <1>0, <2>0
  <2>. QED
    BY <2>1, <2>2, <2>3, <2>4
<1>. QED
  BY <1>9, <1>10

\* No message is told, and the one piece has none.
LEMMA InitAccounts ==
    ASSUME Graph!Init
    PROVE  AccountsInv
<1>1. PICK new : new = Graph!NewPiece
  OBVIOUS
<1>2. told = <<>> /\ pieces = <<new>>
  BY <1>1 DEF Graph!Init
<1>3. told \in Seq(GraphMessages) /\ Len(told) = 0 /\ Len(pieces) = 1 /\ pieces[1] = new
  BY <1>2
<1>4. IsList(told, 0)
  BY <1>3, ListOf
<1>5. PieceAdds(told, new, {})
  BY <1>1, <1>4, NoPiece
<1>6. PICK places : places = [j \in 1..1 |-> {}]
  OBVIOUS
<1>7. DOMAIN places = 1..1 /\ \A j \in 1..1 : places[j] = {} /\ j = 1
  BY <1>6
<1>8. Accounts(told, 0, pieces, places)
  BY <1>3, <1>5, <1>7 DEF Accounts, IsPlaces
<1>. QED
  BY <1>3, <1>8 DEF AccountsInv

\* A message told.
LEMMA AddAccounts ==
    ASSUME PiecesInv, AccountsInv, NEW m \in GraphMessages, Graph!Add(m)
    PROVE  AccountsInv'
<1>1. PICK X : pieces \in Seq(X) /\ Len(pieces) > 0
  BY DEF PiecesInv
<1>2. PICK places : told \in Seq(GraphMessages) /\ Accounts(told, Len(told), pieces, places)
  BY DEF AccountsInv
<1>3. PICK last : last = Len(pieces)
  OBVIOUS
<1>4. PICK piece : piece = pieces[last]
  OBVIOUS
<1>5. Graph!Last(pieces) = piece
  BY <1>3, <1>4 DEF Graph!Last
<1>6. PICK new :
        new = [days |-> Graph!With(piece.days, m.day, Graph!AddToDay(Graph!At(piece.days, m.day, Graph!NewDay), m)),
               sessions |-> Graph!With(piece.sessions, m.session,
                              Graph!AddToSession(Graph!At(piece.sessions, m.session, Graph!NewSession), m))]
  OBVIOUS
<1>7. pieces' = [pieces EXCEPT ![last] = new] /\ told' = Append(told, m)
  BY <1>3, <1>5, <1>6 DEF Graph!Add
<1>8. last \in 1..last /\ Len(pieces') = last /\ \A j \in 1..last : pieces'[j] = IF j = last THEN new ELSE pieces[j]
  BY <1>1, <1>3, <1>7
<1>9. PICK n, k : n = Len(told) /\ k = Len(told')
  OBVIOUS
<1>10. OneLonger(told, n, told', k) /\ told' \in Seq(GraphMessages) /\ told'[k] = m /\ k = n + 1 /\ n \in Nat
  <2>1. PICK longer : longer = told'
    OBVIOUS
  <2>2. told \in Seq(GraphMessages) /\ m \in GraphMessages /\ longer = Append(told, m)
    BY <1>2, <1>7, <2>1
  <2>3. /\ longer \in Seq(GraphMessages) /\ Len(longer) = Len(told) + 1 /\ longer[Len(longer)] = m
        /\ OneLonger(told, Len(told), longer, Len(longer))
    BY ONLY <2>2, AppendedList
  <2>4. Len(told) \in Nat
    BY <2>2
  <2>. QED
    BY <1>9, <2>1, <2>3, <2>4
<1>11. PICK newPlaces : newPlaces = [j \in 1..last |-> IF j = last THEN places[j] \cup {k} ELSE places[j]]
  OBVIOUS
<1>12. \A j \in 1..last : IsPlaces(places[j], n) /\ PieceAdds(told, pieces[j], places[j])
  BY <1>2, <1>3, <1>9 DEF Accounts
<1>13. PieceAdds(told', new, places[last] \cup {k})
  <2>1. PICK P : P = places[last]
    OBVIOUS
  <2>2. OneLonger(told, n, told', k) /\ IsPlaces(P, n) /\ PieceAdds(told, piece, P) /\ m = told'[k]
    BY <1>4, <1>8, <1>10, <1>12, <2>1
  <2>3. /\ new.days = Graph!With(piece.days, m.day, Graph!AddToDay(Graph!At(piece.days, m.day, Graph!NewDay), m))
        /\ new.sessions = Graph!With(piece.sessions, m.session,
                            Graph!AddToSession(Graph!At(piece.sessions, m.session, Graph!NewSession), m))
    BY <1>6
  <2>4. PieceAdds(told', new, P \cup {k})
    BY ONLY <2>2, <2>3, AddedPiece
  <2>. QED
    BY <2>1, <2>4
<1>14. ASSUME NEW j \in 1..last PROVE IsPlaces(newPlaces[j], k) /\ PieceAdds(told', pieces'[j], newPlaces[j])
  <2>1. IsPlaces(newPlaces[j], k)
    BY <1>10, <1>11, <1>12 DEF IsPlaces
  <2>2. CASE j = last
    BY <1>8, <1>11, <1>13, <2>1, <2>2
  <2>3. CASE j # last
    <3>1. PICK P, same : P = places[j] /\ same = pieces[j]
      OBVIOUS
    <3>2. OneLonger(told, n, told', k) /\ IsPlaces(P, n) /\ PieceAdds(told, same, P)
      BY <1>10, <1>12, <3>1
    <3>3. PieceAdds(told', same, P)
      BY ONLY <3>2, SamePiece
    <3>. QED
      BY <1>8, <1>11, <2>1, <2>3, <3>1, <3>3
  <2>. QED
    BY <2>2, <2>3
<1>15. ASSUME NEW i \in 1..last, NEW j \in 1..last, i # j PROVE newPlaces[i] \cap newPlaces[j] = {}
  <2>1. places[i] \cap places[j] = {} /\ k \notin places[i] /\ k \notin places[j]
    <3>1. places[i] \cap places[j] = {}
      BY <1>2, <1>3, <1>15 DEF Accounts
    <3>2. k \notin 1..n
      BY <1>10
    <3>. QED
      BY <1>12, <3>1, <3>2 DEF IsPlaces
  <2>. QED
    BY <1>11, <1>15, <2>1
<1>16. ASSUME NEW x \in 1..k PROVE \E j \in 1..last : x \in newPlaces[j]
  <2>1. CASE x = k
    BY <1>8, <1>11, <2>1
  <2>2. CASE x # k
    <3>1. x \in 1..n
      BY <1>10, <2>2
    <3>2. PICK j \in 1..last : x \in places[j]
      BY <1>2, <1>3, <1>9, <3>1 DEF Accounts
    <3>. QED
      BY <1>11, <3>2
  <2>. QED
    BY <2>1, <2>2
<1>17. Accounts(told', k, pieces', newPlaces)
  BY <1>8, <1>11, <1>14, <1>15, <1>16 DEF Accounts
<1>. QED
  BY <1>9, <1>10, <1>17 DEF AccountsInv

\* Another piece.
LEMMA SplitAccounts ==
    ASSUME PiecesInv, AccountsInv, Graph!Split
    PROVE  AccountsInv'
<1>1. PICK X : pieces \in Seq(X) /\ Len(pieces) > 0
  BY DEF PiecesInv
<1>2. PICK places : told \in Seq(GraphMessages) /\ Accounts(told, Len(told), pieces, places)
  BY DEF AccountsInv
<1>3. PICK new : new = Graph!NewPiece
  OBVIOUS
<1>4. PICK n, last : n = Len(told) /\ last = Len(pieces)
  OBVIOUS
<1>5. pieces' = Append(pieces, new) /\ told' = told
  BY <1>3 DEF Graph!Split
<1>6. /\ last \in Nat /\ Len(pieces') = last + 1 /\ pieces'[last + 1] = new
      /\ \A j \in 1..last : pieces'[j] = pieces[j]
  BY <1>1, <1>4, <1>5
<1>7. PieceAdds(told, new, {})
  BY <1>2, <1>3, ListOf, NoPiece
<1>8. PICK newPlaces : newPlaces = [j \in 1..(last + 1) |-> IF j = last + 1 THEN {} ELSE places[j]]
  OBVIOUS
<1>9. ASSUME NEW j \in 1..(last + 1) PROVE IsPlaces(newPlaces[j], n) /\ PieceAdds(told, pieces'[j], newPlaces[j])
  <2>1. CASE j = last + 1
    BY <1>6, <1>7, <1>8, <2>1 DEF IsPlaces
  <2>2. CASE j # last + 1
    <3>1. j \in 1..last
      BY <1>6, <2>2
    <3>2. IsPlaces(places[j], n) /\ PieceAdds(told, pieces[j], places[j])
      BY <1>2, <1>4, <3>1 DEF Accounts
    <3>. QED
      BY <1>6, <1>8, <2>2, <3>1, <3>2
  <2>. QED
    BY <2>1, <2>2
<1>10. ASSUME NEW i \in 1..(last + 1), NEW j \in 1..(last + 1), i # j PROVE newPlaces[i] \cap newPlaces[j] = {}
  <2>1. CASE i = last + 1 \/ j = last + 1
    BY <1>8, <2>1
  <2>2. CASE ~(i = last + 1 \/ j = last + 1)
    <3>1. i \in 1..last /\ j \in 1..last
      BY <1>6, <2>2
    <3>2. places[i] \cap places[j] = {}
      BY <1>2, <1>4, <1>10, <3>1 DEF Accounts
    <3>. QED
      BY <1>8, <2>2, <3>2
  <2>. QED
    BY <2>1, <2>2
<1>11. ASSUME NEW x \in 1..n PROVE \E j \in 1..(last + 1) : x \in newPlaces[j]
  <2>1. PICK j \in 1..last : x \in places[j]
    BY <1>2, <1>4 DEF Accounts
  <2>2. j \in 1..(last + 1) /\ j # last + 1
    BY <1>6
  <2>. QED
    BY <1>8, <2>1, <2>2
<1>12. Accounts(told', n, pieces', newPlaces)
  BY <1>5, <1>6, <1>8, <1>9, <1>10, <1>11 DEF Accounts
<1>. QED
  BY <1>2, <1>4, <1>5, <1>12 DEF AccountsInv

\* Two neighbours made one.
LEMMA ReduceAccounts ==
    ASSUME PiecesInv, AccountsInv, NEW i \in 1..(Len(pieces) - 1), Graph!Reduce(i)
    PROVE  AccountsInv'
<1>1. PICK X : pieces \in Seq(X) /\ Len(pieces) > 0
  BY DEF PiecesInv
<1>2. PICK places : told \in Seq(GraphMessages) /\ Accounts(told, Len(told), pieces, places)
  BY DEF AccountsInv
<1>3. PICK a, b : a = pieces[i] /\ b = pieces[i + 1]
  OBVIOUS
<1>4. PICK days :
        /\ DOMAIN days = DOMAIN a.days \cup DOMAIN b.days
        /\ \A d \in DOMAIN days :
             days[d] = CASE d \notin DOMAIN b.days -> a.days[d]
                         [] OTHER -> Graph!MergeDays(Graph!At(a.days, d, Graph!NewDay), b.days[d])
        /\ \E sessions :
             /\ DOMAIN sessions = DOMAIN a.sessions \cup DOMAIN b.sessions
             /\ \A s \in DOMAIN sessions :
                  sessions[s] \in
                    CASE s \notin DOMAIN b.sessions -> {a.sessions[s]}
                      [] OTHER -> Graph!MergeSessions(Graph!At(a.sessions, s, Graph!NewSession), b.sessions[s])
             /\ pieces' = SubSeq(pieces, 1, i - 1) \o <<[days |-> days, sessions |-> sessions]>>
                          \o SubSeq(pieces, i + 2, Len(pieces))
  <2>1. PICK days : days = [d \in DOMAIN a.days \cup DOMAIN b.days |->
                              CASE d \notin DOMAIN b.days -> a.days[d]
                                [] OTHER -> Graph!MergeDays(Graph!At(a.days, d, Graph!NewDay), b.days[d])]
    OBVIOUS
  <2>2. \E sessions :
          /\ DOMAIN sessions = DOMAIN a.sessions \cup DOMAIN b.sessions
          /\ \A s \in DOMAIN sessions :
               sessions[s] \in
                 CASE s \notin DOMAIN b.sessions -> {a.sessions[s]}
                   [] OTHER -> Graph!MergeSessions(Graph!At(a.sessions, s, Graph!NewSession), b.sessions[s])
          /\ pieces' = SubSeq(pieces, 1, i - 1) \o <<[days |-> days, sessions |-> sessions]>>
                       \o SubSeq(pieces, i + 2, Len(pieces))
    BY <1>3, <2>1 DEF Graph!Reduce
  <2>3. DOMAIN days = DOMAIN a.days \cup DOMAIN b.days
    BY <2>1
  <2>4. \A d \in DOMAIN days :
          days[d] = CASE d \notin DOMAIN b.days -> a.days[d]
                      [] OTHER -> Graph!MergeDays(Graph!At(a.days, d, Graph!NewDay), b.days[d])
    BY <2>1
  <2>. QED
    BY <2>2, <2>3, <2>4
<1>5. PICK sessions :
        /\ DOMAIN sessions = DOMAIN a.sessions \cup DOMAIN b.sessions
        /\ \A s \in DOMAIN sessions :
             sessions[s] \in
               CASE s \notin DOMAIN b.sessions -> {a.sessions[s]}
                 [] OTHER -> Graph!MergeSessions(Graph!At(a.sessions, s, Graph!NewSession), b.sessions[s])
        /\ pieces' = SubSeq(pieces, 1, i - 1) \o <<[days |-> days, sessions |-> sessions]>>
                     \o SubSeq(pieces, i + 2, Len(pieces))
  BY <1>4
<1>6. PICK new : new = [days |-> days, sessions |-> sessions]
  OBVIOUS
<1>7. PICK n, last : n = Len(told) /\ last = Len(pieces)
  OBVIOUS
<1>8. told' = told
  BY DEF Graph!Reduce
<1>9. /\ last \in Nat /\ i \in 1..(last - 1) /\ Len(pieces') = last - 1
      /\ \A j \in 1..(last - 1) : pieces'[j] = IF j < i THEN pieces[j] ELSE IF j = i THEN new ELSE pieces[j + 1]
  <2>1. PICK Y : Y = X \cup {new}
    OBVIOUS
  <2>2. pieces \in Seq(Y) /\ new \in Y /\ last = Len(pieces) /\ i \in 1..(last - 1)
    BY <1>1, <1>7, <2>1
  <2>3. PICK t : t = pieces'
    OBVIOUS
  <2>4. IsReplaced(pieces, last, i, new, t)
    BY <1>5, <1>6, <1>7, <2>2, <2>3 DEF IsReplaced
  <2>5. /\ Len(t) = last - 1
        /\ \A j \in 1..(last - 1) : t[j] = IF j < i THEN pieces[j] ELSE IF j = i THEN new ELSE pieces[j + 1]
    BY ONLY <2>2, <2>4, Replaced
  <2>6. last \in Nat
    BY <1>1, <1>7
  <2>. QED
    BY <2>2, <2>3, <2>5, <2>6
<1>10. PICK newPlaces : newPlaces = [j \in 1..(last - 1) |->
                          IF j < i THEN places[j] ELSE IF j = i THEN places[i] \cup places[i + 1] ELSE places[j + 1]]
  OBVIOUS
<1>11. \A j \in 1..last : IsPlaces(places[j], n) /\ PieceAdds(told, pieces[j], places[j])
  BY <1>2, <1>7 DEF Accounts
<1>12. \A j, h \in 1..last : j # h => places[j] \cap places[h] = {}
  BY <1>2, <1>7 DEF Accounts
<1>13. i \in 1..last /\ i + 1 \in 1..last /\ i # i + 1
  BY <1>9
<1>14. PieceAdds(told, new, places[i] \cup places[i + 1])
  <2>1. PICK P, Q : P = places[i] /\ Q = places[i + 1]
    OBVIOUS
  <2>2. IsList(told, n) /\ IsPlaces(P, n) /\ IsPlaces(Q, n) /\ P \cap Q = {} /\ PieceAdds(told, a, P) /\ PieceAdds(told, b, Q)
    BY <1>2, <1>3, <1>7, <1>11, <1>12, <1>13, <2>1, ListOf
  <2>3. /\ DOMAIN new.days = DOMAIN a.days \cup DOMAIN b.days
        /\ \A d \in DOMAIN new.days :
             new.days[d] = CASE d \notin DOMAIN b.days -> a.days[d]
                             [] OTHER -> Graph!MergeDays(Graph!At(a.days, d, Graph!NewDay), b.days[d])
    BY <1>4, <1>6
  <2>4. /\ DOMAIN new.sessions = DOMAIN a.sessions \cup DOMAIN b.sessions
        /\ \A s \in DOMAIN new.sessions :
             new.sessions[s] \in
               CASE s \notin DOMAIN b.sessions -> {a.sessions[s]}
                 [] OTHER -> Graph!MergeSessions(Graph!At(a.sessions, s, Graph!NewSession), b.sessions[s])
    BY <1>5, <1>6
  <2>5. PieceAdds(told, new, P \cup Q)
    BY ONLY <2>2, <2>3, <2>4, MergedPiece
  <2>. QED
    BY <2>1, <2>5
<1>15. ASSUME NEW j \in 1..(last - 1) PROVE IsPlaces(newPlaces[j], n) /\ PieceAdds(told, pieces'[j], newPlaces[j])
  <2>0. j \in 1..last /\ j + 1 \in 1..last
    BY <1>9
  <2>1. CASE j < i
    BY <1>9, <1>10, <1>11, <2>0, <2>1
  <2>2. CASE j = i
    <3>1. IsPlaces(places[i] \cup places[i + 1], n)
      BY <1>11, <1>13 DEF IsPlaces
    <3>. QED
      BY <1>9, <1>10, <1>14, <2>2, <3>1
  <2>3. CASE j > i
    BY <1>9, <1>10, <1>11, <2>0, <2>3
  <2>. QED
    BY <1>9, <2>1, <2>2, <2>3
<1>16. ASSUME NEW j \in 1..(last - 1), NEW h \in 1..(last - 1), j # h PROVE newPlaces[j] \cap newPlaces[h] = {}
  <2>1. j \in 1..last /\ j + 1 \in 1..last /\ h \in 1..last /\ h + 1 \in 1..last
    BY <1>9
  <2>2. SUFFICES ASSUME NEW x, x \in newPlaces[j], x \in newPlaces[h] PROVE FALSE
    OBVIOUS
  <2>3. PICK p \in 1..last : x \in places[p] /\ ((p = j /\ j <= i) \/ (p = j + 1 /\ j >= i))
    <3>0. newPlaces[j] = IF j < i THEN places[j] ELSE IF j = i THEN places[i] \cup places[i + 1] ELSE places[j + 1]
      BY <1>10
    <3>1. CASE j < i
      BY <1>9, <2>1, <2>2, <3>0, <3>1
    <3>2. CASE j = i
      BY <1>9, <2>1, <2>2, <3>0, <3>2
    <3>3. CASE j > i
      BY <1>9, <2>1, <2>2, <3>0, <3>3
    <3>. QED
      BY <1>9, <3>1, <3>2, <3>3
  <2>4. PICK q \in 1..last : x \in places[q] /\ ((q = h /\ h <= i) \/ (q = h + 1 /\ h >= i))
    <3>0. newPlaces[h] = IF h < i THEN places[h] ELSE IF h = i THEN places[i] \cup places[i + 1] ELSE places[h + 1]
      BY <1>10
    <3>1. CASE h < i
      BY <1>9, <2>1, <2>2, <3>0, <3>1
    <3>2. CASE h = i
      BY <1>9, <2>1, <2>2, <3>0, <3>2
    <3>3. CASE h > i
      BY <1>9, <2>1, <2>2, <3>0, <3>3
    <3>. QED
      BY <1>9, <3>1, <3>2, <3>3
  <2>5. p # q
    BY <1>9, <1>16, <2>3, <2>4
  <2>. QED
    BY <1>12, <2>3, <2>4, <2>5
<1>17. ASSUME NEW x \in 1..n PROVE \E j \in 1..(last - 1) : x \in newPlaces[j]
  <2>1. PICK p \in 1..last : x \in places[p]
    BY <1>2, <1>7 DEF Accounts
  <2>2. CASE p <= i
    BY <1>9, <1>10, <2>1, <2>2
  <2>3. CASE p > i
    <3>1. p - 1 \in 1..(last - 1) /\ p - 1 >= i /\ (p - 1) + 1 = p
      BY <1>9, <2>3
    <3>2. x \in newPlaces[p - 1]
      BY <1>9, <1>10, <2>1, <3>1
    <3>. QED
      BY <3>1, <3>2
  <2>. QED
    BY <1>9, <2>2, <2>3
<1>18. Accounts(told', n, pieces', newPlaces)
  BY <1>8, <1>9, <1>10, <1>15, <1>16, <1>17 DEF Accounts
<1>. QED
  BY <1>2, <1>7, <1>8, <1>18 DEF AccountsInv

\* A whole report accounts for all messages.
LEMMA AccountsAddUp ==
    ASSUME AccountsInv
    PROVE  Graph!PiecesAddUp
<1>1. SUFFICES ASSUME Len(pieces) = 1 PROVE Graph!PiecesAddUp
  BY DEF Graph!PiecesAddUp
<1>2. PICK accounts : told \in Seq(GraphMessages) /\ Accounts(told, Len(told), pieces, accounts)
  BY DEF AccountsInv
<1>3. PICK all, report : all = DOMAIN told /\ report = pieces[1]
  OBVIOUS
<1>4. all = 1..Len(told) /\ IsList(told, Len(told))
  BY <1>2, <1>3, ListOf
<1>5. PieceAdds(told, report, all)
  <2>1. \A j \in 1..1 : j = 1
    OBVIOUS
  <2>2. IsPlaces(accounts[1], Len(told)) /\ PieceAdds(told, pieces[1], accounts[1])
    BY <1>1, <1>2, <2>1 DEF Accounts
  <2>3. \A x \in 1..Len(told) : x \in accounts[1]
    BY <1>1, <1>2, <2>1 DEF Accounts
  <2>4. accounts[1] = all
    BY <1>4, <2>2, <2>3 DEF IsPlaces
  <2>. QED
    BY <1>3, <2>2, <2>4
<1>6. DOMAIN report.days = {told[i].day : i \in all} /\ DOMAIN report.sessions = {told[i].session : i \in all}
  BY <1>5 DEF PieceAdds
<1>7. ASSUME NEW d \in DOMAIN report.days, NEW day, day = report.days[d]
      PROVE  /\ day.totals = Graph!Together(told, Graph!Of("day", d))
             /\ DOMAIN day.clients = {Graph!DayClient(told[i]) : i \in Graph!Of("day", d)}
             /\ \A c \in DOMAIN day.clients :
                  /\ day.clients[c].amount = Graph!Together(told, Graph!Of("dayClient", <<d, c>>))
                  /\ day.clients[c].providers = {told[i].provider : i \in Graph!Of("dayClient", <<d, c>>)}
             /\ \A c : Graph!At(day.turns, c, 0) = Graph!Min({MAX, Cardinality(Graph!Of("turns", <<d, c>>))})
  <2>1. PICK P : P = OfDay(told, all, d)
    OBVIOUS
  <2>2. DayAdds(told, day, P)
    BY <1>5, <1>7, <2>1 DEF PieceAdds, Graph!At
  <2>3. Graph!Of("day", d) = P
    BY <1>3, <2>1 DEF Graph!Of, OfDay
  <2>4. \A c : Graph!Of("dayClient", <<d, c>>) = OfClient(told, P, c)
    BY <1>3, <2>1 DEF Graph!Of, OfDay, OfClient
  <2>5. \A c : Graph!Of("turns", <<d, c>>) = TurnsOf(told, P, c)
    BY <1>3, <2>1 DEF Graph!Of, OfDay, TurnsOf
  <2>6. day.totals = Graph!Together(told, P) /\ DOMAIN day.clients = {Graph!DayClient(told[i]) : i \in P}
    BY <2>2 DEF DayAdds
  <2>7. ASSUME NEW c \in DOMAIN day.clients
        PROVE  /\ day.clients[c].amount = Graph!Together(told, OfClient(told, P, c))
               /\ day.clients[c].providers = {told[i].provider : i \in OfClient(told, P, c)}
    <3>1. Graph!At(day.clients, c, Graph!NewClient) =
            [amount |-> Graph!Together(told, OfClient(told, P, c)),
             providers |-> {told[i].provider : i \in OfClient(told, P, c)}]
      BY <2>2 DEF DayAdds
    <3>2. Graph!At(day.clients, c, Graph!NewClient) = day.clients[c]
      BY <2>7 DEF Graph!At
    <3>. QED
      BY <3>1, <3>2
  <2>8. ASSUME NEW c PROVE Graph!At(day.turns, c, 0) = Graph!Min({MAX, Cardinality(TurnsOf(told, P, c))})
    <3>1. PICK Q : Q = TurnsOf(told, P, c)
      OBVIOUS
    <3>2. Q \subseteq 1..Len(told) /\ Len(told) \in Nat
      BY <1>2, <1>4, <2>1, <3>1 DEF TurnsOf, OfDay
    <3>3. Cardinality(Q) \in Nat
      BY ONLY <3>2, PlacesCount
    <3>4. Graph!Min({MAX, Cardinality(Q)}) = Cut(Cardinality(Q))
      BY <3>3, CutSums
    <3>. QED
      BY <2>2, <3>1, <3>4 DEF DayAdds
  <2>. QED
    BY <2>3, <2>4, <2>5, <2>6, <2>7, <2>8
<1>8. ASSUME NEW s \in DOMAIN report.sessions, NEW session, session = report.sessions[s]
      PROVE  /\ session.totals = Graph!Together(told, Graph!Of("session", s))
             /\ session.first = Graph!Min({told[i].time : i \in Graph!Of("session", s)})
             /\ session.last = Graph!Max({told[i].time : i \in Graph!Of("session", s)})
             /\ DOMAIN session.clients = {Graph!SessionClient(told[i]) : i \in Graph!Of("session", s)}
             /\ \A c \in DOMAIN session.clients :
                  session.clients[c] = Graph!Together(told, Graph!Of("sessionClient", <<s, c>>))
  <2>1. PICK P : P = OfSession(told, all, s)
    OBVIOUS
  <2>2. SessionAdds(told, session, P)
    BY <1>5, <1>8, <2>1 DEF PieceAdds, Graph!At
  <2>3. Graph!Of("session", s) = P
    BY <1>3, <2>1 DEF Graph!Of, OfSession
  <2>4. \A c : Graph!Of("sessionClient", <<s, c>>) = OfSessionClient(told, P, c)
    BY <1>3, <2>1 DEF Graph!Of, OfSession, OfSessionClient
  <2>5. /\ session.totals = Graph!Together(told, P)
        /\ DOMAIN session.clients = {Graph!SessionClient(told[i]) : i \in P}
    BY <2>2 DEF SessionAdds
  <2>6. \A c \in DOMAIN session.clients : session.clients[c] = Graph!Together(told, OfSessionClient(told, P, c))
    BY <2>2 DEF SessionAdds, Graph!At
  <2>7. PICK moments : moments = {told[i].time : i \in P}
    OBVIOUS
  <2>8. Spans(told, session, P)
    BY <2>2 DEF SessionAdds
  <2>9. \A t \in moments : /\ t \in Int /\ MAX \in Nat /\ Graph!MIN \in Int /\ Graph!MIN <= t /\ t <= MAX
                           /\ session.first <= t /\ t <= session.last
    BY <1>4, <2>1, <2>7, <2>8, TimesOf DEF OfSession, Spans, IsTime
  <2>10. PICK t : t \in moments
    <3>1. PICK i \in all : s = told[i].session
      BY <1>6, <1>8
    <3>2. i \in P
      BY <2>1, <3>1 DEF OfSession
    <3>. QED
      BY <2>7, <3>2
  <2>11. session.first \in moments
    <3>1. session.first = MAX => session.first = t
      BY <2>9, <2>10
    <3>. QED
      BY <2>7, <2>8, <2>10, <3>1 DEF Spans
  <2>12. session.last \in moments
    <3>1. session.last = Graph!MIN => session.last = t
      BY <2>9, <2>10
    <3>. QED
      BY <2>7, <2>8, <2>10, <3>1 DEF Spans
  <2>13. session.first = Graph!Min(moments)
    <3>1. Graph!Min(moments) \in moments /\ \A x \in moments : Graph!Min(moments) <= x
      BY <2>9, <2>11 DEF Graph!Min
    <3>. QED
      BY <2>9, <2>11, <3>1
  <2>14. session.last = Graph!Max(moments)
    <3>1. Graph!Max(moments) \in moments /\ \A x \in moments : Graph!Max(moments) >= x
      BY <2>9, <2>12 DEF Graph!Max
    <3>. QED
      BY <2>9, <2>12, <3>1
  <2>. QED
    BY <2>3, <2>4, <2>5, <2>6, <2>7, <2>13, <2>14
<1>9. ASSUME NEW d \in DOMAIN report.days
      PROVE  LET day == report.days[d]
             IN  /\ day.totals = Graph!Together(told, Graph!Of("day", d))
                 /\ DOMAIN day.clients = {Graph!DayClient(told[i]) : i \in Graph!Of("day", d)}
                 /\ \A c \in DOMAIN day.clients :
                      LET places == Graph!Of("dayClient", <<d, c>>)
                      IN  /\ day.clients[c].amount = Graph!Together(told, places)
                          /\ day.clients[c].providers = {told[i].provider : i \in places}
                 /\ \A c \in {m.client : m \in GraphMessages} :
                      Graph!At(day.turns, c, 0) = Graph!Min({MAX, Graph!Cardinality(Graph!Of("turns", <<d, c>>))})
  <2>1. PICK day : day = report.days[d]
    OBVIOUS
  <2>2. \A S : Graph!Cardinality(S) = Cardinality(S)
    BY DEF Graph!Cardinality, Cardinality
  <2>. QED
    BY <1>7, <2>1, <2>2
<1>10. ASSUME NEW s \in DOMAIN report.sessions
       PROVE  LET session == report.sessions[s]
                  moments == {told[i].time : i \in Graph!Of("session", s)}
              IN  /\ session.totals = Graph!Together(told, Graph!Of("session", s))
                  /\ session.first = Graph!Min(moments) /\ session.last = Graph!Max(moments)
                  /\ DOMAIN session.clients = {Graph!SessionClient(told[i]) : i \in Graph!Of("session", s)}
                  /\ \A c \in DOMAIN session.clients :
                       session.clients[c] = Graph!Together(told, Graph!Of("sessionClient", <<s, c>>))
  BY <1>8
<1>11. /\ DOMAIN pieces[1].days = {told[i].day : i \in DOMAIN told}
       /\ DOMAIN pieces[1].sessions = {told[i].session : i \in DOMAIN told}
  BY <1>3, <1>6
<1>12. \A d \in DOMAIN pieces[1].days :
         LET day == pieces[1].days[d]
         IN  /\ day.totals = Graph!Together(told, Graph!Of("day", d))
             /\ DOMAIN day.clients = {Graph!DayClient(told[i]) : i \in Graph!Of("day", d)}
             /\ \A c \in DOMAIN day.clients :
                  LET places == Graph!Of("dayClient", <<d, c>>)
                  IN  /\ day.clients[c].amount = Graph!Together(told, places)
                      /\ day.clients[c].providers = {told[i].provider : i \in places}
             /\ \A c \in {m.client : m \in GraphMessages} :
                  Graph!At(day.turns, c, 0) = Graph!Min({MAX, Graph!Cardinality(Graph!Of("turns", <<d, c>>))})
  BY <1>3, <1>9
<1>13. \A s \in DOMAIN pieces[1].sessions :
         LET session == pieces[1].sessions[s]
             moments == {told[i].time : i \in Graph!Of("session", s)}
         IN  /\ session.totals = Graph!Together(told, Graph!Of("session", s))
             /\ session.first = Graph!Min(moments) /\ session.last = Graph!Max(moments)
             /\ DOMAIN session.clients = {Graph!SessionClient(told[i]) : i \in Graph!Of("session", s)}
             /\ \A c \in DOMAIN session.clients :
                  session.clients[c] = Graph!Together(told, Graph!Of("sessionClient", <<s, c>>))
  BY <1>3, <1>10
<1>. QED
  BY ONLY <1>11, <1>12, <1>13 DEF Graph!PiecesAddUp

\* Of a graph.
GraphAccounts == lane = "graph" => AccountsInv

\* Each step of a graph keeps the accounts.
LEMMA NextAccounts ==
    ASSUME GraphInv, GraphAccounts, [ReportNext]_<<vars, openCodeVars, reportVars>>
    PROVE  GraphAccounts'
<1>1. CASE UNCHANGED <<vars, openCodeVars, reportVars>>
  BY <1>1 DEF vars, reportVars, GraphAccounts, AccountsInv
<1>2. CASE lane = "graph" /\ ReportNext
  <2>1. lane' = lane /\ Graph!Next
    BY <1>2 DEF ReportNext, GraphInv, vars
  <2>. QED
    BY <1>2, <2>1, AddAccounts, SplitAccounts, ReduceAccounts DEF Graph!Next, GraphInv, GraphAccounts
<1>3. CASE lane # "graph" /\ ReportNext
  <2>1. Next => lane' = lane
    BY DEF Next, Write, Scan, Emit, PutOff, EmitKiro, BufferTrae, EmitAntigravity, FinishSource,
           StartFlush, FlushRetained, FlushTrae, Finish, Rest, Sink
  <2>2. lane' = lane
    BY <1>3, <2>1 DEF ReportNext, ScanNext, vars
  <2>. QED
    BY <1>3, <2>2 DEF GraphAccounts
<1>. QED
  BY <1>1, <1>2, <1>3

\* However the list of messages is cut, and in whatever order its pieces are
\* merged, the whole report has the totals, clients, providers, turns and times
\* of the messages told.
THEOREM MergedReportsAddUp == ReportSpec => []PiecesAddUp
<1>1. ReportInit => GraphAccounts
  <2>1. ScanInit => lane # "graph"
    BY LaneAssumption DEF ScanInit, Init, InitLane, Cached
  <2>. QED
    BY <2>1, InitAccounts DEF ReportInit, InitLane, GraphAccounts
<1>2. GraphAccounts => PiecesAddUp
  BY AccountsAddUp DEF GraphAccounts, PiecesAddUp
<1>. QED
  BY <1>1, <1>2, InitGraph, NextGraph, NextAccounts, PTL DEF ReportSpec

===============================================================================
