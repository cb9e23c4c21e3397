-------------------------- MODULE GrowingFileProofs --------------------------
(***************************************************************************)
(* What a scan can rely on about a file that is written meanwhile: its     *)
(* lines are the first lines of the session, and what is read at an offset *)
(* is a line of the session, nothing, or a part of a line.                 *)
(*                                                                         *)
(* The facts about recursion along a sequence start from the least number  *)
(* of a set, for a smallest counterexample is a set of numbers where a     *)
(* rule of induction is about a predicate.                                 *)
(***************************************************************************)
EXTENDS GrowingFile, WellFoundedInduction, TLAPS

\* A set of natural numbers has a least one: the form in which the proofs use
\* induction.
LEMMA LeastNumber ==
    ASSUME NEW S, S \subseteq Nat, S # {}
    PROVE  \E n \in S : \A m \in S : n <= m
<1>1. IsWellFoundedOn(OpToRel(<, Nat), Nat)
  BY NatLessThanWellFounded
<1>2. PICK n \in S : \A m \in S : <<m, n>> \notin OpToRel(<, Nat)
  BY <1>1, WFMin
<1>3. \A m \in S : ~(m < n)
  BY <1>2 DEF OpToRel
<1> QED
  BY <1>3

\* Sequences whose elements are of no interest.
IsSeq(s) == s \in Seq({s[i] : i \in 1..Len(s)})

\* A sequence over some set is a sequence.
LEMMA AnySeq ==
    ASSUME NEW S, NEW s \in Seq(S)
    PROVE  IsSeq(s)
BY DEF IsSeq

\* A sequence has a length and is given by its elements.
LEMMA SeqLength ==
    ASSUME NEW s, IsSeq(s)
    PROVE  /\ Len(s) \in Nat /\ DOMAIN s = 1..Len(s)
           /\ s = [i \in 1..Len(s) |-> s[i]]
BY DEF IsSeq

\* Two sequences and one element are over one set.
LEMMA CommonElements ==
    ASSUME NEW s, IsSeq(s), NEW t, IsSeq(t), NEW e
    PROVE  \E S : s \in Seq(S) /\ t \in Seq(S) /\ e \in S
<1> DEFINE S == {s[i] : i \in 1..Len(s)} \cup {t[i] : i \in 1..Len(t)} \cup {e}
<1>1. s \in Seq(S) /\ t \in Seq(S) /\ e \in S
  BY DEF IsSeq
<1> QED
  BY <1>1

\* Sequences joined and made longer by one element.
LEMMA Joined ==
    ASSUME NEW s, IsSeq(s), NEW t, IsSeq(t), NEW e
    PROVE  /\ IsSeq(s \o t) /\ IsSeq(Append(s, e)) /\ IsSeq(<<>>)
           /\ s \o <<>> = s /\ <<>> \o s = s
           /\ s \o Append(t, e) = Append(s \o t, e)
<1>1. PICK S : s \in Seq(S) /\ t \in Seq(S) /\ e \in S
  BY CommonElements
<1>2. s \o t \in Seq(S) /\ Append(s, e) \in Seq(S) /\ <<>> \in Seq(S)
  BY <1>1
<1>3. s \o <<>> = s /\ <<>> \o s = s
  BY <1>1
<1>4. s \o Append(t, e) = Append(s \o t, e)
  BY <1>1
<1> QED
  BY <1>2, <1>3, <1>4, AnySeq

\* The empty sequence.
LEMMA EmptySeq == IsSeq(<<>>) /\ <<>> \o <<>> = <<>> /\ Len(<<>>) = 0
<1>1. <<>> \in Seq({0})
  OBVIOUS
<1>2. <<>> \o <<>> = <<>> /\ Len(<<>>) = 0
  BY <1>1
<1> QED
  BY <1>1, <1>2, AnySeq

\* It does not matter which two of three are joined first.
LEMMA JoinedThrice ==
    ASSUME NEW s, IsSeq(s), NEW t, IsSeq(t), NEW u, IsSeq(u)
    PROVE  (s \o t) \o u = s \o (t \o u)
<1>1. PICK S : s \in Seq(S) /\ t \in Seq(S) /\ u \in Seq(S)
  <2> DEFINE S == {s[i] : i \in 1..Len(s)} \cup {t[i] : i \in 1..Len(t)}
                    \cup {u[i] : i \in 1..Len(u)}
  <2>1. s \in Seq(S) /\ t \in Seq(S) /\ u \in Seq(S)
    BY DEF IsSeq
  <2> QED
    BY <2>1
<1> QED
  BY <1>1

\* The first lines of a session, and one more.
LEMMA FirstLines ==
    ASSUME NEW s, IsSeq(s), NEW n \in Nat, n <= Len(s)
    PROVE  /\ IsSeq(SubSeq(s, 1, n)) /\ Len(SubSeq(s, 1, n)) = n
           /\ n < Len(s) => SubSeq(s, 1, n + 1) = Append(SubSeq(s, 1, n), s[n + 1])
           /\ \A m \in 0..n : SubSeq(SubSeq(s, 1, n), 1, m) = SubSeq(s, 1, m)
<1>1. PICK S : s \in Seq(S)
  BY DEF IsSeq
<1>2. SubSeq(s, 1, n) \in Seq(S) /\ Len(SubSeq(s, 1, n)) = n
  BY <1>1
<1>3. n < Len(s) => SubSeq(s, 1, n + 1) = Append(SubSeq(s, 1, n), s[n + 1])
  BY <1>1
<1>4. \A m \in 0..n : SubSeq(SubSeq(s, 1, n), 1, m) = SubSeq(s, 1, m)
  BY <1>1
<1> QED
  BY <1>2, <1>3, <1>4, AnySeq
-------------------------------------------------------------------------------
(***************************************************************************)
(* The file while it is written.                                           *)
(***************************************************************************)
Written(f, s) ==
    \E n \in 0..Len(s) :
        \/ f = [lines |-> SubSeq(s, 1, n), part |-> "none"]
        \/ \E part \in {"cut", "bare"} :
              n < Len(s) /\ f = [lines |-> SubSeq(s, 1, n), part |-> part]

FileInv == script \in Scripts /\ Written(file, script)

\* A script is a sequence.
LEMMA ScriptIsSeq == ASSUME NEW s \in Scripts PROVE IsSeq(s) /\ Len(s) \in Nat
BY ScriptsAssumption, SeqLength DEF IsSeq

\* The form of a content.
LEMMA WrittenForm ==
    ASSUME NEW s \in Scripts, NEW f, Written(f, s)
    PROVE  /\ Len(f.lines) \in 0..Len(s) /\ f.lines = SubSeq(s, 1, Len(f.lines))
           /\ f = [lines |-> f.lines, part |-> f.part]
           /\ f.part \in {"none", "cut", "bare"}
           /\ f.part # "none" => Len(f.lines) < Len(s)
           /\ PartSize(f.part) \in 0..2 /\ (PartSize(f.part) = 0 <=> f.part = "none")
           /\ Size(f) = 3 * Len(f.lines) + PartSize(f.part) /\ Size(f) \in Nat
           /\ \A n \in 0..Len(f.lines) : SubSeq(f.lines, 1, n) = SubSeq(s, 1, n)
           /\ \A n \in 1..Len(f.lines) : f.lines[n] = s[n]
<1>1. PICK n \in 0..Len(s), part \in {"none", "cut", "bare"} :
          /\ part # "none" => n < Len(s)
          /\ f = [lines |-> SubSeq(s, 1, n), part |-> part]
  BY DEF Written
<1>2. IsSeq(s) /\ Len(s) \in Nat
  BY ScriptIsSeq
<1>3. f.lines = SubSeq(s, 1, n) /\ f.part = part /\ Len(f.lines) = n
  BY <1>1, <1>2, FirstLines
<1>4. \A m \in 0..n : SubSeq(f.lines, 1, m) = SubSeq(s, 1, m)
  BY <1>2, <1>3, FirstLines
<1>5. \A m \in 1..n : f.lines[m] = s[m]
  <2>1. PICK S : s \in Seq(S)
    BY <1>2 DEF IsSeq
  <2> QED
    BY <1>2, <1>3, <2>1
<1>6. PartSize(f.part) \in 0..2 /\ (PartSize(f.part) = 0 <=> f.part = "none")
  BY <1>3 DEF PartSize
<1> QED
  BY <1>1, <1>2, <1>3, <1>4, <1>5, <1>6 DEF Size

\* A file begins as the beginning of a script.
LEMMA InitFileInv == InitFile => FileInv
<1> SUFFICES ASSUME InitFile PROVE FileInv
  OBVIOUS
<1>1. IsSeq(script) /\ Len(script) \in Nat
  BY ScriptIsSeq DEF InitFile
<1>2. SubSeq(script, 1, 0) = <<>>
  <2>1. PICK S : script \in Seq(S)
    BY <1>1 DEF IsSeq
  <2> QED
    BY <2>1
<1> QED
  BY <1>1, <1>2 DEF InitFile, FileInv, Written

\* A write goes on with the script.
LEMMA WritePartInv ==
    ASSUME FileInv, NEW part \in {"none", "cut", "bare"}, NEW scanning, WritePart(part, scanning)
    PROVE  FileInv' /\ script' = script
<1> DEFINE n == Len(file.lines)
<1>1. /\ script \in Scripts /\ script' = script
      /\ IsSeq(script) /\ Len(script) \in Nat
  BY ScriptIsSeq DEF FileInv, WritePart
<1>2. n \in 0..Len(script) /\ n < Len(script) /\ file.lines = SubSeq(script, 1, n)
      /\ file = [lines |-> file.lines, part |-> file.part]
      /\ PartSize(file.part) \in 0..2
  BY WrittenForm DEF FileInv, WritePart
<1>3. CASE PartSize(part) > PartSize(file.part) /\ file' = [file EXCEPT !.part = part]
  <2>1. part # "none"
    BY <1>2, <1>3 DEF PartSize
  <2>2. file' = [lines |-> SubSeq(script, 1, n), part |-> part]
    BY <1>2, <1>3
  <2> QED
    BY <1>1, <1>2, <2>1, <2>2 DEF FileInv, Written
<1>4. CASE file' = [lines |-> Append(file.lines, NextLine), part |-> "none"]
  <2>1. file' = [lines |-> SubSeq(script, 1, n + 1), part |-> "none"]
    <3>1. SubSeq(script, 1, n + 1) = Append(SubSeq(script, 1, n), script[n + 1])
      BY <1>1, <1>2, FirstLines
    <3> QED
      BY <1>2, <1>4, <3>1 DEF NextLine
  <2>2. n + 1 \in 0..Len(script)
    BY <1>1, <1>2
  <2> QED
    BY <1>1, <2>1, <2>2 DEF FileInv, Written
<1> QED
  BY <1>3, <1>4 DEF WritePart

\* A content of a session is known by its size, and appending adds to it.
LEMMA SameSize ==
    ASSUME NEW s \in Scripts, NEW f, Written(f, s), NEW g, Written(g, s), Size(f) = Size(g)
    PROVE  f = g
<1>1. /\ Len(f.lines) \in Nat /\ f.lines = SubSeq(s, 1, Len(f.lines))
      /\ f = [lines |-> f.lines, part |-> f.part]
      /\ f.part \in {"none", "cut", "bare"} /\ Size(f) = 3 * Len(f.lines) + PartSize(f.part)
      /\ Len(g.lines) \in Nat /\ g.lines = SubSeq(s, 1, Len(g.lines))
      /\ g = [lines |-> g.lines, part |-> g.part]
      /\ g.part \in {"none", "cut", "bare"} /\ Size(g) = 3 * Len(g.lines) + PartSize(g.part)
      /\ PartSize(f.part) \in 0..2 /\ PartSize(g.part) \in 0..2
  BY WrittenForm, ScriptIsSeq
<1>2. PartSize(f.part) = PartSize(g.part) => f.part = g.part
  BY <1>1 DEF PartSize
<1>3. Len(f.lines) = Len(g.lines) /\ PartSize(f.part) = PartSize(g.part)
  <2>1. \A a, b \in Nat : \A c, d \in 0..2 : 3 * a + c = 3 * b + d => a = b /\ c = d
    OBVIOUS
  <2>2. 3 * Len(f.lines) + PartSize(f.part) = 3 * Len(g.lines) + PartSize(g.part)
    BY <1>1
  <2> QED
    BY <1>1, <2>1, <2>2
<1> QED
  BY <1>1, <1>2, <1>3

\* A write makes the file longer.
LEMMA WritePartGrows ==
    ASSUME FileInv, NEW part \in {"none", "cut", "bare"}, NEW scanning, WritePart(part, scanning)
    PROVE  Size(file) \in Nat /\ Size(file)' \in Nat /\ Size(file) < Size(file)'
<1>1. /\ Len(file.lines) \in Nat /\ PartSize(file.part) \in 0..2
      /\ file = [lines |-> file.lines, part |-> file.part]
      /\ Size(file) = 3 * Len(file.lines) + PartSize(file.part)
      /\ file.lines = SubSeq(script, 1, Len(file.lines)) /\ Len(file.lines) <= Len(script)
      /\ IsSeq(script) /\ Len(script) \in Nat
  BY WrittenForm, ScriptIsSeq DEF FileInv
<1>2. CASE PartSize(part) > PartSize(file.part) /\ file' = [file EXCEPT !.part = part]
  <2>1. file'.lines = file.lines /\ file'.part = part
    BY <1>1, <1>2
  <2>2. PartSize(part) \in 0..2
    BY DEF PartSize
  <2> QED
    BY <1>1, <1>2, <2>1, <2>2 DEF Size
<1>3. CASE file' = [lines |-> Append(file.lines, NextLine), part |-> "none"]
  <2>1. IsSeq(file.lines)
    BY <1>1, FirstLines
  <2>2. Len(Append(file.lines, NextLine)) = Len(file.lines) + 1
    BY <2>1 DEF IsSeq
  <2> QED
    BY <1>1, <1>3, <2>2 DEF Size, PartSize
<1> QED
  BY <1>2, <1>3 DEF WritePart

\* A file that is replaced is of a script, while a scan runs of the same one.
LEMMA RewriteInv ==
    ASSUME FileInv, NEW scanning, Rewrite(scanning)
    PROVE  FileInv' /\ (scanning => script' = script)
<1>1. PICK s \in Scripts : \E n \in 0..Len(s) :
          /\ script' = s /\ file' = [lines |-> SubSeq(s, 1, n), part |-> "none"]
          /\ scanning => s = script
  BY DEF Rewrite
<1> QED
  BY <1>1 DEF FileInv, Written

(***************************************************************************)
(* What is read at an offset below the end of the file.                    *)
(***************************************************************************)
LEMMA WhatIsRead ==
    ASSUME FileInv, NEW at \in Nat, at < Size(file)
    PROVE  LET n == at \div 3
               read == Read(at)
           IN  /\ read.to \in Nat /\ read.to <= Size(file)
               /\ at % 3 = 0 =>
                     \/ read.line = Malformed /\ read.to = at + 1 /\ read.to = Size(file)
                     \/ /\ n < Len(script) /\ read.line = script[n + 1]
                        /\ read.to % 3 = 0 /\ read.to \div 3 = n + 1
                     \/ /\ n < Len(script) /\ read.line = script[n + 1]
                        /\ read.to % 3 = 2 /\ read.to \div 3 = n
               /\ at % 3 = 1 => read.line = Malformed
               /\ at % 3 = 2 => /\ read.line = NoLine
                                /\ read.to % 3 = 0 /\ read.to \div 3 = n + 1
<1>1. PICK size \in Nat : size = Len(file.lines)
  BY WrittenForm, ScriptIsSeq DEF FileInv
<1>2. PICK c \in 0..2 : c = PartSize(file.part)
  BY WrittenForm DEF FileInv
<1>3. Size(file) = 3 * size + c
  BY <1>1, <1>2 DEF Size
<1>4. PICK last \in Nat : last = Len(script)
  BY ScriptIsSeq DEF FileInv
<1>5. /\ size <= last
      /\ file.part # "none" => size < last
      /\ \A m \in 1..size : file.lines[m] = script[m]
      /\ c = 2 <=> file.part = "bare"
      /\ c = 0 <=> file.part = "none"
  <2>1. /\ size \in 0..last
        /\ file.part # "none" => size < last
        /\ \A m \in 1..size : file.lines[m] = script[m]
        /\ file.part \in {"none", "cut", "bare"}
    BY <1>1, <1>4, WrittenForm DEF FileInv
  <2>2. (c = 2 <=> file.part = "bare") /\ (c = 0 <=> file.part = "none")
    BY <1>2, <2>1 DEF PartSize
  <2> QED
    BY <2>1, <2>2
<1>6. PICK n \in Nat : n = at \div 3
  OBVIOUS
<1>7. PICK r \in 0..2 : r = at % 3 /\ at = 3 * n + r
  BY <1>6
<1>8. /\ (3 * (n + 1)) % 3 = 0 /\ (3 * (n + 1)) \div 3 = n + 1
      /\ (3 * n + 2) % 3 = 2 /\ (3 * n + 2) \div 3 = n
  OBVIOUS
<1> DEFINE Goal ==
      /\ Read(at).to \in Nat /\ Read(at).to <= Size(file)
      /\ r = 0 => \/ Read(at).line = Malformed /\ Read(at).to = at + 1 /\ Read(at).to = Size(file)
                  \/ /\ n < last /\ Read(at).line = script[n + 1]
                     /\ Read(at).to % 3 = 0 /\ Read(at).to \div 3 = n + 1
                  \/ /\ n < last /\ Read(at).line = script[n + 1]
                     /\ Read(at).to % 3 = 2 /\ Read(at).to \div 3 = n
      /\ r = 1 => Read(at).line = Malformed
      /\ r = 2 => /\ Read(at).line = NoLine
                  /\ Read(at).to % 3 = 0 /\ Read(at).to \div 3 = n + 1
<1> SUFFICES Goal
  BY <1>4, <1>6, <1>7
<1>9. CASE n + 1 <= size
  <2>1. file.lines[n + 1] = script[n + 1] /\ n < last
    <3>1. n + 1 \in 1..size /\ n < last
      BY <1>5, <1>9
    <3> QED
      BY <1>5, <3>1
  <2>2. Read(at) = [to |-> 3 * (n + 1),
                    line |-> CASE r = 0 -> file.lines[n + 1] [] r = 1 -> Malformed
                               [] OTHER -> NoLine]
    BY <1>1, <1>6, <1>7, <1>9 DEF Read
  <2>3. 3 * (n + 1) \in Nat /\ 3 * (n + 1) <= 3 * size + c
    BY <1>9
  <2>4. Read(at).to = 3 * (n + 1)
    BY <2>2
  <2>5. Read(at).line = CASE r = 0 -> file.lines[n + 1] [] r = 1 -> Malformed [] OTHER -> NoLine
    BY <2>2
  <2>6. /\ r = 0 => Read(at).line = script[n + 1]
        /\ r = 1 => Read(at).line = Malformed
        /\ r = 2 => Read(at).line = NoLine
    BY <2>1, <2>5
  <2>7. Read(at).to \in Nat /\ Read(at).to <= Size(file)
    BY <1>3, <2>3, <2>4
  <2>8. Read(at).to % 3 = 0 /\ Read(at).to \div 3 = n + 1
    BY <1>8, <2>4
  <2> QED
    BY <2>1, <2>6, <2>7, <2>8, Zenon
<1>10. CASE ~(n + 1 <= size)
  <2>1. Read(at) = [to |-> Size(file),
                    line |-> IF r = 0 /\ file.part = "bare" THEN NextLine ELSE Malformed]
    BY <1>1, <1>6, <1>7, <1>10 DEF Read
  <2>2. n = size /\ r # 2
    <3>1. 3 * n + r < 3 * size + c
      BY <1>3, <1>7
    <3> QED
      BY <1>10, <3>1
  <2>3. Read(at).to = 3 * size + c /\ Read(at).to \in Nat /\ Read(at).to <= Size(file)
    <3>1. 3 * size + c \in Nat /\ 3 * size + c <= 3 * size + c
      OBVIOUS
    <3>2. Read(at).to = 3 * size + c
      BY <1>3, <2>1
    <3> QED
      BY <1>3, <3>1, <3>2
  <2>4. CASE r = 0 /\ file.part = "bare"
    <3>1. Read(at).line = NextLine
      BY <2>1, <2>4
    <3>2. NextLine = script[n + 1]
      BY <1>1, <2>2 DEF NextLine
    <3>3. c = 2 /\ n < last
      BY <1>5, <2>2, <2>4
    <3>4. Read(at).to % 3 = 2 /\ Read(at).to \div 3 = n
      BY <1>8, <2>2, <2>3, <3>3
    <3> QED
      BY <2>3, <2>4, <3>1, <3>2, <3>3, <3>4
  <2>5. CASE ~(r = 0 /\ file.part = "bare")
    <3>1. Read(at).line = Malformed
      BY <2>1, <2>5
    <3>2. r = 0 => Read(at).to = at + 1 /\ Read(at).to = Size(file)
      <4>1. r = 0 => c = 1
        <5>1. r = 0 => 3 * n < 3 * size + c /\ c # 2
          BY <1>3, <1>5, <1>7, <2>5
        <5> QED
          BY <2>2, <5>1
      <4> QED
        BY <1>3, <1>7, <2>2, <2>3, <4>1
    <3> QED
      BY <2>2, <2>3, <3>1, <3>2, Zenon
  <2> QED
    BY <2>4, <2>5
<1> QED
  BY <1>9, <1>10
===============================================================================
