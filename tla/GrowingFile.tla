----------------------------- MODULE GrowingFile -----------------------------
(***************************************************************************)
(* A transcript that its program writes while it is scanned: complete      *)
(* lines and, at the end, the part of the next line that is already        *)
(* written: "cut" (not JSON yet), "bare" (all but the newline) or "none".  *)
(* A line is three units long, so offset 3*n is the end of line n.         *)
(*                                                                         *)
(* A scan is running while `scanning` holds.                               *)
(***************************************************************************)
EXTENDS Integers, Sequences

CONSTANTS
    Scripts,     \* the sessions a file can hold, as sequences of lines
    MaxRewrites, \* bound on how often the file is cut back or replaced
    MaxAppends   \* bound on the lines added to the file during one scan

VARIABLES
    script, file,     \* the session being written and what is written of it
    rewrites,         \* how often the file was cut back or replaced
    room              \* how many lines may still be added during this scan

fileVars == <<script, file, rewrites, room>>

\* The units of a part of a line.
PartSize(part) == CASE part = "none" -> 0 [] part = "cut" -> 1 [] OTHER -> 2
Size(f) == 3 * Len(f.lines) + PartSize(f.part)

\* The first lines of a content, up to an offset that ends a line.
Prefix(f, offset) == [lines |-> SubSeq(f.lines, 1, offset \div 3), part |-> "none"]

EndsLine(f, offset) == offset % 3 = 0 /\ offset <= 3 * Len(f.lines)

InitFile ==
    /\ script \in Scripts
    /\ file = [lines |-> <<>>, part |-> "none"]
    /\ rewrites = 0 /\ room = MaxAppends

(***************************************************************************)
(* The program appends line by line; a write may stop anywhere in a line.  *)
(* A file that was cut back is not written again while the same scan runs: *)
(* transcripts are only appended to.                                       *)
(***************************************************************************)
NextLine == script[Len(file.lines) + 1]

WritePart(part, scanning) ==
    /\ Len(file.lines) < Len(script)
    /\ room > 0
    /\ \/ /\ PartSize(part) > PartSize(file.part)
          /\ file' = [file EXCEPT !.part = part]
          /\ UNCHANGED room
       \/ /\ part = "none"
          /\ file' = [lines |-> Append(file.lines, NextLine), part |-> "none"]
          /\ room' = IF scanning THEN room - 1 ELSE room
    /\ UNCHANGED <<script, rewrites>>

\* The file is cut back or, while nothing reads it, replaced by a finished
\* session.
Rewrite(scanning) ==
    /\ rewrites < MaxRewrites
    /\ rewrites' = rewrites + 1
    /\ room' = IF scanning THEN 0 ELSE room
    /\ \E s \in Scripts : \E n \in 0..Len(s) :
          /\ \/ s = script /\ n < Len(file.lines)
             \/ s # script /\ n = Len(s) /\ ~scanning /\ Len(file.lines) = Len(script)
          /\ script' = s
          /\ file' = [lines |-> SubSeq(s, 1, n), part |-> "none"]

ScanEnds == room' = MaxAppends /\ UNCHANGED <<script, file, rewrites>>

-------------------------------------------------------------------------------
(***************************************************************************)
(* Reading one line at an offset: a whole line, the written part of one,   *)
(* or the rest of a line whose first part was read before.  Neither part   *)
(* of a line that was read in two is JSON; the rest of a bare line is its  *)
(* newline, which is nothing.                                              *)
(***************************************************************************)
Malformed == [type |-> "malformed"]
NoLine == [type |-> "none"]

\* A session is a sequence of lines, and none of its lines is nothing.
ASSUME ScriptsAssumption ==
    \A s \in Scripts : /\ s \in Seq({s[i] : i \in 1..Len(s)})
                       /\ \A i \in 1..Len(s) : s[i] # NoLine

Read(at) ==
    LET n == at \div 3 + 1
        line == IF n <= Len(file.lines) THEN file.lines[n] ELSE NextLine
    IN  IF n <= Len(file.lines)
        THEN [to |-> 3 * n, line |-> CASE at % 3 = 0 -> line [] at % 3 = 1 -> Malformed
                                       [] OTHER -> NoLine]
        ELSE [to |-> Size(file),
              line |-> IF at % 3 = 0 /\ file.part = "bare" THEN line ELSE Malformed]
===============================================================================
