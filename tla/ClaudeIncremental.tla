--------------------------- MODULE ClaudeIncremental ---------------------------
(***************************************************************************)
(* The cached parse of one Claude Code transcript (lib.rs, claude_stage_a  *)
(* and the stage B that stores its outcome) while Claude Code writes the   *)
(* file and the files beside it that name a subagent: the .meta.json of    *)
(* the transcript and the transcript of the parent session.  The build is  *)
(* one that takes checkpoints.                                             *)
(*                                                                         *)
(* A content stands for its size, samples and hash, and with the number of *)
(* times the file was replaced, for its modification time.                 *)
(***************************************************************************)
EXTENDS ClaudeTranscript, GrowingFile

CONSTANTS
    MetaNames, ParentNames, \* the names .meta.json and the parent give, one after another
    Faults    \* of "read": a read can fail; "torn": a line can be read in two parts

\* The files beside a transcript say something from the beginning, if only
\* that they are not there; an absent value is none of those it stands for.
ASSUME NamesAssumption ==
    \A names \in {MetaNames, ParentNames} :
       names # <<>> /\ names \in Seq({names[i] : i \in 1..Len(names)})

ASSUME NoneAssumption ==
    /\ \A i \in 1..Len(ParentNames) : None # i
    /\ \A s \in Scripts : \A n \in 0..Len(s) : \A part \in {"none", "cut", "bare"} :
          None # [lines |-> SubSeq(s, 1, n), part |-> part]

\* A row has a sequence of advisor calls.
ASSUME AdvisorsAssumption ==
    \A s \in Scripts : \A i \in 1..Len(s) :
       s[i].type = "assistant" =>
          s[i].advisors \in Seq({s[i].advisors[n] : n \in 1..Len(s[i].advisors)})

VARIABLES
    meta, parent,     \* which of the names the files beside the transcript give
    entry,            \* the cached entry of the transcript
    pc, fp, pos, parse,  \* the running scan
    start, served     \* what the file held at its start (None once the scan was disturbed),
                      \* and what the last undisturbed scan served

related == <<meta, parent>>
scanVars == <<pc, fp, pos, parse, start>>
vars == <<fileVars, related, scanVars, entry, served>>

NoEntry == [fp |-> None]
NoCheckpoint == [state |-> None]
NothingServed == [of |-> None]

Init ==
    /\ InitFile
    /\ meta = 1 /\ parent = 1
    /\ entry = NoEntry
    /\ pc = "idle" /\ fp = None /\ pos = 0 /\ parse = None
    /\ start = None /\ served = NothingServed

\* Claude Code.
Write ==
    /\ \E part \in {"none", "cut", "bare"} : WritePart(part, pc # "idle")
    /\ UNCHANGED <<related, scanVars, entry, served>>

CutBack ==
    /\ Rewrite(pc # "idle")
    /\ start' = None
    /\ UNCHANGED <<pc, fp, pos, parse, related, entry, served>>

IsSubagent(line) == line.type # "malformed" /\ line.sidechain # None

\* Only a subagent's transcript has files beside it that name it.
NameAgent ==
    /\ \E i \in DOMAIN script : IsSubagent(script[i])
    /\ \/ meta < Len(MetaNames) /\ meta' = meta + 1 /\ UNCHANGED parent
       \/ parent < Len(ParentNames) /\ parent' = parent + 1 /\ UNCHANGED meta
    /\ start' = None
    /\ UNCHANGED <<fileVars, pc, fp, pos, parse, entry, served>>

-------------------------------------------------------------------------------
\* resolve_subagent_name: .meta.json, then the parent; a subagent neither
\* names goes by its id.
NameNow == OrElse(MetaNames[meta], ParentNames[parent])

\* The lines a reader of a whole content parses.
Visible(f, of) ==
    IF f.part = "bare" THEN Append(f.lines, of[Len(f.lines) + 1]) ELSE f.lines

\* claude_code_related_paths: the parent is watched only while .meta.json
\* does not name the agent.  For an unchanged transcript the cached entry
\* tells whether there is a parent; a changed one is probed for it.
Snapshot(watchesParent) ==
    [content |-> file, version |-> rewrites, meta |-> meta,
     parent |-> IF watchesParent THEN parent ELSE None]

Tier1 == MetaNames[meta] # None
HasParent == \E i \in DOMAIN Visible(file, script) : IsSubagent(Visible(file, script)[i])
Warm(e) == ~Tier1 /\ e.fp.parent # None

PrimaryMatches(e) == e.fp.content = file /\ e.fp.version = rewrites
Unchanged(e) == e.fp = Snapshot(Warm(e))

\* Mutant: a parent list assumed to be empty stays empty.
NewFingerprint_AssumedEmpty(e) ==
    IF e # NoEntry /\ PrimaryMatches(e) THEN Snapshot(Warm(e))
    ELSE Snapshot(~Tier1 /\ HasParent)

\* Mutant: the parent is watched although .meta.json names the agent.
NewFingerprint_AlwaysProbed(e) == Snapshot(HasParent)

\* An unchanged transcript whose parent list was only assumed to be empty is
\* probed once anything beside it changed.  In the code .meta.json is read for
\* Tier1 (message_cache.rs 704) before it is recorded (581); here that is one step.
NewFingerprint(e) ==
    IF e # NoEntry /\ PrimaryMatches(e) /\ e.fp.parent # None
    THEN Snapshot(Warm(e)) ELSE Snapshot(~Tier1 /\ HasParent)

IsHit == entry # NoEntry /\ Unchanged(entry)

-------------------------------------------------------------------------------
\* Mutant: a renamed agent does not prevent a resume.
CanResume_AnyRelated == entry # NoEntry /\ entry.checkpoint # NoCheckpoint

\* resume_claude_source: any change beside the transcript takes a full parse.
CanResume ==
    /\ entry # NoEntry /\ entry.checkpoint # NoCheckpoint
    /\ LET new == NewFingerprint(entry)
       IN  entry.fp.meta = new.meta /\ entry.fp.parent = new.parent

\* Mutant: the prefix is not hashed.
PrefixMatches_SizeOnly(c) == Size(file) > c.offset

\* resume_claude_file: the file grew and begins with what the checkpoint read.
PrefixMatches(c) ==
    /\ Size(file) > c.offset
    /\ SubSeq(file.lines, 1, c.offset \div 3) = c.prefix

\* Mutant: a resume continues with the clamped messages.
Restored_Clamped(e) == e.messages

\* The messages the checkpointed parse produced, as they were before the
\* one-hour part of each was clamped.
Restored(e) ==
    [i \in DOMAIN e.checkpoint.hours |->
        [e.messages[i] EXCEPT !.tokens.hour = e.checkpoint.hours[i]]]

StartFull == pc' = "read" /\ pos' = 0 /\ parse' = InitParse(<<>>, InitState)

\* Stage A: the fingerprint, and a hit, a resume or a full parse.
Check ==
    /\ pc = "idle" /\ ~IsHit
    /\ start' = file
    /\ fp' = NewFingerprint(entry)
    /\ \/ CanResume /\ pc' = "prefix" /\ UNCHANGED <<pos, parse>>
       \/ ~CanResume /\ StartFull
    /\ served' = NothingServed
    /\ UNCHANGED <<fileVars, related, entry>>

Hit ==
    /\ pc = "idle" /\ IsHit
    /\ served' = [messages |-> entry.messages, of |-> file]
    /\ UNCHANGED <<fileVars, related, scanVars, entry>>

\* The scan found less than the checkpoint covers: the transcript was cut
\* back before it and written again since.
Regrown == start # None /\ Size(start) < entry.checkpoint.offset

CheckPrefix ==
    /\ pc = "prefix"
    /\ IF PrefixMatches(entry.checkpoint)
       THEN /\ pc' = "read" /\ pos' = entry.checkpoint.offset
            /\ parse' = InitParse(Restored(entry), entry.checkpoint.state)
            /\ start' = IF Regrown THEN None ELSE start
       ELSE StartFull /\ UNCHANGED start
    /\ UNCHANGED <<fp, fileVars, related, entry, served>>

\* A reader that met the end of the file inside a line may find more of it
\* when it reads again.
MetEnd == pos >= Size(file) \/ (pos % 3 = 1 /\ "torn" \notin Faults)

ReadLine ==
    /\ pc = "read"
    /\ pos < Size(file) /\ ~MetEnd
    /\ pos' = Read(pos).to
    /\ LET line == Read(pos).line
       IN  /\ parse' = IF line = NoLine THEN parse
                       ELSE ParseLine(parse, line, NameNow)
           /\ start' = IF line = Malformed THEN None ELSE start
    /\ UNCHANGED <<pc, fp, fileVars, related, entry, served>>

\* Mutant: a parse that ended inside a line can be continued.
Checkpoint_PartialLine(p) ==
    IF p.blocked \/ pos < 3 THEN NoCheckpoint
    ELSE [offset |-> pos, prefix |-> SubSeq(script, 1, pos \div 3), state |-> p.st,
          hours |-> [i \in DOMAIN p.messages |-> p.messages[i].tokens.hour]]

-------------------------------------------------------------------------------
\* The last line read was complete and nothing read depends on more than the
\* lines up to it.
Checkpoint(p) ==
    IF p.blocked \/ pos = 0 \/ pos % 3 # 0 THEN NoCheckpoint
    ELSE [offset |-> pos, prefix |-> SubSeq(script, 1, pos \div 3), state |-> p.st,
          hours |-> [i \in DOMAIN p.messages |-> p.messages[i].tokens.hour]]

\* Mutant: the checkpoint forgets which rows stated a remainder.
NewEntry_ForgetsSplit(p) ==
    [fp |-> fp, messages |-> ClampedAll(p.messages),
     checkpoint |-> Checkpoint([p EXCEPT !.st.split = {}])]

\* The fingerprint is the one taken before the parse.
NewEntry(p) ==
    [fp |-> fp, messages |-> ClampedAll(p.messages), checkpoint |-> Checkpoint(p)]

Idle == pc' = "idle" /\ fp' = None /\ pos' = 0 /\ parse' = None /\ start' = None

\* The parse and stage B: a transcript without messages leaves no entry, and
\* an older one in place.
EndRead ==
    /\ pc = "read" /\ MetEnd
    /\ LET p == EndOfFile(parse)
       IN  /\ served' = IF start = None THEN NothingServed
                        ELSE [messages |-> ClampedAll(p.messages), of |-> start]
           /\ entry' = IF p.messages = <<>> THEN entry ELSE NewEntry(p)
    /\ Idle /\ ScanEnds
    /\ UNCHANGED related

\* What was read before an error is reported and not cached.
FailRead ==
    /\ pc = "read" /\ "read" \in Faults
    /\ served' = NothingServed
    /\ Idle /\ ScanEnds
    /\ UNCHANGED <<related, entry>>

Scan == Check \/ Hit \/ CheckPrefix \/ ReadLine \/ EndRead \/ FailRead

Next == Write \/ CutBack \/ NameAgent \/ Scan

Spec == Init /\ [][Next]_vars

-------------------------------------------------------------------------------
\* The parse of each content under each name the agent can have, computed once.
Prefixes == UNION {{SubSeq(s, 1, n) : n \in 0..Len(s)} : s \in Scripts}
Names == {OrElse(MetaNames[i], ParentNames[j]) : i \in DOMAIN MetaNames, j \in DOMAIN ParentNames}
ParseOf == [lines \in Prefixes |-> [name \in Names |-> ParseFile(lines, name)]]
MessagesOf(lines, name) == ClampedAll(ParseOf[lines][name].messages)

(***************************************************************************)
(* An entry a scan would hit is the parse of the file as it is, under the  *)
(* name the files beside it give now, although the parent is not watched   *)
(* while .meta.json names the agent and is not looked for again while the  *)
(* transcript stays as it is.  Stated for a .meta.json that does not       *)
(* change within the taking of one fingerprint: if it stops naming the     *)
(* agent there, the entry has no parent and no later check repairs it (the *)
(* first of the known gaps in message_cache.rs 680-687).                   *)
(***************************************************************************)
HitIsExact ==
    IsHit => entry.messages = MessagesOf(Visible(file, script), NameNow)

(***************************************************************************)
(* A checkpoint is where the full parse of the lines before it stands: a   *)
(* scan that continues from it arrives at the messages and the state a     *)
(* parse from the first byte would, however many scans led to it.  (Under  *)
(* the name the agent had when the parse met its first line.)              *)
(***************************************************************************)
HasCheckpoint == entry # NoEntry /\ entry.checkpoint # NoCheckpoint

CheckpointIsFullParse ==
    HasCheckpoint =>
        LET c == entry.checkpoint
        IN  \E name \in Names :
              /\ ParseOf[c.prefix][name].st = c.state
              /\ ParseOf[c.prefix][name].messages = Restored(entry)
              /\ MessagesOf(c.prefix, name) = entry.messages

\* Of what the cache holds of a transcript, messages and checkpoint are those of a
\* full parse: claude_stage_a may serve the one and resume from the other.  HitIsExact
\* says what is assumed of .meta.json.
EntryIsFullParse == HitIsExact /\ CheckpointIsFullParse

(***************************************************************************)
(* The tokens of a response are a function of the set of its rows: of each *)
(* figure the largest that a row states, and of the prompt the largest     *)
(* uncached remainder, or the largest whole prompt when no row states a    *)
(* remainder.  Rows arrive in any order and are parsed by different scans. *)
(***************************************************************************)
Rows(lines, key) ==
    {lines[i].usage : i \in {i \in DOMAIN lines :
        lines[i].type = "assistant" /\ lines[i].key = key /\ lines[i].usage # None}}

MaxStated(S) == CHOOSE x \in S : \A y \in S : x >= y

Assembled(rows) ==
    LET splits == {u \in rows : ReportsCacheSplit(u)}
        inputs == IF splits = {} THEN rows ELSE splits
        most(f, S) == MaxStated({Stated(u[f]) : u \in S})
    IN  [input |-> most("input", inputs), output |-> most("output", rows),
         read |-> most("read", rows), write |-> most("write", rows),
         hour |-> Smaller(most("hour", rows), most("write", rows))]

TokensAreAssembled ==
    HasCheckpoint =>
        \A i \in DOMAIN entry.messages :
           LET m == entry.messages[i]
               rows == Rows(entry.checkpoint.prefix, m.key)
           IN  m.key # None /\ rows # {} => m.tokens = Assembled(rows)

(***************************************************************************)
(* What an undisturbed scan reports is the parse of a content the file had *)
(* while the scan ran, although lines are added between its reads.         *)
(***************************************************************************)
ServesAState ==
    [][(served' # served /\ served'.of # None) =>
         \E n \in Len(served'.of.lines)..Len(script) :
           served'.messages = MessagesOf(SubSeq(script, 1, n), NameNow)]_vars

(***************************************************************************)
(* A scan of a transcript nobody touched meanwhile leaves an entry that    *)
(* the next scan hits, unless the transcript has no messages; and if       *)
(* nothing in it depends on the whole file, a checkpoint to resume from.   *)
(***************************************************************************)
QuietScanCaches ==
    [][(pc = "read" /\ pc' = "idle" /\ served'.of = file /\ file.part = "none") =>
         LET p == ParseOf[file.lines][NameNow]
         IN  p.messages # <<>> =>
               IsHit' /\ (p.blocked \/ entry'.checkpoint # NoCheckpoint)]_vars
===============================================================================
