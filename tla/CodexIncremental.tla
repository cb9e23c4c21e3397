--------------------------- MODULE CodexIncremental ---------------------------
(***************************************************************************)
(* The cached parse of one Codex rollout (lib.rs, codex_stage_a and the    *)
(* stage B that stores its outcome) while the Codex CLI writes the file.   *)
(* A fingerprint is the content it was taken of, a prefix hash the lines   *)
(* it covers.                                                              *)
(***************************************************************************)
EXTENDS CodexRollout, GrowingFile

CONSTANTS
    ParentLog,   \* the rollout of the session those in Scripts were forked from
    Faults       \* of "read": a read of the file can fail

\* An absent content is none the file can have.
ASSUME NoneAssumption ==
    \A s \in Scripts : \A n \in 0..Len(s) : \A part \in {"none", "cut", "bare"} :
       None # [lines |-> SubSeq(s, 1, n), part |-> part]

VARIABLES
    entry,            \* the cached entry of the file
    pc, fp, pos, parse, prior, invalidate,  \* the running scan
    start, served     \* what the file held at its start (None once a part of a line was
                      \* read alone, a read failed or the file was cut back), and
                      \* what the last undisturbed scan served

scanVars == <<pc, fp, pos, parse, prior, invalidate, start>>
vars == <<fileVars, scanVars, entry, served>>

NoEntry == [fp |-> None]
NothingServed == [of |-> None]

Init ==
    /\ InitFile
    /\ entry = NoEntry
    /\ pc = "idle" /\ fp = None /\ pos = 0 /\ parse = None
    /\ prior = <<>> /\ invalidate = FALSE
    /\ start = None /\ served = NothingServed

\* The Codex CLI.
Write ==
    /\ \E part \in {"none", "cut", "bare"} : WritePart(part, pc # "idle")
    /\ UNCHANGED <<scanVars, entry, served>>

CutBack ==
    /\ Rewrite(pc # "idle")
    /\ start' = None
    /\ UNCHANGED <<pc, fp, pos, parse, prior, invalidate, entry, served>>

-------------------------------------------------------------------------------
(***************************************************************************)
(* The scan.  The file is read anew at each of its steps: to fingerprint   *)
(* it, to hash the cached prefix, line by line, and after a full parse     *)
(* once more to fingerprint what was read.                                 *)
(***************************************************************************)
Matches(e, f) == e.offset = Size(f) /\ e.newline /\ e.prefix = f

\* Mutant: the prefix is not hashed.
PrefixMatches_SizeOnly(e, f) == Size(f) >= e.offset

PrefixMatches(e, f) ==
    /\ e.newline \/ e.offset = 0
    /\ Size(f) >= e.offset
    /\ Prefix(f, e.offset) = e.prefix

\* parse_full_codex_raw_source, and reparse_from_start, which drops an entry
\* that could not be replaced.
StartFull(drop) ==
    /\ pc' = "full" /\ pos' = 0 /\ parse' = InitParse(InitState)
    /\ prior' = <<>> /\ invalidate' = drop

Serve(messages) ==
    served' = IF start = None THEN NothingServed ELSE [messages |-> messages, of |-> start]

Idle == /\ pc' = "idle" /\ fp' = None /\ pos' = 0 /\ parse' = None
        /\ prior' = <<>> /\ invalidate' = FALSE /\ start' = None

IsHit == entry # NoEntry /\ entry.fp = file /\ Matches(entry, file)
CanResume == entry # NoEntry /\ entry.fp # file /\ Size(file) > entry.offset

Check ==
    /\ pc = "idle" /\ ~IsHit
    /\ start' = file
    /\ fp' = file
    /\ \/ CanResume /\ pc' = "prefix" /\ UNCHANGED <<pos, parse, prior, invalidate>>
       \/ ~CanResume /\ StartFull(entry # NoEntry)
    /\ served' = NothingServed
    /\ UNCHANGED <<fileVars, entry>>

\* The stored parse covers the file: stage B serves the entry in place.
Hit ==
    /\ pc = "idle" /\ IsHit
    /\ served' = [messages |-> entry.messages, of |-> file]
    /\ UNCHANGED <<fileVars, scanVars, entry>>

CheckPrefix ==
    /\ pc = "prefix"
    /\ IF PrefixMatches(entry, file)
       THEN /\ pc' = "tail" /\ pos' = entry.offset
            /\ parse' = InitParse(entry.state)
            /\ prior' = entry.messages /\ invalidate' = TRUE
       ELSE StartFull(TRUE)
    /\ UNCHANGED <<fp, start, fileVars, entry, served>>

ReadLine ==
    /\ pc \in {"full", "tail"}
    /\ pos < Size(file)
    /\ pos' = Read(pos).to
    /\ LET line == Read(pos).line
       IN  /\ parse' = IF line = NoLine THEN parse ELSE ParseLine(parse, line)
           /\ start' = IF line = Malformed THEN None ELSE start
    /\ UNCHANGED <<pc, fp, prior, invalidate, fileVars, entry, served>>

\* The end of the file, or a read that fails.
EndRead ==
    /\ pc \in {"full", "tail"}
    /\ \E ok \in BOOLEAN :
          /\ IF ok THEN pos >= Size(file) ELSE "read" \in Faults
          /\ parse' = [EndOfFile(parse) EXCEPT !.succeeded = @ /\ ok]
          /\ start' = IF ok THEN start ELSE None
    /\ pc' = IF pc = "full" THEN "read_full" ELSE "read_tail"
    /\ UNCHANGED <<fp, pos, prior, invalidate, fileVars, entry, served>>

Cacheable == parse.succeeded /\ ~parse.unresolved

\* Mutant: the offset of a resumed parse counts from where it resumed.
NewEntry_TailOffset(f) ==
    [fp |-> f, prefix |-> f, offset |-> IF pc = "read_tail" THEN pos - entry.offset ELSE pos,
     newline |-> TRUE, state |-> parse.st, messages |-> prior \o parse.messages]

\* Mutant: the state to resume from forgets an open turn.
NewEntry_RowsOnly(f) ==
    [fp |-> f, prefix |-> f, offset |-> pos, newline |-> TRUE,
     state |-> [parse.st EXCEPT !.pending_turn = FALSE],
     messages |-> prior \o parse.messages]

NewEntry(f) ==
    [fp |-> f, prefix |-> f, offset |-> pos, newline |-> TRUE,
     state |-> parse.st, messages |-> prior \o parse.messages]

\* Mutant: what was fingerprinted need not be what was read.
Storable_AnySize(f) == EndsLine(file, pos)

\* build_codex_cache_entry: what was read is what was fingerprinted, and it
\* ends with a newline.
Storable(f) == Size(f) = pos /\ EndsLine(file, pos)

\* A full parse that cannot be cached is served and, after a cached entry did
\* not match, leaves no entry behind.
FinishUncached ==
    /\ pc = "read_full" /\ ~Cacheable
    /\ Serve(parse.messages)
    /\ entry' = IF invalidate THEN NoEntry ELSE entry
    /\ Idle /\ ScanEnds

\* The fingerprint of a full parse is taken after it.
Fingerprint ==
    /\ pc = "read_full" /\ Cacheable
    /\ pc' = "build_full" /\ fp' = file
    /\ UNCHANGED <<pos, parse, prior, invalidate, start, fileVars, entry, served>>

FinishFull ==
    /\ pc = "build_full"
    /\ Serve(parse.messages)
    /\ entry' = CASE Storable(fp) -> NewEntry(fp)
                  [] ~Storable(fp) /\ invalidate -> NoEntry
                  [] OTHER -> entry
    /\ Idle /\ ScanEnds

\* The fingerprint of a resumed parse is the one it was started with.
FinishTail ==
    /\ pc = "read_tail" /\ Cacheable /\ Storable(fp)
    /\ Serve(prior \o parse.messages)
    /\ entry' = NewEntry(fp)
    /\ Idle /\ ScanEnds

Reparse ==
    /\ pc = "read_tail" /\ ~(Cacheable /\ Storable(fp))
    /\ StartFull(TRUE)
    /\ UNCHANGED <<fp, start, fileVars, entry, served>>

Scan == \/ Check \/ Hit \/ CheckPrefix \/ ReadLine \/ EndRead \/ FinishUncached
        \/ Fingerprint \/ FinishFull \/ FinishTail \/ Reparse

Next == Write \/ CutBack \/ Scan

Spec == Init /\ [][Next]_vars

-------------------------------------------------------------------------------
\* The parse of each content a file can have, computed once.
Prefixes == UNION {{SubSeq(s, 1, n) : n \in 0..Len(s)} : s \in Scripts}
ParseOf == [lines \in Prefixes |-> ParseFile(lines)]
ParentMessages == ParseFile(ParentLog).messages

(***************************************************************************)
(* The entry is the parse of exactly the content it is fingerprinted with, *)
(* and its state is the state to resume from, however many scans of a      *)
(* growing, cut back or replaced file it was put together by.  A wrong     *)
(* entry would be served for as long as the file stays as it is.           *)
(***************************************************************************)
EntryIsFullParse ==
    entry # NoEntry =>
        LET p == ParseOf[entry.fp.lines]
        IN  /\ entry.fp.part = "none" /\ entry.offset = Size(entry.fp)
            /\ p.succeeded /\ ~p.unresolved
            /\ entry.messages = p.messages /\ entry.state = p.st

(***************************************************************************)
(* What a scan reports is the parse of a state the file was in, and no     *)
(* earlier a state than the one the scan found, although lines are added   *)
(* between its reads: none is counted twice and none that was complete is  *)
(* left out.  (A half-written line is lost to the scan that met it.)       *)
(***************************************************************************)
ServesAState ==
    [][(served' # served /\ served'.of # None) =>
         \E n \in Len(served'.of.lines)..Len(script) :
           served'.messages = ParseOf[SubSeq(script, 1, n)].messages]_vars

(***************************************************************************)
(* A scan of a clean file that nobody touched meanwhile leaves an entry    *)
(* the next scan hits: a quiet session is parsed once.                     *)
(***************************************************************************)
CleanFile == LET p == ParseOf[file.lines]
             IN  file.part = "none" /\ p.succeeded /\ ~p.unresolved

QuietScanCaches ==
    [][(pc # "idle" /\ pc' = "idle" /\ start = file /\ CleanFile) => IsHit']_vars

(***************************************************************************)
(* Copies of one row collapse by their key across the files of a scan, so  *)
(* the tokens the cached messages add to those of the parent session are   *)
(* the increments of this session: what a fork replays of its parent, and  *)
(* snapshots that are repeated or arrive late, add nothing, and nothing of *)
(* its own is dropped with them.  A line's `fresh` says which rows are the *)
(* session's own new increments; the parser never reads it.                *)
(***************************************************************************)
Keys(messages) == {messages[i].key : i \in DOMAIN messages} \ {None}

Counted(messages, seen) ==
    {i \in DOMAIN messages :
        \/ messages[i].key = None
        \/ /\ messages[i].key \notin seen
           /\ \A j \in 1..(i - 1) : messages[j].key # messages[i].key}

Total(tokens) == tokens.input + tokens.output + tokens.cache_read + tokens.reasoning

SumOver(S, f(_)) ==
    LET sum[T \in SUBSET S] ==
          IF T = {} THEN 0
          ELSE LET x == CHOOSE x \in T : TRUE IN f(x) + sum[T \ {x}]
    IN  sum[S]

FreshTokens(lines) ==
    SumOver({i \in DOMAIN lines : lines[i].type = "token_count" /\ lines[i].fresh},
            LAMBDA i : Total(IntoTokens(lines[i].last)))
      + SumOver({i \in DOMAIN lines : lines[i].type = "headless"},
                LAMBDA i : Total(lines[i].tokens))

CountsOwnTokens ==
    entry # NoEntry =>
        LET parent == Keys(ParentMessages)
            own == Counted(entry.messages, parent)
        IN  SumOver(own, LAMBDA i : Total(entry.messages[i].tokens))
              = FreshTokens(entry.fp.lines)
===============================================================================
