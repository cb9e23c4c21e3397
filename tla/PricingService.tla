---------------------------- MODULE PricingService ----------------------------
(***************************************************************************)
(* The process-wide pricing snapshot (pricing/mod.rs, get_or_init), the    *)
(* two dataset files all processes share (pricing/cache.rs) and the        *)
(* retrying downloads behind them (pricing/litellm.rs, openrouter.rs).     *)
(*                                                                         *)
(* A dataset is known by the timestamp it is saved with.  The network, the  *)
(* clock and the callers interleave with every await of the code; the      *)
(* stamp of a file and its rename are two steps, for other processes run.  *)
(***************************************************************************)
EXTENDS Integers, Sequences

CONSTANTS
    Process,     \* processes, each with one PRICING_SERVICE
    Caller,      \* tasks that want prices
    ProcessOf,   \* the process of a task
    CacheOnly,   \* the tasks that may be told to price from the files only
    TTL,         \* IN_MEMORY_TTL and CACHE_TTL_SECS, which are equal
    MAX_RETRIES, \* attempts of a download
    MaxTime,     \* bound on the clock
    Faults       \* what can go wrong

FaultKind == {"server_error", "network_error", "refused", "save", "cancel", "crash"}

ASSUME PricingAssumption ==
    /\ ProcessOf \in [Caller -> Process]
    /\ CacheOnly \subseteq Caller
    /\ TTL \in Nat \ {0}
    /\ MAX_RETRIES \in Nat \ {0}
    /\ MaxTime \in Nat \ {0}
    /\ Faults \subseteq FaultKind

Source == {"litellm", "openrouter"}
Time == 0..MaxTime
NoData == -1
Dataset == Time \cup {NoData}

VARIABLES
    now,      \* the clock
    file,     \* file[s]: the dataset file of source s
    service,  \* PRICING_SERVICE of each process
    queue,    \* tasks waiting for its lock, first come first served
    writer,   \* the task that holds its lock for writing, if any
    pc,       \* where in load_pricing_for_local_parse a task is
    since,    \* when a task began to read files and download
    fetch,    \* the downloads of that refresh
    answer    \* what a task was given

vars == <<now, file, service, queue, writer, pc, since, fetch, answer>>

\* "written" is a file's mtime, which no code reads.
NoFile == [timestamp |-> NoData, written |-> 0]
File == [timestamp : Dataset, written : Time]

Service == [data : [Source -> Dataset], started : Time, fetched_at : Time]
NoService == [data |-> [s \in Source |-> NoData], started |-> 0, fetched_at |-> 0]
\* A snapshot that was loaded holds the LiteLLM data at least.
Warm(snapshot) == snapshot.data["litellm"] # NoData

Download == [step : {"file", "try", "save", "done", "failed", "panicked", "read"},
             attempt : 0..(MAX_RETRIES - 1), last_error : BOOLEAN, data : Dataset]
NewDownload == [step |-> "file", attempt |-> 0, last_error |-> FALSE, data |-> NoData]

Answer == [kind : {"none", "fresh", "kept", "disk", "unpriced"}, at : Time, service : Service]
NoAnswer == [kind |-> "none", at |-> 0, service |-> NoService]

TypeOK ==
    /\ now \in Time
    /\ file \in [Source -> File]
    /\ service \in [Process -> Service]
    /\ queue \in [Process -> Seq(Caller)]
    /\ writer \in [Process -> SUBSET Caller]
    /\ pc \in [Caller -> {"idle", "reading", "locking", "fetch", "fallback", "answered", "panicked"}]
    /\ since \in [Caller -> Time]
    /\ fetch \in [Caller -> [Source -> Download]]
    /\ answer \in [Caller -> Answer]
-------------------------------------------------------------------------------
Tick ==
    /\ now < MaxTime
    /\ now' = now + 1
    /\ UNCHANGED <<file, service, queue, writer, pc, since, fetch, answer>>

\* As a mutant, off by one.
IsFresh_ToTheTick(snapshot) == Warm(snapshot) /\ now - snapshot.fetched_at <= TTL

\* The snapshot of a process is reused until IN_MEMORY_TTL has passed.
IsFresh(snapshot) == Warm(snapshot) /\ now - snapshot.fetched_at < TTL

\* load_cache: a file of the future is ignored, one past its age is too.
FileIsFresh(s) ==
    /\ file[s].timestamp # NoData
    /\ file[s].timestamp <= now
    /\ now - file[s].timestamp <= TTL

\* load_cache_any_age
FileIsUsable(s) == file[s].timestamp # NoData /\ file[s].timestamp <= now

\* The call returns, and what it downloaded is no longer of interest.
Give(c, kind, snapshot) ==
    /\ pc' = [pc EXCEPT ![c] = "answered"]
    /\ fetch' = [fetch EXCEPT ![c] = [s \in Source |-> NewDownload]]
    /\ answer' = [answer EXCEPT ![c] = [kind |-> kind, at |-> now, service |-> snapshot]]

AtHead(c) ==
    /\ writer[ProcessOf[c]] = {}
    /\ queue[ProcessOf[c]] # <<>>
    /\ Head(queue[ProcessOf[c]]) = c

Dequeue(c) == queue' = [queue EXCEPT ![ProcessOf[c]] = Tail(@)]
-------------------------------------------------------------------------------
(***************************************************************************)
(* get_or_init: a look under the read lock, then the write lock, a second  *)
(* look, and the refresh while the write lock is held.                     *)
(***************************************************************************)
Ask(c) ==
    /\ pc[c] = "idle"
    /\ pc' = [pc EXCEPT ![c] = "reading"]
    /\ queue' = [queue EXCEPT ![ProcessOf[c]] = Append(@, c)]
    /\ UNCHANGED <<now, file, service, writer, since, fetch, answer>>

\* Told to price from the files, a task does not come near the snapshot.
AskCacheOnly(c) ==
    /\ pc[c] = "idle" /\ c \in CacheOnly
    /\ pc' = [pc EXCEPT ![c] = "fallback"]
    /\ since' = [since EXCEPT ![c] = now]
    /\ UNCHANGED <<now, file, service, queue, writer, fetch, answer>>

ReadLock(c) ==
    /\ pc[c] = "reading"
    /\ AtHead(c)
    /\ IF IsFresh(service[ProcessOf[c]])
       THEN /\ Give(c, "fresh", service[ProcessOf[c]])
            /\ Dequeue(c)
       ELSE /\ pc' = [pc EXCEPT ![c] = "locking"]
            /\ queue' = [queue EXCEPT ![ProcessOf[c]] = Append(Tail(@), c)]
            /\ UNCHANGED <<fetch, answer>>
    /\ UNCHANGED <<now, file, service, writer, since>>

\* As a mutant, without the second look.
WriteLock_NoSecondLook(c) ==
    /\ pc[c] = "locking" /\ AtHead(c) /\ Dequeue(c)
    /\ pc' = [pc EXCEPT ![c] = "fetch"]
    /\ writer' = [writer EXCEPT ![ProcessOf[c]] = {c}]
    /\ since' = [since EXCEPT ![c] = now]
    /\ fetch' = [fetch EXCEPT ![c] = [s \in Source |-> NewDownload]]
    /\ UNCHANGED <<now, file, service, answer>>

WriteLock(c) ==
    /\ pc[c] = "locking"
    /\ AtHead(c)
    /\ Dequeue(c)
    /\ IF IsFresh(service[ProcessOf[c]])
       THEN /\ Give(c, "fresh", service[ProcessOf[c]])
            /\ UNCHANGED <<writer, since>>
       ELSE /\ pc' = [pc EXCEPT ![c] = "fetch"]
            /\ writer' = [writer EXCEPT ![ProcessOf[c]] = {c}]
            /\ since' = [since EXCEPT ![c] = now]
            /\ fetch' = [fetch EXCEPT ![c] = [s \in Source |-> NewDownload]]
            /\ UNCHANGED answer
    /\ UNCHANGED <<now, file, service>>

SetDownload(c, s, download) == fetch' = [fetch EXCEPT ![c] = [@ EXCEPT ![s] = download]]

\* The two downloads take turns within one task, at their awaits.
Downloading(c, s, step) ==
    /\ pc[c] = "fetch" /\ fetch[c][s].step = step
    /\ \A other \in Source \ {s} : fetch[c][other].step \notin {"save", "panicked"}

\* A fresh file saves the download.
ReadFile(c, s) ==
    /\ Downloading(c, s, "file")
    /\ SetDownload(c, s, IF FileIsFresh(s)
                         THEN [NewDownload EXCEPT !.step = "done", !.data = file[s].timestamp]
                         ELSE [fetch[c][s] EXCEPT !.step = "try"])
    /\ UNCHANGED <<now, file, service, queue, writer, pc, since, answer>>

\* The dataset arrives, and save_cache stamps it.
Downloaded(c, s) ==
    /\ Downloading(c, s, "try")
    /\ SetDownload(c, s, [NewDownload EXCEPT !.step = "save", !.data = now])
    /\ UNCHANGED <<now, file, service, queue, writer, pc, since, answer>>

\* The file is replaced; when that fails it is only reported.
SaveFile(c, s) ==
    /\ Downloading(c, s, "save")
    /\ \/ file' = [file EXCEPT ![s] = [timestamp |-> fetch[c][s].data, written |-> now]]
       \/ "save" \in Faults /\ UNCHANGED file
    /\ SetDownload(c, s, [fetch[c][s] EXCEPT !.step = "done"])
    /\ UNCHANGED <<now, service, queue, writer, pc, since, answer>>

\* An HTTP status that is not worth a retry, or a body that does not parse.
Refused(c, s) ==
    /\ "refused" \in Faults
    /\ Downloading(c, s, "try")
    /\ SetDownload(c, s, [NewDownload EXCEPT !.step = "failed"])
    /\ UNCHANGED <<now, file, service, queue, writer, pc, since, answer>>

\* As a mutant, one attempt too many.
AttemptFails_OffByOne(c, s, fault) ==
    /\ fault \in Faults
    /\ Downloading(c, s, "try")
    /\ SetDownload(c, s, [fetch[c][s] EXCEPT !.attempt = @ + 1,
             !.step = IF fetch[c][s].attempt + 1 > MAX_RETRIES THEN "failed" ELSE "try"])
    /\ UNCHANGED <<now, file, service, queue, writer, pc, since, answer>>

\* After the last attempt LiteLLM returns the error it kept, and expects to have
\* kept one.
Exhausted(s, last_error) ==
    IF s = "litellm" /\ ~last_error THEN "panicked" ELSE "failed"

\* One attempt fails.  LiteLLM keeps the error of the network, not the status of
\* the server.
AttemptFails(c, s, fault) ==
    /\ fault \in Faults
    /\ Downloading(c, s, "try")
    /\ LET last_error == fetch[c][s].last_error \/ fault = "network_error"
           attempt    == fetch[c][s].attempt + 1
       IN  SetDownload(c, s, IF attempt = MAX_RETRIES
               THEN [NewDownload EXCEPT !.step = Exhausted(s, last_error)]
               ELSE [fetch[c][s] EXCEPT !.attempt = attempt, !.last_error = last_error])
    /\ UNCHANGED <<now, file, service, queue, writer, pc, since, answer>>

Unlock(c) == writer' = [writer EXCEPT ![ProcessOf[c]] = @ \ {c}]

\* Both downloads ended, and LiteLLM's has data: the snapshot is replaced.  A
\* download of OpenRouter that failed counts as an empty dataset.
StoreService(c) ==
    /\ pc[c] = "fetch"
    /\ \A s \in Source : fetch[c][s].step \in {"done", "failed"}
    /\ fetch[c]["litellm"].step = "done"
    /\ LET snapshot == [data |-> [s \in Source |-> fetch[c][s].data],
                        started |-> since[c], fetched_at |-> now]
       IN  /\ service' = [service EXCEPT ![ProcessOf[c]] = snapshot]
           /\ Give(c, "fresh", snapshot)
    /\ Unlock(c)
    /\ UNCHANGED <<now, file, queue, since>>

\* As a mutant, a task that fails queues for another try.
RefreshFails_TriesAgain(c) ==
    /\ pc[c] = "fetch"
    /\ \A s \in Source : fetch[c][s].step \in {"done", "failed"}
    /\ fetch[c]["litellm"].step = "failed"
    /\ pc' = [pc EXCEPT ![c] = "locking"]
    /\ queue' = [queue EXCEPT ![ProcessOf[c]] = Append(@, c)]
    /\ fetch' = [fetch EXCEPT ![c] = [s \in Source |-> NewDownload]]
    /\ Unlock(c)
    /\ UNCHANGED <<now, file, service, since, answer>>

\* The refresh failed: the last snapshot is served again, if there is one.
RefreshFails(c) ==
    /\ pc[c] = "fetch"
    /\ \A s \in Source : fetch[c][s].step \in {"done", "failed"}
    /\ fetch[c]["litellm"].step = "failed"
    /\ IF Warm(service[ProcessOf[c]])
       THEN Give(c, "kept", service[ProcessOf[c]])
       ELSE /\ pc' = [pc EXCEPT ![c] = "fallback"]
            /\ fetch' = [fetch EXCEPT ![c] = [s \in Source |-> NewDownload]]
            /\ UNCHANGED answer
    /\ Unlock(c)
    /\ UNCHANGED <<now, file, service, queue, since>>

\* A panic unwinds the task and releases its lock.
Panic(c) ==
    /\ pc[c] = "fetch" /\ fetch[c]["litellm"].step = "panicked"
    /\ pc' = [pc EXCEPT ![c] = "panicked"]
    /\ Unlock(c)
    /\ UNCHANGED <<now, file, service, queue, since, fetch, answer>>

\* As a mutant, only a fresh file is read.
ReadAnyAge_FreshOnly(c, s) ==
    /\ pc[c] = "fallback" /\ fetch[c][s].step # "read"
    /\ s = "openrouter" => fetch[c]["litellm"].step = "read"
    /\ SetDownload(c, s, [fetch[c][s] EXCEPT !.step = "read",
                              !.data = IF FileIsFresh(s) THEN file[s].timestamp ELSE NoData])
    /\ UNCHANGED <<now, file, service, queue, writer, pc, since, answer>>

\* select_local_parse_pricing: without a snapshot, whatever the files hold.  They
\* are read one after the other.
ReadAnyAge(c, s) ==
    /\ pc[c] = "fallback" /\ fetch[c][s].step # "read"
    /\ s = "openrouter" => fetch[c]["litellm"].step = "read"
    /\ SetDownload(c, s, [fetch[c][s] EXCEPT !.step = "read",
                              !.data = IF FileIsUsable(s) THEN file[s].timestamp ELSE NoData])
    /\ UNCHANGED <<now, file, service, queue, writer, pc, since, answer>>

Fallback(c) ==
    /\ pc[c] = "fallback" /\ \A s \in Source : fetch[c][s].step = "read"
    /\ LET data == [s \in Source |-> fetch[c][s].data]
       IN  IF \E s \in Source : data[s] # NoData
           THEN Give(c, "disk", [NoService EXCEPT !.data = data])
           ELSE Give(c, "unpriced", NoService)
    /\ UNCHANGED <<now, file, service, queue, writer, since>>

\* What a call knew is gone when it ends.
Forget(c) ==
    /\ pc' = [pc EXCEPT ![c] = "idle"]
    /\ since' = [since EXCEPT ![c] = 0]
    /\ fetch' = [fetch EXCEPT ![c] = [s \in Source |-> NewDownload]]
    /\ answer' = [answer EXCEPT ![c] = NoAnswer]

Leave(c) ==
    /\ pc[c] \in {"answered", "panicked"}
    /\ Forget(c)
    /\ UNCHANGED <<now, file, service, queue, writer>>

\* A task waits in one place at most, and gives it up when it is dropped.
Without(waiting, c) ==
    IF \E i \in 1..Len(waiting) : waiting[i] = c
    THEN LET i == CHOOSE i \in 1..Len(waiting) : waiting[i] = c
         IN  SubSeq(waiting, 1, i - 1) \o SubSeq(waiting, i + 1, Len(waiting))
    ELSE waiting

\* The task is dropped at an await; no await parts a download and its file.
Cancel(c) ==
    /\ "cancel" \in Faults
    /\ pc[c] \in {"reading", "locking", "fetch"}
    /\ \A s \in Source : fetch[c][s].step \notin {"save", "panicked"}
    /\ Forget(c)
    /\ queue' = [queue EXCEPT ![ProcessOf[c]] = Without(@, c)]
    /\ Unlock(c)
    /\ UNCHANGED <<now, file, service>>

\* A process ends at any point and starts again with nothing but the files.
Crash(p) ==
    LET gone == {c \in Caller : ProcessOf[c] = p}
    IN  /\ "crash" \in Faults
        /\ service' = [service EXCEPT ![p] = NoService]
        /\ queue' = [queue EXCEPT ![p] = <<>>]
        /\ writer' = [writer EXCEPT ![p] = {}]
        /\ pc' = [c \in Caller |-> IF c \in gone THEN "idle" ELSE pc[c]]
        /\ since' = [c \in Caller |-> IF c \in gone THEN 0 ELSE since[c]]
        /\ fetch' = [c \in Caller |->
                IF c \in gone THEN [s \in Source |-> NewDownload] ELSE fetch[c]]
        /\ answer' = [c \in Caller |-> IF c \in gone THEN NoAnswer ELSE answer[c]]
        /\ UNCHANGED <<now, file>>
-------------------------------------------------------------------------------
\* Files may be there from earlier runs, one of them of the future.
Init ==
    /\ now = 0
    /\ file \in [Source -> {NoFile} \cup [timestamp : {0, 1}, written : {0}]]
    /\ service = [p \in Process |-> NoService]
    /\ queue = [p \in Process |-> <<>>]
    /\ writer = [p \in Process |-> {}]
    /\ pc = [c \in Caller |-> "idle"]
    /\ since = [c \in Caller |-> 0]
    /\ fetch = [c \in Caller |-> [s \in Source |-> NewDownload]]
    /\ answer = [c \in Caller |-> NoAnswer]

\* What a task does once it has asked.
Proceed(c) ==
    \/ ReadLock(c) \/ WriteLock(c)
    \/ \E s \in Source :
         \/ ReadFile(c, s) \/ Downloaded(c, s) \/ SaveFile(c, s) \/ Refused(c, s)
         \/ ReadAnyAge(c, s)
         \/ \E fault \in {"server_error", "network_error"} : AttemptFails(c, s, fault)
    \/ StoreService(c) \/ RefreshFails(c) \/ Panic(c) \/ Fallback(c)

Next ==
    \/ Tick
    \/ \E c \in Caller : Ask(c) \/ AskCacheOnly(c) \/ Proceed(c) \/ Leave(c) \/ Cancel(c)
    \/ \E p \in Process : Crash(p)

Spec == Init /\ [][Next]_vars
-------------------------------------------------------------------------------
\* The double-checked lock: however many tasks find the snapshot expired, one
\* downloads for them all, and two snapshots of a process are TTL apart.
RefreshesAreApart ==
    [][\A p \in Process :
         Warm(service[p]) /\ Warm(service'[p]) /\ service'[p] # service[p] =>
             now - service[p].fetched_at >= TTL]_vars

\* Prices handed out as fresh were downloaded less than two TTLs ago (a file in
\* its last second kept in memory for one more TTL), plus what the refresh took.
ServedAge ==
    \A c \in Caller, s \in Source :
        LET given == answer[c].service
        IN  answer[c].kind = "fresh" /\ given.data[s] # NoData =>
              answer[c].at - given.data[s] < 2 * TTL + (given.fetched_at - given.started)

\* A stale price beats none: a task leaves without prices only if whatever its
\* process and the disk have now came after it began to look.
UnpricedOnlyWithoutData ==
    \A c \in Caller : answer[c].kind = "unpriced" =>
        /\ c \notin CacheOnly /\ Warm(service[ProcessOf[c]]) =>
               service[ProcessOf[c]].fetched_at >= since[c]
        /\ \A s \in Source :
               \/ file[s].timestamp = NoData
               \/ file[s].timestamp >= since[c]
               \/ file[s].written >= since[c]

\* While a task refreshes it is alone with the lock, and its snapshot is expired.
RefreshInv ==
    \A c \in Caller : pc[c] = "fetch" =>
        /\ writer[ProcessOf[c]] = {c}
        /\ Warm(service[ProcessOf[c]]) => now - service[ProcessOf[c]].fetched_at >= TTL

\* The expect in litellm.rs: "should have error after retries".
ShouldHaveErrorAfterRetries == \A c \in Caller : pc[c] # "panicked"

\* A task that runs takes its next step; the lock is fair; an attempt ends, for
\* the client has a timeout.
FairSpec == Spec /\ \A c \in Caller : WF_vars(Proceed(c))

\* Every task that asks gets an answer, or learns of a panic, unless it is dropped.
EveryTaskIsAnswered ==
    \A c \in Caller : pc[c] = "reading" ~> pc[c] \in {"answered", "panicked", "idle"}
===============================================================================
