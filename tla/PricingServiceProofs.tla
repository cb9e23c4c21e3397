------------------------- MODULE PricingServiceProofs -------------------------
(***************************************************************************)
(* Why the double-checked lock of get_or_init downloads once: a task that  *)
(* refreshes is the only holder of its process's lock, and nobody else     *)
(* replaces the snapshot that it found expired.                            *)
(*                                                                         *)
(* Then the types, and from them how old a price can be and when there is  *)
(* none: both by what each task knows, which the steps of others keep.     *)
(***************************************************************************)
EXTENDS PricingService, TLAPS

\* The types the argument needs; the rest of TypeOK does not matter to it.
LockTypes ==
    /\ now \in Nat
    /\ pc = [c \in Caller |-> pc[c]]
    /\ writer = [p \in Process |-> writer[p]]
    /\ service = [p \in Process |-> service[p]]
    /\ \A p \in Process : service[p].fetched_at \in Nat

IInv == LockTypes /\ RefreshInv

\* Initially no lock is taken.
LEMMA InitIInv == Init => IInv
<1> USE PricingAssumption DEF Time
<1> SUFFICES ASSUME Init PROVE IInv
  OBVIOUS
<1>1. LockTypes
  BY DEF Init, LockTypes, NoService
<1>2. RefreshInv
  BY DEF Init, RefreshInv
<1> QED
  BY <1>1, <1>2 DEF IInv

\* A step that leaves the lock, the snapshot and the clock alone, and brings no
\* task into a refresh, preserves the invariant.
LEMMA Harmless ==
    ASSUME IInv, UNCHANGED <<now, service, writer>>,
           pc' = [c \in Caller |-> pc'[c]],
           \A c \in Caller : pc'[c] = "fetch" => pc[c] = "fetch"
    PROVE  IInv'
BY DEF IInv, LockTypes, RefreshInv, Warm

\* So does a step that ends the refresh of one task, if it replaces at most the
\* snapshot of that task's process.
LEMMA RefreshEnds ==
    ASSUME IInv, NEW c \in Caller, pc[c] = "fetch", pc'[c] # "fetch", now' = now,
           NEW to, pc' = [pc EXCEPT ![c] = to], Unlock(c),
           NEW snapshot, snapshot.fetched_at \in Nat,
           service' = service \/ service' = [service EXCEPT ![ProcessOf[c]] = snapshot]
    PROVE  IInv'
<1> USE PricingAssumption
<1>1. LockTypes'
  BY DEF IInv, LockTypes, Unlock
<1>2. ASSUME NEW d \in Caller, pc'[d] = "fetch"
      PROVE  /\ writer'[ProcessOf[d]] = {d}
             /\ Warm(service[ProcessOf[d]])' =>
                    now' - service'[ProcessOf[d]].fetched_at >= TTL
  <2>1. d # c /\ pc[d] = "fetch"
    BY <1>2 DEF IInv, LockTypes
  <2>2. writer[ProcessOf[d]] = {d} /\ writer[ProcessOf[c]] = {c}
    BY <2>1 DEF IInv, RefreshInv
  <2>3. ProcessOf[d] # ProcessOf[c]
    BY <2>1, <2>2
  <2>4. /\ writer'[ProcessOf[d]] = writer[ProcessOf[d]]
        /\ service'[ProcessOf[d]] = service[ProcessOf[d]]
    BY <2>3 DEF IInv, LockTypes, Unlock
  <2> QED
    BY <2>1, <2>2, <2>4 DEF IInv, RefreshInv, Warm
<1> QED
  BY <1>1, <1>2 DEF IInv, RefreshInv

\* Every step keeps the lock exclusive.
LEMMA NextIInv == IInv /\ [Next]_vars => IInv'
<1> USE PricingAssumption DEF Time
<1> SUFFICES ASSUME IInv, [Next]_vars PROVE IInv'
  OBVIOUS
<1>1. CASE Tick
  <2>1. UNCHANGED <<pc, writer, service>> /\ now' = now + 1
    BY <1>1 DEF Tick
  <2>2. now \in Nat /\ now' \in Nat /\ TTL \in Nat
    BY <2>1 DEF IInv, LockTypes
  <2>3. LockTypes'
    BY <2>1, <2>2 DEF IInv, LockTypes
  <2>4. ASSUME NEW c \in Caller, pc[c] = "fetch", Warm(service[ProcessOf[c]])
        PROVE  now' - service[ProcessOf[c]].fetched_at >= TTL
    <3>1. now - service[ProcessOf[c]].fetched_at >= TTL
      BY <2>4 DEF IInv, RefreshInv
    <3>2. service[ProcessOf[c]].fetched_at \in Nat
      BY DEF IInv, LockTypes
    <3> QED
      BY <2>1, <2>2, <3>1, <3>2
  <2> QED
    BY <2>1, <2>3, <2>4 DEF IInv, RefreshInv, Warm
<1>2. ASSUME NEW c \in Caller, Ask(c) PROVE IInv'
  <2>1. /\ UNCHANGED <<now, service, writer>>
        /\ pc' = [pc EXCEPT ![c] = "reading"]
    BY <1>2 DEF Ask
  <2> QED
    BY <2>1, Harmless DEF IInv, LockTypes
<1>3. ASSUME NEW c \in Caller, AskCacheOnly(c) PROVE IInv'
  <2>1. /\ UNCHANGED <<now, service, writer>>
        /\ pc' = [pc EXCEPT ![c] = "fallback"]
    BY <1>3 DEF AskCacheOnly
  <2> QED
    BY <2>1, Harmless DEF IInv, LockTypes
<1>4. ASSUME NEW c \in Caller, ReadLock(c) PROVE IInv'
  <2>1. /\ UNCHANGED <<now, service, writer>>
        /\ \/ pc' = [pc EXCEPT ![c] = "answered"]
           \/ pc' = [pc EXCEPT ![c] = "locking"]
    BY <1>4 DEF ReadLock, Give
  <2> QED
    BY <2>1, Harmless DEF IInv, LockTypes
<1>5. ASSUME NEW c \in Caller, WriteLock(c) PROVE IInv'
  <2>1. CASE IsFresh(service[ProcessOf[c]])
    <3>1. /\ UNCHANGED <<now, service, writer>>
          /\ pc' = [pc EXCEPT ![c] = "answered"]
      BY <1>5, <2>1 DEF WriteLock, Give
    <3> QED
      BY <3>1, Harmless DEF IInv, LockTypes
  <2>2. CASE ~IsFresh(service[ProcessOf[c]])
    <3>1. /\ UNCHANGED <<now, service>>
          /\ pc' = [pc EXCEPT ![c] = "fetch"]
          /\ writer' = [writer EXCEPT ![ProcessOf[c]] = {c}]
          /\ writer[ProcessOf[c]] = {}
      BY <1>5, <2>2 DEF WriteLock, AtHead
    <3>2. LockTypes'
      BY <3>1 DEF IInv, LockTypes
    <3>3. ASSUME NEW d \in Caller, pc'[d] = "fetch"
          PROVE  /\ writer'[ProcessOf[d]] = {d}
                 /\ Warm(service[ProcessOf[d]])' =>
                        now' - service'[ProcessOf[d]].fetched_at >= TTL
      <4>1. CASE d = c
        <5>1. writer'[ProcessOf[c]] = {c}
          BY <3>1 DEF IInv, LockTypes
        <5>2. service[ProcessOf[c]].fetched_at \in Nat /\ now \in Nat
          BY DEF IInv, LockTypes
        <5>3. Warm(service[ProcessOf[c]]) => now - service[ProcessOf[c]].fetched_at >= TTL
          BY <2>2, <5>2 DEF IsFresh
        <5> QED
          BY <3>1, <4>1, <5>1, <5>3 DEF Warm
      <4>2. CASE d # c
        <5>1. pc[d] = "fetch"
          BY <3>1, <3>3, <4>2 DEF IInv, LockTypes
        <5>2. writer[ProcessOf[d]] = {d}
          BY <5>1 DEF IInv, RefreshInv
        <5>3. ProcessOf[d] # ProcessOf[c]
          BY <3>1, <5>2
        <5> QED
          BY <3>1, <5>1, <5>2, <5>3 DEF IInv, LockTypes, RefreshInv, Warm
      <4> QED
        BY <4>1, <4>2
    <3> QED
      BY <3>2, <3>3 DEF IInv, RefreshInv
  <2> QED
    BY <2>1, <2>2
<1>6. ASSUME NEW c \in Caller, NEW s \in Source,
             \/ ReadFile(c, s) \/ Downloaded(c, s) \/ SaveFile(c, s) \/ Refused(c, s)
             \/ ReadAnyAge(c, s)
             \/ \E fault \in {"server_error", "network_error"} : AttemptFails(c, s, fault)
      PROVE  IInv'
  <2>1. UNCHANGED <<now, service, writer, pc>>
    BY <1>6 DEF ReadFile, Downloaded, SaveFile, Refused, ReadAnyAge, AttemptFails
  <2> QED
    BY <2>1, Harmless DEF IInv, LockTypes
<1>7. ASSUME NEW c \in Caller, StoreService(c) PROVE IInv'
  <2>1. /\ pc[c] = "fetch" /\ now' = now /\ Unlock(c)
        /\ pc' = [pc EXCEPT ![c] = "answered"]
    BY <1>7 DEF StoreService, Give
  <2>2. PICK snapshot : /\ snapshot.fetched_at = now
                        /\ service' = [service EXCEPT ![ProcessOf[c]] = snapshot]
    BY <1>7 DEF StoreService
  <2>3. snapshot.fetched_at \in Nat /\ pc'[c] # "fetch"
    BY <2>1, <2>2 DEF IInv, LockTypes
  <2> QED
    BY <2>1, <2>2, <2>3, RefreshEnds
<1>8. ASSUME NEW c \in Caller, RefreshFails(c) \/ Panic(c) PROVE IInv'
  <2>1. PICK to \in {"answered", "fallback", "panicked"} : pc' = [pc EXCEPT ![c] = to]
    BY <1>8 DEF RefreshFails, Panic, Give
  <2>2. pc[c] = "fetch" /\ now' = now /\ Unlock(c) /\ service' = service
    BY <1>8 DEF RefreshFails, Panic
  <2>3. pc'[c] # "fetch" /\ NoService.fetched_at \in Nat
    BY <2>1 DEF IInv, LockTypes, NoService
  <2> QED
    BY <2>1, <2>2, <2>3, RefreshEnds
<1>9. ASSUME NEW c \in Caller, Fallback(c) \/ Leave(c) PROVE IInv'
  <2>1. /\ UNCHANGED <<now, service, writer>>
        /\ \/ pc' = [pc EXCEPT ![c] = "answered"]
           \/ pc' = [pc EXCEPT ![c] = "idle"]
    BY <1>9 DEF Fallback, Leave, Give, Forget
  <2> QED
    BY <2>1, Harmless DEF IInv, LockTypes
<1>10. ASSUME NEW c \in Caller, Cancel(c) PROVE IInv'
  <2>1. /\ now' = now /\ service' = service /\ Unlock(c)
        /\ pc' = [pc EXCEPT ![c] = "idle"]
    BY <1>10 DEF Cancel, Forget
  <2>2. LockTypes'
    BY <2>1 DEF IInv, LockTypes, Unlock
  <2>3. ASSUME NEW d \in Caller, pc'[d] = "fetch"
        PROVE  pc[d] = "fetch" /\ writer'[ProcessOf[d]] = {d}
    <3>1. d # c /\ pc[d] = "fetch"
      BY <2>1, <2>3 DEF IInv, LockTypes
    <3>2. writer[ProcessOf[d]] = {d}
      BY <3>1 DEF IInv, RefreshInv
    <3>3. writer'[ProcessOf[d]] \in {{d}, {d} \ {c}}
      BY <2>1, <3>2 DEF IInv, LockTypes, Unlock
    <3> QED
      BY <3>1, <3>3
  <2> QED
    BY <2>1, <2>2, <2>3 DEF IInv, RefreshInv, Warm
<1>11. ASSUME NEW p \in Process, Crash(p) PROVE IInv'
  <2>1. /\ now' = now
        /\ service' = [service EXCEPT ![p] = NoService]
        /\ writer' = [writer EXCEPT ![p] = {}]
        /\ pc' = [c \in Caller |-> IF ProcessOf[c] = p THEN "idle" ELSE pc[c]]
    BY <1>11 DEF Crash
  <2>2. LockTypes'
    BY <2>1 DEF IInv, LockTypes, NoService
  <2>3. ASSUME NEW d \in Caller, pc'[d] = "fetch"
        PROVE  pc[d] = "fetch" /\ ProcessOf[d] # p
    BY <2>1, <2>3
  <2> QED
    BY <2>1, <2>2, <2>3 DEF IInv, LockTypes, RefreshInv, Warm
<1>12. CASE UNCHANGED vars
  BY <1>12 DEF vars, IInv, LockTypes, RefreshInv, Warm
<1> QED
  BY <1>1, <1>2, <1>3, <1>4, <1>5, <1>6, <1>7, <1>8, <1>9, <1>10, <1>11, <1>12
  DEF Next, Proceed

\* Only two actions touch a snapshot.
LEMMA ServiceChanges ==
    ASSUME [Next]_vars, service' # service
    PROVE  (\E c \in Caller : StoreService(c)) \/ (\E p \in Process : Crash(p))
<1>1. ~Tick /\ ~UNCHANGED vars
  BY DEF Tick, vars
<1>2. ASSUME NEW c \in Caller
      PROVE  /\ ~Ask(c) /\ ~AskCacheOnly(c) /\ ~ReadLock(c) /\ ~WriteLock(c)
             /\ ~RefreshFails(c) /\ ~Panic(c) /\ ~Fallback(c) /\ ~Leave(c) /\ ~Cancel(c)
  BY DEF Ask, AskCacheOnly, ReadLock, WriteLock, RefreshFails, Panic, Fallback, Leave, Cancel
<1>3. ASSUME NEW c \in Caller, NEW s \in Source
      PROVE  /\ ~ReadFile(c, s) /\ ~Downloaded(c, s) /\ ~SaveFile(c, s) /\ ~Refused(c, s)
             /\ ~ReadAnyAge(c, s)
             /\ \A fault \in {"server_error", "network_error"} : ~AttemptFails(c, s, fault)
  BY DEF ReadFile, Downloaded, SaveFile, Refused, ReadAnyAge, AttemptFails
<1> QED
  BY <1>1, <1>2, <1>3 DEF Next, Proceed

\* While a task downloads it is alone with its process's lock, and the snapshot
\* it is about to replace is expired: for any number of processes and tasks.
THEOREM RefreshIsExclusive == Spec => []RefreshInv
<1>1. IInv => RefreshInv
  BY DEF IInv
<1> QED
  BY <1>1, InitIInv, NextIInv, PTL DEF Spec

\* The double-checked lock: however many tasks of however many processes find
\* their snapshot expired, two snapshots of a process are at least TTL apart.
THEOREM RefreshedOncePerTTL == Spec => RefreshesAreApart
<1>1. ASSUME IInv, [Next]_vars, NEW p \in Process,
             Warm(service[p]), Warm(service[p])', service'[p] # service[p]
      PROVE  now - service[p].fetched_at >= TTL
  <2>1. CASE \E c \in Caller : StoreService(c)
    <3>1. PICK c \in Caller : StoreService(c)
      BY <2>1
    <3>2. ProcessOf[c] = p
      BY <1>1, <3>1 DEF StoreService, IInv, LockTypes
    <3> QED
      BY <1>1, <3>1, <3>2 DEF StoreService, IInv, RefreshInv
  <2>2. CASE \E q \in Process : Crash(q)
    <3>1. PICK q \in Process : service' = [service EXCEPT ![q] = NoService]
      BY <2>2 DEF Crash
    <3>2. q = p
      BY <1>1, <3>1 DEF IInv, LockTypes
    <3>3. service'[p] = NoService
      <4>1. DOMAIN service = Process
        BY <1>1 DEF IInv, LockTypes
      <4> QED
        BY <3>1, <3>2, <4>1
    <3>4. NoService.data["litellm"] = NoData
      BY DEF NoService, Source
    <3> QED
      BY <1>1, <3>3, <3>4 DEF Warm
  <2> QED
    BY <1>1, <2>1, <2>2, ServiceChanges
<1>2. IInv /\ [Next]_vars =>
        [\A p \in Process :
           Warm(service[p]) /\ Warm(service'[p]) /\ service'[p] # service[p] =>
               now - service[p].fetched_at >= TTL]_vars
  BY <1>1 DEF Warm
<1> QED
  BY <1>2, InitIInv, NextIInv, PTL DEF Spec, RefreshesAreApart
-------------------------------------------------------------------------------
(***************************************************************************)
(* The types.                                                              *)
(***************************************************************************)
LEMMA NewValues ==
    /\ NewDownload \in Download
    /\ NoService \in Service
    /\ NoAnswer \in Answer
<1> USE PricingAssumption
<1>1. 0 \in Time /\ NoData \in Dataset /\ Time \subseteq Dataset /\ 0 \in 0..(MAX_RETRIES - 1)
  BY DEF Time, NoData, Dataset
<1> QED
  BY <1>1 DEF NewDownload, Download, NoService, Service, NoAnswer, Answer

\* A part of a queue is a queue.
LEMMA SubSeqOfTasks ==
    ASSUME NEW q \in Seq(Caller), NEW m \in Int, NEW n \in Int, m >= 1, n <= Len(q)
    PROVE  SubSeq(q, m, n) \in Seq(Caller)
OBVIOUS

\* So is what is left of one without a task.
LEMMA WithoutType ==
    ASSUME NEW waiting \in Seq(Caller), NEW c
    PROVE  Without(waiting, c) \in Seq(Caller)
<1>1. CASE \E i \in 1..Len(waiting) : waiting[i] = c
  <2> DEFINE i == CHOOSE i \in 1..Len(waiting) : waiting[i] = c
  <2>1. i \in 1..Len(waiting)
    BY <1>1
  <2>2. Without(waiting, c) = SubSeq(waiting, 1, i - 1) \o SubSeq(waiting, i + 1, Len(waiting))
    BY <1>1 DEF Without
  <2> HIDE DEF i
  <2>3. /\ SubSeq(waiting, 1, i - 1) \in Seq(Caller)
        /\ SubSeq(waiting, i + 1, Len(waiting)) \in Seq(Caller)
    BY <2>1, SubSeqOfTasks
  <2> QED
    BY <2>2, <2>3
<1>2. CASE ~\E i \in 1..Len(waiting) : waiting[i] = c
  BY <1>2 DEF Without
<1> QED
  BY <1>1, <1>2

\* Initially all variables have their types.
LEMMA InitTypes == Init => TypeOK
<1> USE PricingAssumption
<1> SUFFICES ASSUME Init PROVE TypeOK
  OBVIOUS
<1>1. NoFile \in File /\ [timestamp : {0, 1}, written : {0}] \subseteq File
  BY DEF NoFile, File, Dataset, NoData, Time
<1> QED
  BY <1>1, NewValues DEF Init, TypeOK, Time

\* What the end of a call writes is well typed.
LEMMA GiveTypes ==
    ASSUME TypeOK, NEW c \in Caller, NEW kind \in {"fresh", "kept", "disk", "unpriced"},
           NEW snapshot \in Service, Give(c, kind, snapshot)
    PROVE  /\ pc' \in [Caller -> {"idle", "reading", "locking", "fetch", "fallback",
                                  "answered", "panicked"}]
           /\ fetch' \in [Caller -> [Source -> Download]]
           /\ answer' \in [Caller -> Answer]
<1>1. [kind |-> kind, at |-> now, service |-> snapshot] \in Answer
  BY DEF TypeOK, Answer
<1> QED
  BY <1>1, NewValues DEF Give, TypeOK

\* A download that goes on is a download.
LEMMA DownloadTypes ==
    ASSUME TypeOK, NEW c \in Caller, NEW s \in Source,
           NEW download \in Download, SetDownload(c, s, download)
    PROVE  fetch' \in [Caller -> [Source -> Download]]
BY DEF SetDownload, TypeOK

\* Every step keeps the types.
LEMMA NextTypes == TypeOK /\ [Next]_vars => TypeOK'
<1> USE PricingAssumption
<1> SUFFICES ASSUME TypeOK, [Next]_vars PROVE TypeOK'
  OBVIOUS
<1>1. CASE Tick
  BY <1>1 DEF Tick, TypeOK, Time
<1>2. ASSUME NEW c \in Caller, Ask(c) PROVE TypeOK'
  BY <1>2 DEF Ask, TypeOK
<1>3. ASSUME NEW c \in Caller, AskCacheOnly(c) PROVE TypeOK'
  BY <1>3 DEF AskCacheOnly, TypeOK
<1>4. ASSUME NEW c \in Caller, ReadLock(c) PROVE TypeOK'
  <2>1. /\ queue[ProcessOf[c]] \in Seq(Caller) /\ queue[ProcessOf[c]] # <<>>
        /\ service[ProcessOf[c]] \in Service
    BY <1>4 DEF ReadLock, AtHead, TypeOK
  <2>2. queue' \in [Process -> Seq(Caller)]
    <3>1. /\ Tail(queue[ProcessOf[c]]) \in Seq(Caller)
          /\ Append(Tail(queue[ProcessOf[c]]), c) \in Seq(Caller)
      BY <2>1
    <3> QED
      BY <1>4, <3>1 DEF ReadLock, Dequeue, TypeOK
  <2>3. CASE IsFresh(service[ProcessOf[c]])
    BY <1>4, <2>1, <2>2, <2>3, GiveTypes DEF ReadLock, TypeOK
  <2>4. CASE ~IsFresh(service[ProcessOf[c]])
    BY <1>4, <2>2, <2>4 DEF ReadLock, TypeOK
  <2> QED
    BY <2>3, <2>4
<1>5. ASSUME NEW c \in Caller, WriteLock(c) PROVE TypeOK'
  <2>1. /\ queue[ProcessOf[c]] \in Seq(Caller) /\ queue[ProcessOf[c]] # <<>>
        /\ service[ProcessOf[c]] \in Service
    BY <1>5 DEF WriteLock, AtHead, TypeOK
  <2>2. queue' \in [Process -> Seq(Caller)]
    BY <1>5, <2>1 DEF WriteLock, Dequeue, TypeOK
  <2>3. CASE IsFresh(service[ProcessOf[c]])
    BY <1>5, <2>1, <2>2, <2>3, GiveTypes DEF WriteLock, TypeOK
  <2>4. CASE ~IsFresh(service[ProcessOf[c]])
    <3>1. /\ pc' = [pc EXCEPT ![c] = "fetch"]
          /\ writer' = [writer EXCEPT ![ProcessOf[c]] = {c}]
          /\ since' = [since EXCEPT ![c] = now]
          /\ fetch' = [fetch EXCEPT ![c] = [s \in Source |-> NewDownload]]
          /\ UNCHANGED <<now, file, service, answer>>
      BY <1>5, <2>4 DEF WriteLock
    <3>2. fetch' \in [Caller -> [Source -> Download]]
      BY <3>1, NewValues DEF TypeOK
    <3> QED
      BY <2>2, <3>1, <3>2 DEF TypeOK
  <2> QED
    BY <2>3, <2>4
<1>6. ASSUME NEW c \in Caller, NEW s \in Source,
             \/ ReadFile(c, s) \/ Downloaded(c, s) \/ SaveFile(c, s) \/ Refused(c, s)
             \/ ReadAnyAge(c, s)
             \/ \E fault \in {"server_error", "network_error"} : AttemptFails(c, s, fault)
      PROVE  TypeOK'
  <2>1. /\ fetch[c][s] \in Download /\ NewDownload \in Download
        /\ file[s] \in File /\ now \in Dataset /\ NoData \in Dataset
    BY NewValues DEF TypeOK, Dataset
  <2>2. PICK download \in Download : SetDownload(c, s, download)
    <3>1. CASE ReadFile(c, s)
      <4>1. /\ [NewDownload EXCEPT !.step = "done", !.data = file[s].timestamp] \in Download
            /\ [fetch[c][s] EXCEPT !.step = "try"] \in Download
        BY <2>1 DEF Download, File
      <4> QED
        BY <3>1, <4>1 DEF ReadFile
    <3>2. CASE Downloaded(c, s)
      <4>1. [NewDownload EXCEPT !.step = "save", !.data = now] \in Download
        BY <2>1 DEF Download
      <4> QED
        BY <3>2, <4>1 DEF Downloaded
    <3>3. CASE SaveFile(c, s) \/ Refused(c, s)
      <4>1. /\ [fetch[c][s] EXCEPT !.step = "done"] \in Download
            /\ [NewDownload EXCEPT !.step = "failed"] \in Download
        BY <2>1 DEF Download
      <4> QED
        BY <3>3, <4>1 DEF SaveFile, Refused
    <3>4. CASE ReadAnyAge(c, s)
      <4>1. /\ [fetch[c][s] EXCEPT !.step = "read", !.data = file[s].timestamp] \in Download
            /\ [fetch[c][s] EXCEPT !.step = "read", !.data = NoData] \in Download
        BY <2>1 DEF Download, File
      <4> QED
        BY <3>4, <4>1 DEF ReadAnyAge
    <3>5. ASSUME NEW fault \in {"server_error", "network_error"}, AttemptFails(c, s, fault)
          PROVE  \E download \in Download : SetDownload(c, s, download)
      <4> DEFINE last_error == fetch[c][s].last_error \/ fault = "network_error"
                 attempt == fetch[c][s].attempt + 1
      <4>1. [NewDownload EXCEPT !.step = Exhausted(s, last_error)] \in Download
        BY <2>1 DEF Download, Exhausted
      <4>2. CASE attempt = MAX_RETRIES
        BY <3>5, <4>1, <4>2 DEF AttemptFails
      <4>3. CASE attempt # MAX_RETRIES
        <5>1. attempt \in 0..(MAX_RETRIES - 1)
          BY <2>1, <4>3 DEF Download
        <5>2. last_error \in BOOLEAN
          OBVIOUS
        <5>3. [fetch[c][s] EXCEPT !.attempt = attempt, !.last_error = last_error] \in Download
          BY <2>1, <5>1, <5>2 DEF Download
        <5> QED
          BY <3>5, <4>3, <5>3 DEF AttemptFails
      <4> QED
        BY <4>2, <4>3
    <3> QED
      BY <1>6, <3>1, <3>2, <3>3, <3>4, <3>5
  <2>3. fetch' \in [Caller -> [Source -> Download]]
    BY <2>2, DownloadTypes
  <2>4. file' \in [Source -> File]
    <3>1. CASE SaveFile(c, s)
      <4>1. [timestamp |-> fetch[c][s].data, written |-> now] \in File
        BY <2>1 DEF Download, File, TypeOK
      <4> QED
        BY <3>1, <4>1 DEF SaveFile, TypeOK
    <3>2. CASE ~SaveFile(c, s)
      BY <1>6, <3>2 DEF ReadFile, Downloaded, Refused, ReadAnyAge, AttemptFails, TypeOK
    <3> QED
      BY <3>1, <3>2
  <2>5. UNCHANGED <<now, service, queue, writer, pc, since, answer>>
    BY <1>6 DEF ReadFile, Downloaded, SaveFile, Refused, ReadAnyAge, AttemptFails
  <2> QED
    BY <2>3, <2>4, <2>5 DEF TypeOK
<1>7. ASSUME NEW c \in Caller, StoreService(c) PROVE TypeOK'
  <2> DEFINE snapshot == [data |-> [s \in Source |-> fetch[c][s].data],
                          started |-> since[c], fetched_at |-> now]
  <2>1. snapshot \in Service
    BY DEF TypeOK, Service, Download
  <2>2. /\ Give(c, "fresh", snapshot)
        /\ service' = [service EXCEPT ![ProcessOf[c]] = snapshot]
        /\ Unlock(c)
        /\ UNCHANGED <<now, file, queue, since>>
    BY <1>7 DEF StoreService
  <2> HIDE DEF snapshot
  <2> QED
    BY <2>1, <2>2, GiveTypes DEF TypeOK, Unlock
<1>8. ASSUME NEW c \in Caller, RefreshFails(c) PROVE TypeOK'
  <2>1. service[ProcessOf[c]] \in Service
    BY DEF TypeOK
  <2>2. UNCHANGED <<now, file, service, queue, since>> /\ Unlock(c)
    BY <1>8 DEF RefreshFails
  <2>3. CASE Warm(service[ProcessOf[c]])
    BY <1>8, <2>1, <2>2, <2>3, GiveTypes DEF RefreshFails, TypeOK, Unlock
  <2>4. CASE ~Warm(service[ProcessOf[c]])
    <3>1. /\ pc' = [pc EXCEPT ![c] = "fallback"]
          /\ fetch' = [fetch EXCEPT ![c] = [s \in Source |-> NewDownload]]
          /\ UNCHANGED answer
      BY <1>8, <2>4 DEF RefreshFails
    <3>2. fetch' \in [Caller -> [Source -> Download]]
      BY <3>1, NewValues DEF TypeOK
    <3> QED
      BY <2>2, <3>1, <3>2 DEF TypeOK, Unlock
  <2> QED
    BY <2>3, <2>4
<1>9. ASSUME NEW c \in Caller, Panic(c) PROVE TypeOK'
  BY <1>9 DEF Panic, Unlock, TypeOK
<1>10. ASSUME NEW c \in Caller, Fallback(c) PROVE TypeOK'
  <2> DEFINE data == [s \in Source |-> fetch[c][s].data]
  <2>1. [NoService EXCEPT !.data = data] \in Service /\ NoService \in Service
    <3>1. data \in [Source -> Dataset]
      BY DEF TypeOK, Download
    <3> HIDE DEF data
    <3> QED
      BY <3>1, NewValues DEF Service
  <2>2. UNCHANGED <<now, file, service, queue, writer, since>>
    BY <1>10 DEF Fallback
  <2>3. Give(c, "disk", [NoService EXCEPT !.data = data]) \/ Give(c, "unpriced", NoService)
    BY <1>10 DEF Fallback
  <2> HIDE DEF data
  <2> QED
    BY <2>1, <2>2, <2>3, GiveTypes DEF TypeOK
<1>11. ASSUME NEW c \in Caller, Leave(c) PROVE TypeOK'
  BY <1>11, NewValues DEF Leave, Forget, TypeOK, Time
<1>12. ASSUME NEW c \in Caller, Cancel(c) PROVE TypeOK'
  <2>1. Without(queue[ProcessOf[c]], c) \in Seq(Caller)
    BY WithoutType DEF TypeOK
  <2>2. queue' \in [Process -> Seq(Caller)]
    BY <1>12, <2>1 DEF Cancel, TypeOK
  <2> QED
    BY <1>12, <2>2, NewValues DEF Cancel, Forget, Unlock, TypeOK, Time
<1>13. ASSUME NEW p \in Process, Crash(p) PROVE TypeOK'
  <2>1. <<>> \in Seq(Caller) /\ 0 \in Time
    BY DEF Time
  <2> QED
    BY <1>13, <2>1, NewValues DEF Crash, TypeOK
<1>14. CASE UNCHANGED vars
  BY <1>14 DEF vars, TypeOK
<1> QED
  BY <1>1, <1>2, <1>3, <1>4, <1>5, <1>6, <1>7, <1>8, <1>9, <1>10, <1>11, <1>12, <1>13, <1>14
  DEF Next, Proceed

\* Every state is well typed: no attempt beyond the last, no time beyond the
\* clock, no task in a queue that is not one.
THEOREM TypeCorrect == Spec => []TypeOK
BY InitTypes, NextTypes, PTL DEF Spec
-------------------------------------------------------------------------------
(***************************************************************************)
(* How old prices are, and when there are none.  A task's data is at most  *)
(* TTL older than its look at the files, and a snapshot that is served as  *)
(* fresh was stored less than TTL ago.  What a task did not find, in the   *)
(* snapshot or on the disk, came after it looked.                          *)
(***************************************************************************)
YoungSince(time, data) == data # NoData => time - data <= TTL

SnapshotIsYoung(snapshot) ==
    \A s \in Source : YoungSince(snapshot.started, snapshot.data[s])

\* What the disk holds of a source came after the task began to look.
CameLater(c, s) ==
    \/ file[s].timestamp = NoData
    \/ file[s].timestamp >= since[c]
    \/ file[s].written >= since[c]

FreshIsYoung(c) ==
    answer[c].kind = "fresh" =>
        /\ answer[c].at - answer[c].service.fetched_at < TTL
        /\ SnapshotIsYoung(answer[c].service)

FoundNothing(c) == pc[c] = "fallback" \/ answer[c].kind = "unpriced"

FoundNoFile(c, s) ==
    \/ answer[c].kind = "unpriced"
    \/ fetch[c][s].step = "read" /\ fetch[c][s].data = NoData

TaskInv(c) ==
    /\ since[c] <= now
    /\ answer[c].kind # "none" => pc[c] = "answered"
    /\ FreshIsYoung(c)
    /\ \A s \in Source :
           /\ pc[c] = "fetch" => YoungSince(since[c], fetch[c][s].data)
           /\ fetch[c][s].step = "read" => pc[c] = "fallback"
           /\ FoundNoFile(c, s) => CameLater(c, s)
    /\ FoundNothing(c) /\ c \notin CacheOnly /\ Warm(service[ProcessOf[c]]) =>
           service[ProcessOf[c]].fetched_at >= since[c]

AgeInv ==
    /\ TypeOK
    /\ \A c \in Caller : TaskInv(c)
    /\ \A p \in Process : SnapshotIsYoung(service[p])

\* What a task sees has its type.
LEMMA TaskTypes ==
    ASSUME TypeOK, NEW c \in Caller
    PROVE  /\ ProcessOf[c] \in Process
           /\ service[ProcessOf[c]] \in Service
           /\ service[ProcessOf[c]].fetched_at \in Int
           /\ now \in Int /\ since[c] \in Int
           /\ answer[c] \in Answer
           /\ \A s \in Source :
                 /\ file[s].timestamp \in Int /\ file[s].written \in Int
                 /\ fetch[c][s].data \in Int
BY PricingAssumption
   DEF TypeOK, Time, Dataset, NoData, File, Download, Service

\* What a task and a process begin with holds no prices.
LEMMA NewIsYoung ==
    /\ NewDownload.step = "file" /\ NewDownload.data = NoData
    /\ NoAnswer.kind = "none"
    /\ ~Warm(NoService) /\ SnapshotIsYoung(NoService)
BY DEF NewDownload, NoAnswer, NoService, Warm, SnapshotIsYoung, YoungSince, Source

\* A task keeps its part of the invariant while others run, for what they store
\* is stored later.
LEMMA OthersRun ==
    ASSUME TypeOK, TypeOK', NEW c \in Caller, TaskInv(c),
           pc'[c] = pc[c], since'[c] = since[c], fetch'[c] = fetch[c], answer'[c] = answer[c],
           now <= now',
           \A s \in Source : file'[s] = file[s] \/ file'[s].written >= since[c],
           \/ service'[ProcessOf[c]] = service[ProcessOf[c]]
           \/ ~Warm(service'[ProcessOf[c]])
           \/ service'[ProcessOf[c]].fetched_at >= since[c]
    PROVE  TaskInv(c)'
<1>1. since'[c] <= now'
  <2>1. since[c] \in Int /\ now \in Int /\ now' \in Int /\ since[c] <= now
    BY TaskTypes DEF TaskInv, TypeOK, Time
  <2> QED
    BY <2>1
<1>2. \A s \in Source : FoundNoFile(c, s)' => CameLater(c, s)'
  BY DEF TaskInv, FoundNoFile, CameLater
<1>3. FoundNothing(c)' /\ c \notin CacheOnly /\ Warm(service[ProcessOf[c]])' =>
          service'[ProcessOf[c]].fetched_at >= since'[c]
  BY DEF TaskInv, FoundNothing, Warm
<1>4. FreshIsYoung(c)'
  BY DEF TaskInv, FreshIsYoung, SnapshotIsYoung, YoungSince
<1> QED
  BY <1>1, <1>2, <1>3, <1>4 DEF TaskInv, YoungSince

\* An answer from a snapshot that is fresh.
LEMMA GivenFresh ==
    ASSUME TypeOK, TypeOK', NEW c \in Caller, since[c] <= now,
           NEW snapshot, SnapshotIsYoung(snapshot), now - snapshot.fetched_at < TTL,
           Give(c, "fresh", snapshot), UNCHANGED <<now, since>>
    PROVE  TaskInv(c)'
<1>1. /\ pc'[c] = "answered" /\ since'[c] = since[c]
      /\ fetch'[c] = [s \in Source |-> NewDownload]
      /\ answer'[c] = [kind |-> "fresh", at |-> now, service |-> snapshot]
  BY DEF Give, TypeOK
<1>2. FreshIsYoung(c)'
  BY <1>1 DEF FreshIsYoung, SnapshotIsYoung, YoungSince
<1>3. ~FoundNothing(c)' /\ \A s \in Source : ~FoundNoFile(c, s)'
  BY <1>1, NewIsYoung DEF FoundNothing, FoundNoFile
<1> QED
  BY <1>1, <1>2, <1>3, NewIsYoung DEF TaskInv

\* Initially nobody has prices.
LEMMA InitAgeInv == Init => AgeInv
<1> SUFFICES ASSUME Init PROVE AgeInv
  OBVIOUS
<1>1. TypeOK
  BY InitTypes
<1>2. ASSUME NEW c \in Caller PROVE TaskInv(c)
  BY <1>1, <1>2, NewIsYoung, PricingAssumption
  DEF Init, TaskInv, FreshIsYoung, FoundNothing, FoundNoFile, Time
<1>3. \A p \in Process : SnapshotIsYoung(service[p])
  BY NewIsYoung DEF Init
<1> QED
  BY <1>1, <1>2, <1>3 DEF AgeInv

\* Every step keeps prices as young as they are said to be.
LEMMA NextAgeInv == AgeInv /\ [Next]_vars => AgeInv'
<1> USE PricingAssumption
<1> SUFFICES ASSUME AgeInv, [Next]_vars PROVE AgeInv'
  OBVIOUS
<1>t. TypeOK /\ TypeOK'
  BY NextTypes DEF AgeInv
<1>i. /\ \A c \in Caller : TaskInv(c)
      /\ \A p \in Process : SnapshotIsYoung(service[p])
  BY DEF AgeInv
<1>s. service' = service => \A p \in Process : SnapshotIsYoung(service[p])'
  BY <1>i DEF SnapshotIsYoung, YoungSince
<1>1. CASE Tick
  <2>1. UNCHANGED <<file, service, pc, since, fetch, answer>> /\ now <= now'
    BY <1>1, <1>t DEF Tick, TypeOK, Time
  <2>2. \A c \in Caller : TaskInv(c)'
    BY <2>1, <1>t, <1>i, OthersRun
  <2> QED
    BY <2>1, <2>2, <1>t, <1>s DEF AgeInv
<1> DEFINE Only(c) ==
      \A d \in Caller \ {c} : /\ pc'[d] = pc[d] /\ since'[d] = since[d]
                              /\ fetch'[d] = fetch[d] /\ answer'[d] = answer[d]
\* A step of one task that touches neither a file nor a snapshot.
<1>a. ASSUME NEW c \in Caller, UNCHANGED <<now, file, service>>, Only(c), TaskInv(c)'
      PROVE  AgeInv'
  <2>1. now <= now'
    BY <1>a, <1>t DEF TypeOK, Time
  <2>2. \A d \in Caller : TaskInv(d)'
    BY <2>1, <1>a, <1>t, <1>i, OthersRun
  <2> QED
    BY <2>2, <1>a, <1>t, <1>s DEF AgeInv
<1> HIDE DEF Only
\* The call has ended, or is not begun.
<1>b. ASSUME NEW c \in Caller, since'[c] <= now', answer'[c].kind = "none",
             pc'[c] \in {"idle", "reading", "locking", "panicked"},
             \A s \in Source : fetch'[c][s].step # "read"
      PROVE  TaskInv(c)'
  BY <1>b DEF TaskInv, FreshIsYoung, FoundNothing, FoundNoFile
<1>2. ASSUME NEW c \in Caller, Ask(c) PROVE AgeInv'
  <2>1. /\ UNCHANGED <<now, file, service, since, fetch, answer>>
        /\ pc[c] = "idle" /\ pc' = [pc EXCEPT ![c] = "reading"]
    BY <1>2 DEF Ask
  <2>2. Only(c) /\ pc'[c] = "reading"
    BY <2>1, <1>t DEF Only, TypeOK
  <2>3. TaskInv(c)'
    BY <2>1, <2>2, <1>i, <1>b DEF TaskInv
  <2> QED
    BY <2>1, <2>2, <2>3, <1>a
<1>3. ASSUME NEW c \in Caller, AskCacheOnly(c) PROVE AgeInv'
  <2>1. /\ UNCHANGED <<now, file, service, fetch, answer>>
        /\ pc[c] = "idle" /\ pc' = [pc EXCEPT ![c] = "fallback"]
        /\ since' = [since EXCEPT ![c] = now] /\ c \in CacheOnly
    BY <1>3 DEF AskCacheOnly
  <2>2. Only(c) /\ pc'[c] = "fallback" /\ since'[c] = now
    BY <2>1, <1>t DEF Only, TypeOK
  <2>3. answer[c].kind = "none" /\ \A s \in Source : fetch[c][s].step # "read"
    BY <2>1, <1>i DEF TaskInv
  <2>4. TaskInv(c)'
    BY <2>1, <2>2, <2>3, <1>t, TaskTypes DEF TaskInv, FreshIsYoung, FoundNoFile
  <2> QED
    BY <2>1, <2>2, <2>4, <1>a
<1>4. ASSUME NEW c \in Caller, ReadLock(c) PROVE AgeInv'
  <2>1. UNCHANGED <<now, file, service, since>> /\ pc[c] = "reading"
    BY <1>4 DEF ReadLock
  <2>2. CASE IsFresh(service[ProcessOf[c]])
    <3>1. Give(c, "fresh", service[ProcessOf[c]])
      BY <1>4, <2>2 DEF ReadLock
    <3>2. Only(c)
      BY <2>1, <3>1, <1>t DEF Only, Give, TypeOK
    <3>3. TaskInv(c)'
      BY <2>1, <2>2, <3>1, <1>t, <1>i, GivenFresh DEF IsFresh, TaskInv, TypeOK
    <3> QED
      BY <2>1, <3>2, <3>3, <1>a
  <2>3. CASE ~IsFresh(service[ProcessOf[c]])
    <3>1. pc' = [pc EXCEPT ![c] = "locking"] /\ UNCHANGED <<fetch, answer>>
      BY <1>4, <2>3 DEF ReadLock
    <3>2. Only(c) /\ pc'[c] = "locking"
      BY <2>1, <3>1, <1>t DEF Only, TypeOK
    <3>3. TaskInv(c)'
      BY <2>1, <3>1, <3>2, <1>i, <1>b DEF TaskInv
    <3> QED
      BY <2>1, <3>2, <3>3, <1>a
  <2> QED
    BY <2>2, <2>3
<1>5. ASSUME NEW c \in Caller, WriteLock(c) PROVE AgeInv'
  <2>1. UNCHANGED <<now, file, service>> /\ pc[c] = "locking"
    BY <1>5 DEF WriteLock
  <2>2. CASE IsFresh(service[ProcessOf[c]])
    <3>1. Give(c, "fresh", service[ProcessOf[c]]) /\ UNCHANGED since
      BY <1>5, <2>2 DEF WriteLock
    <3>2. Only(c)
      BY <2>1, <3>1, <1>t DEF Only, Give, TypeOK
    <3>3. TaskInv(c)'
      BY <2>1, <2>2, <3>1, <1>t, <1>i, GivenFresh DEF IsFresh, TaskInv, TypeOK
    <3> QED
      BY <2>1, <3>2, <3>3, <1>a
  <2>3. CASE ~IsFresh(service[ProcessOf[c]])
    <3>1. /\ pc' = [pc EXCEPT ![c] = "fetch"]
          /\ since' = [since EXCEPT ![c] = now]
          /\ fetch' = [fetch EXCEPT ![c] = [s \in Source |-> NewDownload]]
          /\ UNCHANGED answer
      BY <1>5, <2>3 DEF WriteLock
    <3>2. /\ Only(c) /\ pc'[c] = "fetch" /\ since'[c] = now
          /\ fetch'[c] = [s \in Source |-> NewDownload]
          /\ answer[c].kind = "none"
      BY <2>1, <3>1, <1>t, <1>i DEF Only, TypeOK, TaskInv
    <3>3. TaskInv(c)'
      BY <2>1, <3>1, <3>2, <1>t, TaskTypes, NewIsYoung
      DEF TaskInv, FreshIsYoung, FoundNothing, FoundNoFile, YoungSince
    <3> QED
      BY <2>1, <3>2, <3>3, <1>a
  <2> QED
    BY <2>2, <2>3
\* A step of one download.
<1>d. ASSUME NEW c \in Caller, NEW s \in Source, NEW download,
             pc[c] = "fetch", SetDownload(c, s, download),
             download.step # "read", YoungSince(since[c], download.data),
             UNCHANGED <<now, service, pc, since, answer>>
      PROVE  Only(c) /\ TaskInv(c)'
  <2>1. Only(c) /\ fetch'[c] = [fetch[c] EXCEPT ![s] = download]
    BY <1>d, <1>t DEF Only, SetDownload, TypeOK
  <2>2. answer[c].kind = "none"
    BY <1>d, <1>i DEF TaskInv
  <2>3. \A o \in Source : /\ fetch'[c][o].step # "read"
                          /\ YoungSince(since[c], fetch'[c][o].data)
    <3>1. fetch[c] \in [Source -> Download]
      BY <1>t DEF TypeOK
    <3>2. \A o \in Source : /\ fetch[c][o].step # "read"
                            /\ YoungSince(since[c], fetch[c][o].data)
      BY <1>d, <1>i DEF TaskInv
    <3> QED
      BY <2>1, <3>1, <3>2, <1>d
  <2> QED
    BY <2>1, <2>2, <2>3, <1>d, <1>i
    DEF TaskInv, FreshIsYoung, FoundNothing, FoundNoFile, YoungSince
<1>6. ASSUME NEW c \in Caller, NEW s \in Source,
             \/ ReadFile(c, s) \/ Downloaded(c, s) \/ Refused(c, s)
             \/ \E fault \in {"server_error", "network_error"} : AttemptFails(c, s, fault)
      PROVE  AgeInv'
  <2>1. pc[c] = "fetch" /\ UNCHANGED <<now, file, service, pc, since, answer>>
    BY <1>6 DEF ReadFile, Downloaded, Refused, AttemptFails, Downloading
  <2>2. fetch[c][s].step # "read" /\ YoungSince(since[c], fetch[c][s].data)
    BY <2>1, <1>i DEF TaskInv
  <2>3. fetch[c][s] \in Download /\ NewDownload \in Download /\ since[c] <= now
    BY <1>t, <1>i, NewValues DEF TypeOK, TaskInv
  <2>4. PICK download : /\ SetDownload(c, s, download) /\ download.step # "read"
                        /\ YoungSince(since[c], download.data)
    <3>1. CASE ReadFile(c, s)
      <4>1. FileIsFresh(s) => YoungSince(since[c], file[s].timestamp)
        BY <2>3, <1>t, TaskTypes DEF FileIsFresh, YoungSince
      <4> DEFINE done == [NewDownload EXCEPT !.step = "done", !.data = file[s].timestamp]
                 try == [fetch[c][s] EXCEPT !.step = "try"]
      <4>2. /\ done.step # "read" /\ done.data = file[s].timestamp
            /\ try.step # "read" /\ try.data = fetch[c][s].data
        BY <2>3 DEF Download
      <4>3. SetDownload(c, s, IF FileIsFresh(s) THEN done ELSE try)
        BY <3>1 DEF ReadFile
      <4> HIDE DEF done, try
      <4> QED
        BY <4>1, <4>2, <4>3, <2>2
    <3>2. CASE Downloaded(c, s)
      <4>1. YoungSince(since[c], now)
        BY <2>3, <1>t, TaskTypes DEF YoungSince
      <4> DEFINE save == [NewDownload EXCEPT !.step = "save", !.data = now]
      <4>2. save.step # "read" /\ save.data = now
        BY <2>3 DEF Download
      <4>3. SetDownload(c, s, save)
        BY <3>2 DEF Downloaded
      <4> HIDE DEF save
      <4> QED
        BY <4>1, <4>2, <4>3
    <3>3. CASE Refused(c, s)
      BY <3>3, <2>3, NewIsYoung DEF Refused, Download, YoungSince
    <3>4. ASSUME NEW fault \in {"server_error", "network_error"}, AttemptFails(c, s, fault)
          PROVE  \E download : /\ SetDownload(c, s, download) /\ download.step # "read"
                               /\ YoungSince(since[c], download.data)
      <4> DEFINE last_error == fetch[c][s].last_error \/ fault = "network_error"
                 attempt == fetch[c][s].attempt + 1
                 last == [NewDownload EXCEPT !.step = Exhausted(s, last_error)]
                 again == [fetch[c][s] EXCEPT !.attempt = attempt, !.last_error = last_error]
      <4>1. last.step # "read" /\ YoungSince(since[c], last.data)
        BY <2>3, NewIsYoung DEF Download, Exhausted, YoungSince
      <4>2. again.step # "read" /\ YoungSince(since[c], again.data)
        BY <2>2, <2>3 DEF Download
      <4>3. SetDownload(c, s, last) \/ SetDownload(c, s, again)
        BY <3>4 DEF AttemptFails
      <4> QED
        BY <4>1, <4>2, <4>3
    <3> QED
      BY <1>6, <3>1, <3>2, <3>3, <3>4
  <2>5. Only(c) /\ TaskInv(c)'
    BY <2>1, <2>4, <1>d
  <2> QED
    BY <2>1, <2>5, <1>a
<1>7. ASSUME NEW c \in Caller, NEW s \in Source, SaveFile(c, s) PROVE AgeInv'
  <2>1. /\ pc[c] = "fetch" /\ UNCHANGED <<now, service, pc, since, answer>>
        /\ SetDownload(c, s, [fetch[c][s] EXCEPT !.step = "done"])
    BY <1>7 DEF SaveFile, Downloading
  <2>2. \A o \in Source : file'[o] = file[o] \/ file'[o].written = now
    BY <1>7, <1>t DEF SaveFile, TypeOK
  <2>3. Only(c) /\ TaskInv(c)'
    <3>1. fetch[c][s] \in Download /\ YoungSince(since[c], fetch[c][s].data)
      BY <2>1, <1>t, <1>i DEF TypeOK, TaskInv
    <3> DEFINE download == [fetch[c][s] EXCEPT !.step = "done"]
    <3>2. download.step # "read" /\ download.data = fetch[c][s].data
      BY <3>1 DEF Download
    <3> HIDE DEF download
    <3> QED
      BY <2>1, <3>1, <3>2, <1>d DEF download
  <2>4. \A d \in Caller \ {c} : TaskInv(d)'
    <3>1. now <= now' /\ \A d \in Caller : since[d] <= now
      BY <2>1, <1>t, <1>i DEF TaskInv, TypeOK, Time
    <3> QED
      BY <2>1, <2>2, <2>3, <3>1, <1>t, <1>i, OthersRun DEF Only
  <2> QED
    BY <2>1, <2>3, <2>4, <1>t, <1>s DEF AgeInv
<1>8. ASSUME NEW c \in Caller, NEW s \in Source, ReadAnyAge(c, s) PROVE AgeInv'
  <2> DEFINE data == IF FileIsUsable(s) THEN file[s].timestamp ELSE NoData
             download == [fetch[c][s] EXCEPT !.step = "read", !.data = data]
  <2>1. /\ pc[c] = "fallback" /\ UNCHANGED <<now, file, service, pc, since, answer>>
        /\ SetDownload(c, s, download)
    BY <1>8 DEF ReadAnyAge
  <2>2. fetch[c] \in [Source -> Download] /\ fetch'[c] = [fetch[c] EXCEPT ![s] = download]
    BY <2>1, <1>t DEF SetDownload, TypeOK
  <2>3. data = NoData => CameLater(c, s)
    <3>1. since[c] <= now
      BY <1>i DEF TaskInv
    <3> QED
      BY <3>1, <1>t, TaskTypes DEF FileIsUsable, CameLater
  <2>4. download.data = data
    BY <2>2 DEF Download
  <2>5. ASSUME NEW o \in Source, FoundNoFile(c, o)' PROVE CameLater(c, o)'
    <3>1. CameLater(c, o)
      <4>1. CASE o = s
        BY <2>1, <2>2, <2>3, <2>4, <2>5, <4>1, <1>i DEF FoundNoFile, TaskInv
      <4>2. CASE o # s
        BY <2>1, <2>2, <2>5, <4>2, <1>i DEF FoundNoFile, TaskInv
      <4> QED
        BY <4>1, <4>2
    <3> QED
      BY <2>1, <3>1 DEF CameLater
  <2> HIDE DEF download
  <2>6. Only(c)
    BY <2>1, <1>t DEF Only, SetDownload, TypeOK
  <2>7. FreshIsYoung(c)' /\ (FoundNothing(c)' <=> FoundNothing(c))
    BY <2>1, <1>i DEF TaskInv, FreshIsYoung, SnapshotIsYoung, YoungSince, FoundNothing
  <2>8. TaskInv(c)'
    BY <2>1, <2>5, <2>7, <1>i DEF TaskInv, Warm
  <2> QED
    BY <2>1, <2>6, <2>8, <1>a
<1>9. ASSUME NEW c \in Caller, StoreService(c) PROVE AgeInv'
  <2> DEFINE snapshot == [data |-> [s \in Source |-> fetch[c][s].data],
                          started |-> since[c], fetched_at |-> now]
  <2>1. /\ pc[c] = "fetch" /\ UNCHANGED <<now, file, since>>
        /\ service' = [service EXCEPT ![ProcessOf[c]] = snapshot]
        /\ Give(c, "fresh", snapshot)
    BY <1>9 DEF StoreService
  <2>2. SnapshotIsYoung(snapshot)
    BY <2>1, <1>i DEF TaskInv, SnapshotIsYoung
  <2>3. now - snapshot.fetched_at < TTL /\ snapshot.fetched_at = now
    BY <1>t DEF TypeOK, Time
  <2> HIDE DEF snapshot
  <2>4. Only(c)
    BY <2>1, <1>t DEF Only, Give, TypeOK
  <2>5. TaskInv(c)'
    BY <2>1, <2>2, <2>3, <1>t, <1>i, GivenFresh DEF TaskInv
  <2>6. \A d \in Caller \ {c} : TaskInv(d)'
    <3>1. /\ now <= now' /\ \A d \in Caller : since[d] <= now
          /\ \A d \in Caller : \/ service'[ProcessOf[d]] = service[ProcessOf[d]]
                               \/ service'[ProcessOf[d]].fetched_at = now
      BY <2>1, <2>3, <1>t, <1>i DEF TaskInv, TypeOK, Time
    <3> QED
      BY <2>1, <2>4, <3>1, <1>t, <1>i, OthersRun DEF Only
  <2>7. \A p \in Process : SnapshotIsYoung(service'[p])
    BY <2>1, <2>2, <1>t, <1>i DEF TypeOK
  <2> QED
    BY <2>5, <2>6, <2>7, <1>t DEF AgeInv, SnapshotIsYoung
<1>10. ASSUME NEW c \in Caller, RefreshFails(c) PROVE AgeInv'
  <2>1. /\ pc[c] = "fetch" /\ UNCHANGED <<now, file, service, since>>
    BY <1>10 DEF RefreshFails
  <2>2. answer[c].kind = "none" /\ since[c] <= now
    BY <2>1, <1>i DEF TaskInv
  <2>3. CASE Warm(service[ProcessOf[c]])
    <3>1. Give(c, "kept", service[ProcessOf[c]])
      BY <1>10, <2>3 DEF RefreshFails
    <3>2. /\ Only(c) /\ pc'[c] = "answered" /\ answer'[c].kind = "kept"
          /\ fetch'[c] = [s \in Source |-> NewDownload]
      BY <2>1, <3>1, <1>t DEF Only, Give, TypeOK
    <3>3. TaskInv(c)'
      BY <2>1, <2>2, <3>2, NewIsYoung
      DEF TaskInv, FreshIsYoung, FoundNothing, FoundNoFile
    <3> QED
      BY <2>1, <3>2, <3>3, <1>a
  <2>4. CASE ~Warm(service[ProcessOf[c]])
    <3>1. /\ pc' = [pc EXCEPT ![c] = "fallback"]
          /\ fetch' = [fetch EXCEPT ![c] = [s \in Source |-> NewDownload]]
          /\ UNCHANGED answer
      BY <1>10, <2>4 DEF RefreshFails
    <3>2. /\ Only(c) /\ pc'[c] = "fallback" /\ fetch'[c] = [s \in Source |-> NewDownload]
      BY <2>1, <3>1, <1>t DEF Only, TypeOK
    <3>3. TaskInv(c)'
      BY <2>1, <2>2, <2>4, <3>1, <3>2, NewIsYoung
      DEF TaskInv, FreshIsYoung, FoundNoFile, Warm
    <3> QED
      BY <2>1, <3>2, <3>3, <1>a
  <2> QED
    BY <2>3, <2>4
<1>11. ASSUME NEW c \in Caller, Panic(c) PROVE AgeInv'
  <2>1. /\ pc[c] = "fetch" /\ UNCHANGED <<now, file, service, since, fetch, answer>>
        /\ pc' = [pc EXCEPT ![c] = "panicked"]
    BY <1>11 DEF Panic
  <2>2. Only(c) /\ pc'[c] = "panicked"
    BY <2>1, <1>t DEF Only, TypeOK
  <2>3. TaskInv(c)'
    BY <2>1, <2>2, <1>i, <1>b DEF TaskInv
  <2> QED
    BY <2>1, <2>2, <2>3, <1>a
<1>12. ASSUME NEW c \in Caller, Fallback(c) PROVE AgeInv'
  <2> DEFINE data == [s \in Source |-> fetch[c][s].data]
  <2>1. /\ pc[c] = "fallback" /\ UNCHANGED <<now, file, service, since>>
        /\ \A s \in Source : fetch[c][s].step = "read"
    BY <1>12 DEF Fallback
  <2>2. PICK kind, snapshot :
            /\ kind \in {"disk", "unpriced"} /\ Give(c, kind, snapshot)
            /\ kind = "unpriced" => \A s \in Source : fetch[c][s].data = NoData
    BY <1>12 DEF Fallback
  <2>3. /\ Only(c) /\ pc'[c] = "answered" /\ answer'[c].kind = kind
        /\ fetch'[c] = [s \in Source |-> NewDownload]
    BY <2>1, <2>2, <1>t DEF Only, Give, TypeOK
  <2>4. kind = "unpriced" => \A s \in Source : CameLater(c, s)
    BY <2>1, <2>2, <1>i DEF TaskInv, FoundNoFile
  <2>5. \A s \in Source : FoundNoFile(c, s)' => CameLater(c, s)'
    BY <2>1, <2>3, <2>4, NewIsYoung DEF FoundNoFile, CameLater
  <2>6. TaskInv(c)'
    BY <2>1, <2>2, <2>3, <2>5, <1>i, NewIsYoung DEF TaskInv, FreshIsYoung, FoundNothing, Warm
  <2> QED
    BY <2>1, <2>3, <2>6, <1>a
\* What a call knew is gone.
<1>f. ASSUME NEW c \in Caller, Forget(c), UNCHANGED now
      PROVE  Only(c) /\ TaskInv(c)'
  <2>1. /\ Only(c) /\ pc'[c] = "idle" /\ since'[c] = 0 /\ answer'[c] = NoAnswer
        /\ fetch'[c] = [s \in Source |-> NewDownload]
    BY <1>f, <1>t DEF Only, Forget, TypeOK
  <2>2. since'[c] <= now'
    BY <2>1, <1>f, <1>t DEF TypeOK, Time
  <2> QED
    BY <2>1, <2>2, <1>b, NewIsYoung
<1>13. ASSUME NEW c \in Caller, Leave(c) \/ Cancel(c) PROVE AgeInv'
  <2>1. Forget(c) /\ UNCHANGED <<now, file, service>>
    BY <1>13 DEF Leave, Cancel
  <2> QED
    BY <2>1, <1>f, <1>a
<1>14. ASSUME NEW p \in Process, Crash(p) PROVE AgeInv'
  <2>1. /\ UNCHANGED <<now, file>> /\ service' = [service EXCEPT ![p] = NoService]
        /\ \A c \in Caller :
             IF ProcessOf[c] = p
             THEN /\ pc'[c] = "idle" /\ since'[c] = 0 /\ answer'[c] = NoAnswer
                  /\ fetch'[c] = [s \in Source |-> NewDownload]
             ELSE /\ pc'[c] = pc[c] /\ since'[c] = since[c] /\ answer'[c] = answer[c]
                  /\ fetch'[c] = fetch[c]
    BY <1>14 DEF Crash
  <2>2. ASSUME NEW c \in Caller PROVE TaskInv(c)'
    <3>1. now <= now' /\ 0 <= now'
      BY <2>1, <1>t DEF TypeOK, Time
    <3>2. CASE ProcessOf[c] = p
      BY <2>1, <3>1, <3>2, <1>b, NewIsYoung
    <3>3. CASE ProcessOf[c] # p
      <4>1. service'[ProcessOf[c]] = service[ProcessOf[c]]
        BY <2>1, <3>3, <1>t DEF TypeOK
      <4> QED
        BY <2>1, <3>1, <3>3, <4>1, <1>t, <1>i, OthersRun
    <3> QED
      BY <3>2, <3>3
  <2>3. \A q \in Process : SnapshotIsYoung(service'[q])
    BY <2>1, <1>t, <1>i, NewIsYoung DEF TypeOK
  <2> QED
    BY <2>2, <2>3, <1>t DEF AgeInv, SnapshotIsYoung
<1>15. CASE UNCHANGED vars
  BY <1>15, <1>t, <1>i
  DEF vars, AgeInv, TaskInv, FreshIsYoung, FoundNothing, FoundNoFile, CameLater,
      SnapshotIsYoung, YoungSince, Warm
<1> QED
  BY <1>1, <1>2, <1>3, <1>4, <1>5, <1>6, <1>7, <1>8, <1>9, <1>10, <1>11, <1>12, <1>13, <1>14,
     <1>15
  DEF Next, Proceed

\* Prices handed out as fresh are younger than two TTLs and what their refresh
\* took, whatever the clock, the network and the other processes did meanwhile.
THEOREM FreshPricesAreYoung == Spec => []ServedAge
<1>1. ASSUME AgeInv, NEW c \in Caller, NEW s \in Source,
             answer[c].kind = "fresh", answer[c].service.data[s] # NoData
      PROVE  answer[c].at - answer[c].service.data[s] < 2 * TTL
                 + (answer[c].service.fetched_at - answer[c].service.started)
  <2> DEFINE given == answer[c].service
  <2>1. TypeOK /\ FreshIsYoung(c)
    BY <1>1 DEF AgeInv, TaskInv
  <2>2. answer[c].at - given.fetched_at < TTL /\ given.started - given.data[s] <= TTL
    BY <2>1, <1>1 DEF FreshIsYoung, SnapshotIsYoung, YoungSince
  <2>3. /\ answer[c].at \in Int /\ given.fetched_at \in Int /\ given.started \in Int
        /\ given.data[s] \in Int
    <3>1. answer[c] \in Answer
      BY <2>1, TaskTypes
    <3> QED
      BY <3>1 DEF Answer, Service, Time, Dataset, NoData
  <2> HIDE DEF given
  <2>4. TTL \in Int
    BY PricingAssumption
  <2> QED
    BY <2>2, <2>3, <2>4 DEF given
<1>2. AgeInv => ServedAge
  BY <1>1 DEF ServedAge
<1> QED
  BY <1>2, InitAgeInv, NextAgeInv, PTL DEF Spec

\* A stale price beats none: a task leaves without prices only if whatever its
\* process and the disk hold came after it began to look.
THEOREM UnpricedIsJustified == Spec => []UnpricedOnlyWithoutData
<1>1. AgeInv => UnpricedOnlyWithoutData
  BY DEF AgeInv, TaskInv, FoundNothing, FoundNoFile, CameLater, UnpricedOnlyWithoutData
<1> QED
  BY <1>1, InitAgeInv, NextAgeInv, PTL DEF Spec
===============================================================================
