-------------------------- MODULE MessageCacheProofs --------------------------
(***************************************************************************)
(* What TLAPS proves about MessageCache for every set of processes, files, *)
(* shards and keys and every bound.                                        *)
(***************************************************************************)
EXTENDS MessageCache, TLAPS

(***************************************************************************)
(* Typing of the operators that build entries.                             *)
(***************************************************************************)
LEMMA NestedUpdateType ==
    ASSUME NEW A, NEW B, NEW C, NEW f \in [A -> [B -> C]],
           NEW x \in A, NEW y \in B, NEW v \in C
    PROVE  [f EXCEPT ![x] = [@ EXCEPT ![y] = v]] \in [A -> [B -> C]]
  OBVIOUS

\* No messages, and no entry, have their types.
LEMMA EntryTypes ==
    /\ NoMessages \in Messages
    /\ NoEntry \in CachedSourceEntry
  BY BoundsAssumption DEF NoMessages, Messages, NoEntry, CachedSourceEntry, Usage, Gen, Version

\* The parse-time merge gives messages, and labels them by key.
LEMMA RetainType ==
    ASSUME NEW live \in Messages, NEW cached \in Messages
    PROVE  /\ RetainObserved(live, cached) \in Messages
           /\ RetainedKeys(live, cached) \subseteq Key
  BY StableKeyAssumption DEF RetainObserved, RetainedKeys, Messages

\* The merge of a save gives an entry.
LEMMA AbsorbType ==
    ASSUME NEW entry \in CachedSourceEntry, NEW store \in CachedSourceEntry
    PROVE  AbsorbRetainedHistory(entry, store) \in CachedSourceEntry
  <1>1. AbsorbedMessages(entry, store) \in Messages
    BY DEF AbsorbedMessages, LargerUsage, CachedSourceEntry, Messages
  <1>2. AbsorbedLabels(entry, store) \subseteq Key
    BY StableKeyAssumption DEF AbsorbedLabels, CachedSourceEntry
  <1> QED
    BY <1>1, <1>2 DEF AbsorbRetainedHistory, CachedSourceEntry

\* What is read back is an entry.
LEMMA ReadEntryType ==
    ASSUME TypeOK, NEW q \in Path, NEW current, NEW readable
    PROVE  ReadEntry(q, current, readable) \in CachedSourceEntry
  BY EntryTypes DEF ReadEntry, TypeOK

\* What a save puts together is an entry.
LEMMA SavedEntryType ==
    ASSUME TypeOK, NEW p \in Proc, NEW q \in Path, NEW store \in CachedSourceEntry
    PROVE  SavedEntry(p, q, store) \in CachedSourceEntry
  <1>1. entries[p][q] \in CachedSourceEntry
    BY DEF TypeOK
  <1> QED
    BY <1>1, EntryTypes, AbsorbType DEF SavedEntry

\* A parse makes an entry.
LEMMA FreshEntryType ==
    ASSUME TypeOK, NEW p \in Proc, NEW fingerprint \in Gen \cup {0},
           NEW messages \in Messages, NEW retained \in SUBSET Key
    PROVE  FreshEntry(p, fingerprint, messages, retained) \in CachedSourceEntry
  BY DEF FreshEntry, TypeOK, CachedSourceEntry

\* A file contains messages.
LEMMA ContentType ==
    ASSUME TypeOK, NEW q \in Path
    PROVE  Content(q) \in Messages
  BY DEF Content, TypeOK

-------------------------------------------------------------------------------
(***************************************************************************)
(* Type correctness.                                                       *)
(***************************************************************************)
LEMMA DropType ==
    ASSUME TypeOK, NEW p \in Proc, Drop(p),
           UNCHANGED <<sources, stored, envelope, build>>
    PROVE  TypeOK'
  BY EntryTypes DEF Drop, TypeOK, sources, Step, LaneStep, DeletionReason

\* Initially all variables have their types.
LEMMA InitType == Init => TypeOK
  <1> SUFFICES ASSUME Init PROVE TypeOK
    OBVIOUS
  <1> DEFINE Fresh == {[g \in Gen |-> IF g = 1 THEN m ELSE NoMessages] : m \in Messages}
  <1>1. Fresh \subseteq [Gen -> Messages]
    BY EntryTypes
  <1>2. transcript \in [Path -> [Gen -> Messages]]
    <2>1. transcript \in [Path -> Fresh]
      BY DEF Init
    <2> HIDE DEF Fresh
    <2> QED
      BY <1>1, <2>1
  <1>3. 1 \in Gen /\ 1 \in Version
    BY BoundsAssumption DEF Gen, Version
  <1> QED
    BY <1>2, <1>3, EntryTypes DEF Init, TypeOK, Step, LaneStep, DeletionReason

\* Every step keeps the types.
LEMMA NextType == TypeOK /\ [Next]_vars => TypeOK'
  <1> SUFFICES ASSUME TypeOK, [Next]_vars PROVE TypeOK'
    OBVIOUS
  <1> USE DEF TypeOK, sources, cacheDir, laneVars, saveVars, bookkeeping
  <1>1. ASSUME NEW q \in Path, WriteSource(q) PROVE TypeOK'
    BY <1>1, BoundsAssumption DEF WriteSource, Gen
  <1>2. ASSUME NEW q \in Path, DeleteSource(q) PROVE TypeOK'
    BY <1>2 DEF DeleteSource
  <1>3. ASSUME Upgrade PROVE TypeOK'
    BY <1>3, BoundsAssumption DEF Upgrade, Version
  <1>4. ASSUME NEW p \in Proc, Load(p) PROVE TypeOK'
    BY <1>4, ReadEntryType DEF Load, List, LaneStep, Step
  <1>5. ASSUME NEW p \in Proc, LoadFails(p) PROVE TypeOK'
    BY <1>5 DEF LoadFails, List, LaneStep, Step
  <1>6. ASSUME NEW p \in Proc, PruneMissingFiles(p) PROVE TypeOK'
    BY <1>6, EntryTypes DEF PruneMissingFiles, Step, DeletionReason
  <1>7. ASSUME NEW p \in Proc, NEW q \in Path, CheckFingerprint(p, q) PROVE TypeOK'
    <2>1. stage' \in [Proc -> [Path -> LaneStep]]
      <3>1. PICK step \in LaneStep : SetStage(p, q, step)
        BY <1>7 DEF CheckFingerprint, LaneStep
      <3> QED
        BY <3>1 DEF SetStage
    <2>2. fp' \in [Proc -> [Path -> Gen \cup {0}]]
      <3>1. PICK stamp \in Gen \cup {0} :
              fp' = fp \/ fp' = [fp EXCEPT ![p] = [@ EXCEPT ![q] = stamp]]
        <4>1. CASE ParsesFirst(q)
          BY <1>7, <4>1 DEF CheckFingerprint
        <4>2. CASE ~ParsesFirst(q)
          BY <1>7, <4>2 DEF CheckFingerprint
        <4> QED
          BY <4>1, <4>2
      <3>2. fp \in [Proc -> [Path -> Gen \cup {0}]] /\ stamp \in Gen \cup {0}
        BY <3>1
      <3>3. [fp EXCEPT ![p] = [@ EXCEPT ![q] = stamp]] \in [Proc -> [Path -> Gen \cup {0}]]
        BY ONLY <3>2, NestedUpdateType, p \in Proc, q \in Path
      <3> QED
        BY <3>1, <3>2, <3>3
    <2> QED
      BY <1>7, <2>1, <2>2 DEF CheckFingerprint
  <1>8. ASSUME NEW p \in Proc, NEW q \in Path, NEW entry \in CachedSourceEntry,
               Insert(p, q, entry), ParseDone(p, q)
        PROVE  TypeOK'
    BY <1>8, EntryTypes DEF Insert, ParseDone, SetStage, LaneStep, DeletionReason
  <1>9. ASSUME NEW p \in Proc, NEW q \in Path, KeepCache, ParseDone(p, q) PROVE TypeOK'
    BY <1>9, EntryTypes DEF KeepCache, ParseDone, SetStage, LaneStep
  <1>10. ASSUME NEW p \in Proc, NEW q \in Path, ParseClaude(p, q) PROVE TypeOK'
    <2> DEFINE cached == entries[p][q].messages
    <2>1. cached \in Messages /\ Content(q) \in Messages /\ fp[p][q] \in Gen \cup {0}
      BY ContentType DEF CachedSourceEntry
    <2>2. FreshEntry(p, fp[p][q], RetainObserved(Content(q), cached), RetainedKeys(Content(q), cached))
            \in CachedSourceEntry
      BY <2>1, RetainType, FreshEntryType
    <2> QED
      BY <1>8, <1>9, <1>10, <2>2 DEF ParseClaude
  <1>11. ASSUME NEW p \in Proc, NEW q \in Path, ParseClaudeFails(p, q) PROVE TypeOK'
    BY <1>9, <1>11 DEF ParseClaudeFails
  <1>12. ASSUME NEW p \in Proc, NEW q \in Path, ParseCheckFirst(p, q) PROVE TypeOK'
    <2>1. fp[p][q] \in Gen \cup {0}
      OBVIOUS
    <2>2. FreshEntry(p, fp[p][q], Content(q), {}) \in CachedSourceEntry
      BY <2>1, ContentType, FreshEntryType
    <2> QED
      BY <1>8, <1>9, <1>12, <2>2 DEF ParseCheckFirst
  <1>13. ASSUME NEW p \in Proc, NEW q \in Path, ParseNotCacheable(p, q) PROVE TypeOK'
    <2>1. Invalidated(entries[p][q].fingerprint) \in DeletionReason
      BY DEF Invalidated, DeletionReason, NotDeleted, CachedSourceEntry
    <2>2. CASE entries[p][q] = NoEntry \/ Lane[q] = "simple"
      BY <1>9, <1>13, <2>2 DEF ParseNotCacheable, Remove, KeepCache
    <2>3. CASE ~(entries[p][q] = NoEntry \/ Lane[q] = "simple")
      <3>1. /\ entries' = [entries EXCEPT ![p] = [@ EXCEPT ![q] = NoEntry]]
            /\ dirty_keys' = [dirty_keys EXCEPT ![p] = @ \ {q}]
            /\ \E reason \in DeletionReason :
                 deleted_keys' = [deleted_keys EXCEPT ![p] = [@ EXCEPT ![q] = reason]]
        BY <1>13, <2>1, <2>3 DEF ParseNotCacheable, Remove
      <3>2. ParseDone(p, q)
        BY <1>13 DEF ParseNotCacheable
      <3> QED
        BY <3>1, <3>2, EntryTypes DEF ParseDone, SetStage, LaneStep
    <2> QED
      BY <2>2, <2>3
  <1>14. ASSUME NEW p \in Proc, NEW q \in Path, ParseFirst(p, q) PROVE TypeOK'
    BY <1>14, ContentType DEF ParseFirst, SetStage, LaneStep
  <1>15. ASSUME NEW p \in Proc, NEW q \in Path, StampAfterParse(p, q) PROVE TypeOK'
    <2>1. FreshEntry(p, gen[q], parsed[p][q], {}) \in CachedSourceEntry
      BY FreshEntryType
    <2> QED
      BY <1>8, <1>9, <1>15, <2>1 DEF StampAfterParse
  <1>16. ASSUME NEW p \in Proc, FinishScan(p) PROVE TypeOK'
    BY <1>16, EntryTypes DEF FinishScan, Step
  <1>17. ASSUME NEW p \in Proc, FinishCleanScan(p) PROVE TypeOK'
    BY <1>17, DropType DEF FinishCleanScan
  <1>18. ASSUME NEW p \in Proc, LockExclusive(p) PROVE TypeOK'
    BY <1>18, LaneAssumption DEF LockExclusive, AffectedShards, DeletedPaths, Step
  <1>19. ASSUME NEW p \in Proc, SaveUnavailable(p) PROVE TypeOK'
    BY <1>19, DropType DEF SaveUnavailable
  <1>20. ASSUME NEW p \in Proc, NEW s \in Shard, MergeShard(p, s) PROVE TypeOK'
    BY <1>20, ReadEntryType, SavedEntryType, EntryTypes DEF MergeShard, Step
  <1>21. ASSUME NEW p \in Proc, WriteShard(p) PROVE TypeOK'
    BY <1>21, EntryTypes DEF WriteShard, ShardDone, Step
  <1>22. ASSUME NEW p \in Proc, WriteShardFails(p) PROVE TypeOK'
    BY <1>22, EntryTypes DEF WriteShardFails, ShardDone, Step
  <1>23. ASSUME NEW p \in Proc, SaveDone(p) PROVE TypeOK'
    BY <1>23, DropType DEF SaveDone
  <1>24. ASSUME NEW p \in Proc, Crash(p) PROVE TypeOK'
    BY <1>24, DropType DEF Crash
  <1>25. ASSUME UNCHANGED vars PROVE TypeOK'
    BY <1>25 DEF vars
  <1> QED
    BY <1>1, <1>2, <1>3, <1>4, <1>5, <1>6, <1>7, <1>10, <1>11, <1>12, <1>13, <1>14, <1>15,
       <1>16, <1>17, <1>18, <1>19, <1>20, <1>21, <1>22, <1>23, <1>24, <1>25
    DEF Next, ScanAction, LaneAction, SaveAction

\* Every variable always has its type (MessageCache's state).
THEOREM TypeCorrect == Spec => []TypeOK
  <1>1. Init => TypeOK
    BY InitType
  <1>2. TypeOK /\ [Next]_vars => TypeOK'
    BY NextType
  <1> QED
    BY <1>1, <1>2, PTL DEF Spec
-------------------------------------------------------------------------------
(***************************************************************************)
(* No history lost.  One parser version is installed (what happens across  *)
(* versions is NoTurnLost's subject) and a save can read back the shards   *)
(* it is about to replace.                                                 *)
(***************************************************************************)
OneBuild == MaxVersion = 1
ShardsReadable == "save_read" \notin Faults

\* A merge with an entry of the same build never lowers a figure of either side.
LEMMA AbsorbCovers ==
    ASSUME NEW entry \in CachedSourceEntry, NEW store \in CachedSourceEntry,
           entry.version = store.version
    PROVE  /\ Covers(AbsorbRetainedHistory(entry, store).messages, store.messages)
           /\ Covers(AbsorbRetainedHistory(entry, store).messages, entry.messages)
           /\ AbsorbRetainedHistory(entry, store).version = entry.version
  <1>1. AbsorbRetainedHistory(entry, store).messages = AbsorbedMessages(entry, store)
    BY DEF AbsorbRetainedHistory, CachedSourceEntry
  <1>2. AbsorbRetainedHistory(entry, store).version = entry.version
    BY DEF AbsorbRetainedHistory, CachedSourceEntry
  <1>3. \A k \in StableKey : entry.messages[k] \in Int /\ store.messages[k] \in Int
    BY StableKeyAssumption, BoundsAssumption DEF CachedSourceEntry, Messages, Usage
  <1>4. \A k \in StableKey : /\ AbsorbedMessages(entry, store)[k] >= store.messages[k]
                            /\ AbsorbedMessages(entry, store)[k] >= entry.messages[k]
    BY <1>3, StableKeyAssumption DEF AbsorbedMessages, LargerUsage
  <1> QED
    BY <1>1, <1>2, <1>4 DEF Covers

\* Messages cover themselves, and no messages.
LEMMA CoversReflexive ==
    ASSUME NEW m \in Messages
    PROVE  Covers(m, m) /\ Covers(m, NoMessages)
  BY StableKeyAssumption, BoundsAssumption DEF Covers, Messages, Usage, NoMessages

\* With one build, a save reads back exactly what is on disk.
LEMMA ReadBack ==
    ASSUME OneBuild, TypeOK, HistoryInv, NEW p \in Proc, NEW q \in Path
    PROVE  ReadEntry(q, build[p], Shard) = stored[q]
  <1>1. ShardOf[q] \in Shard
    BY LaneAssumption
  <1>2. build[p] = 1 /\ stored[q].version \in {0, 1} /\ envelope[ShardOf[q]] \in {0, 1}
    BY <1>1 DEF OneBuild, TypeOK, Version, CachedSourceEntry
  <1>3. CASE stored[q] = NoEntry
    BY <1>3 DEF ReadEntry
  <1>4. CASE stored[q] # NoEntry
    <2>1. stored[q].version = 1 /\ envelope[ShardOf[q]] = 1
      BY <1>2, <1>4 DEF HistoryInv, StoredReadable, WellFormed
    <2> QED
      BY <1>1, <1>2, <2>1 DEF ReadEntry, ShardLoaded, Admitted
  <1> QED
    BY <1>3, <1>4

\* What a save is about to write for a Claude path covers what is on disk.
LEMMA SavedCovers ==
    ASSUME OneBuild, TypeOK, HistoryInv, NEW p \in Proc, NEW q \in RetainedPath
    PROVE  Covers(SavedEntry(p, q, stored[q]).messages, stored[q].messages) \/ q \in vanished
  <1>1. q \in Path /\ Retains(q)
    BY DEF RetainedPath
  <1>2. stored[q] \in CachedSourceEntry /\ entries[p][q] \in CachedSourceEntry
    BY <1>1 DEF TypeOK
  <1>3. stored[q].messages \in Messages
    BY <1>2 DEF CachedSourceEntry
  <1>4. CASE StillDeleted(p, q, stored[q])
    BY <1>1, <1>4 DEF StillDeleted, HistoryInv, AbsenceKnown, RetainedNotInvalidated
  <1>5. CASE ~StillDeleted(p, q, stored[q])
    <2>1. CASE q \notin dirty_keys[p] \/ entries[p][q] = NoEntry
      BY <1>3, <1>5, <2>1, CoversReflexive DEF SavedEntry
    <2>2. CASE ~(q \notin dirty_keys[p] \/ entries[p][q] = NoEntry)
      <3>1. SavedEntry(p, q, stored[q]) = AbsorbRetainedHistory(entries[p][q], stored[q])
        BY <1>1, <1>5, <2>2 DEF SavedEntry
      <3>2. CASE stored[q] = NoEntry
        <4>1. SavedEntry(p, q, stored[q]) \in CachedSourceEntry
          BY <1>1, <1>2, SavedEntryType
        <4>2. stored[q].messages = NoMessages
          BY <3>2 DEF NoEntry
        <4> QED
          BY <4>1, <4>2, CoversReflexive DEF CachedSourceEntry
      <3>3. CASE stored[q] # NoEntry
        <4>1. entries[p][q].version = stored[q].version
          BY <1>1, <1>2, <2>2, <3>3
          DEF HistoryInv, StoredReadable, CopiesWellFormed, WellFormed, OneBuild, CachedSourceEntry, Version
        <4> QED
          BY <1>2, <3>1, <4>1, AbsorbCovers
      <3> QED
        BY <3>2, <3>3
    <2> QED
      BY <2>1, <2>2
  <1> QED
    BY <1>4, <1>5

\* What a save puts together is well formed if its parts are.
LEMMA SavedWellFormed ==
    ASSUME TypeOK, HistoryInv, NEW p \in Proc, NEW q \in Path,
           NEW store \in CachedSourceEntry, WellFormed(store)
    PROVE  WellFormed(SavedEntry(p, q, store))
  <1>1. entries[p][q] \in CachedSourceEntry /\ WellFormed(entries[p][q])
    BY DEF TypeOK, HistoryInv, CopiesWellFormed
  <1>2. WellFormed(NoEntry)
    BY DEF WellFormed
  <1>3. ASSUME NEW s \in CachedSourceEntry, entries[p][q].version # 0
        PROVE  AbsorbRetainedHistory(entries[p][q], s).version # 0
    BY <1>1, <1>3 DEF AbsorbRetainedHistory, CachedSourceEntry
  <1>4. CASE entries[p][q] = NoEntry
    BY <1>2, <1>4 DEF SavedEntry
  <1>5. CASE entries[p][q] # NoEntry
    BY <1>1, <1>2, <1>3, <1>5, EntryTypes DEF SavedEntry, WellFormed
  <1> QED
    BY <1>4, <1>5


\* Initially nothing is stored.
LEMMA InitHistory == Init => HistoryInv
  BY DEF Init, HistoryInv, OneWriter, AbsenceKnown, StoredReadable, CopiesWellFormed,
         RetainedNotInvalidated, MergedCoversStored, WellFormed, NoEntry, RetainedPath

\* Most steps leave alone what is stored and every save that is under way.
LEMMA PrivateStep ==
    ASSUME TypeOK, HistoryInv,
           UNCHANGED <<sources, stored, envelope>>,
           OneWriter', CopiesWellFormed',
           \A r \in Proc, x \in RetainedPath :
               deleted_keys'[r][x] \in {deleted_keys[r][x], NotDeleted, Missing},
           \A r \in Proc : pc'[r] = "write" =>
               pc[r] = "write" /\ writing'[r] = writing[r] /\ merged'[r] = merged[r]
    PROVE  HistoryInv'
  <1>1. AbsenceKnown' /\ StoredReadable'
    BY DEF HistoryInv, AbsenceKnown, StoredReadable, WellFormed, sources
  <1>2. RetainedNotInvalidated'
    BY DEF HistoryInv, RetainedNotInvalidated, RetainedPath
  <1>3. MergedCoversStored'
    BY DEF HistoryInv, MergedCoversStored, RetainedPath, Covers, sources
  <1> QED
    BY <1>1, <1>2, <1>3 DEF HistoryInv

\* Ending a scan, however it ends.
LEMMA DropHistory ==
    ASSUME TypeOK, HistoryInv, NEW p \in Proc, Drop(p),
           UNCHANGED <<sources, stored, envelope, build>>
    PROVE  HistoryInv'
  <1>1. OneWriter'
    BY DEF Drop, TypeOK, HistoryInv, OneWriter
  <1>2. CopiesWellFormed'
    BY DEF Drop, TypeOK, HistoryInv, CopiesWellFormed, WellFormed
  <1>3. \A r \in Proc, x \in RetainedPath :
          deleted_keys'[r][x] \in {deleted_keys[r][x], NotDeleted, Missing}
    BY DEF Drop, TypeOK, RetainedPath
  <1>4. \A r \in Proc : pc'[r] = "write" =>
          pc[r] = "write" /\ writing'[r] = writing[r] /\ merged'[r] = merged[r]
    BY DEF Drop, TypeOK
  <1> QED
    BY <1>1, <1>2, <1>3, <1>4, PrivateStep

\* A step of a lane touches one process's private cache, outside a save.
LEMMA LaneHistory ==
    ASSUME TypeOK, HistoryInv, NEW p \in Proc, NEW q \in Path,
           KeepCache \/ \E entry \in CachedSourceEntry : entry.version # 0 /\ Insert(p, q, entry),
           UNCHANGED <<sources, cacheDir, pc, saveVars>>
    PROVE  HistoryInv'
  <1>1. CopiesWellFormed'
    <2>1. CASE KeepCache
      BY <2>1 DEF HistoryInv, CopiesWellFormed, KeepCache, WellFormed, saveVars
    <2>2. ASSUME NEW entry \in CachedSourceEntry, entry.version # 0, Insert(p, q, entry)
          PROVE  CopiesWellFormed'
      BY <2>2 DEF TypeOK, HistoryInv, CopiesWellFormed, Insert, WellFormed, saveVars
    <2> QED
      BY <2>1, <2>2
  <1>2. \A r \in Proc, x \in RetainedPath :
          deleted_keys'[r][x] \in {deleted_keys[r][x], NotDeleted, Missing}
    <2>1. CASE KeepCache
      BY <2>1 DEF KeepCache
    <2>2. CASE deleted_keys' = [deleted_keys EXCEPT ![p] = [@ EXCEPT ![q] = NotDeleted]]
      BY <2>2 DEF TypeOK, RetainedPath
    <2> QED
      BY <2>1, <2>2 DEF Insert
  <1>3. OneWriter'
    BY DEF HistoryInv, OneWriter, cacheDir
  <1> QED
    BY <1>1, <1>2, <1>3, PrivateStep DEF cacheDir, saveVars

\* Every step keeps what is known of the one save that may be under way.
LEMMA NextHistory ==
    ASSUME OneBuild, ShardsReadable, TypeOK, HistoryInv, [Next]_vars
    PROVE  HistoryInv'
  <1> USE DEF sources, cacheDir, laneVars, saveVars, bookkeeping
  <1>1. ASSUME NEW q \in Path, WriteSource(q) PROVE HistoryInv'
    <2>1. AbsenceKnown'
      BY <1>1 DEF WriteSource, TypeOK, HistoryInv, AbsenceKnown
    <2> QED
      BY <1>1, <2>1 DEF WriteSource, HistoryInv, OneWriter, StoredReadable, CopiesWellFormed,
         RetainedNotInvalidated, MergedCoversStored, WellFormed, RetainedPath, Covers
  <1>2. ASSUME NEW q \in Path, DeleteSource(q) PROVE HistoryInv'
    <2>1. AbsenceKnown'
      BY <1>2 DEF DeleteSource, TypeOK, HistoryInv, AbsenceKnown
    <2> QED
      BY <1>2, <2>1 DEF DeleteSource, HistoryInv, OneWriter, StoredReadable, CopiesWellFormed,
         RetainedNotInvalidated, MergedCoversStored, WellFormed, RetainedPath, Covers
  <1>3. ASSUME Upgrade PROVE HistoryInv'
    BY <1>3 DEF Upgrade, HistoryInv, OneWriter, AbsenceKnown, StoredReadable, CopiesWellFormed,
       RetainedNotInvalidated, MergedCoversStored, WellFormed, RetainedPath, Covers
  <1>4. ASSUME NEW p \in Proc, Load(p) PROVE HistoryInv'
    <2>1. \A r \in Proc, q \in Path : entries'[r][q] \in {entries[r][q], stored[q], NoEntry}
      BY <1>4 DEF Load, ReadEntry, TypeOK
    <2>2. CopiesWellFormed'
      <3>1. \A r \in Proc, q \in Path : /\ WellFormed(entries[r][q]) /\ WellFormed(stored[q])
                                       /\ WellFormed(merged[r][q]) /\ WellFormed(NoEntry)
        BY DEF HistoryInv, CopiesWellFormed, StoredReadable, WellFormed
      <3>2. \A r \in Proc, q \in Path : WellFormed(entries'[r][q])
        BY <2>1, <3>1
      <3>3. merged' = merged
        BY <1>4 DEF Load
      <3> QED
        BY <3>1, <3>2, <3>3 DEF CopiesWellFormed, WellFormed
    <2>3. OneWriter' /\ \A r \in Proc : pc'[r] = "write" => pc[r] = "write"
      BY <1>4 DEF Load, TypeOK, HistoryInv, OneWriter
    <2> QED
      BY <1>4, <2>2, <2>3, PrivateStep DEF Load
  <1>5. ASSUME NEW p \in Proc, LoadFails(p) PROVE HistoryInv'
    <2>1. OneWriter' /\ \A r \in Proc : pc'[r] = "write" => pc[r] = "write"
      BY <1>5 DEF LoadFails, TypeOK, HistoryInv, OneWriter
    <2>2. CopiesWellFormed'
      BY <1>5 DEF LoadFails, HistoryInv, CopiesWellFormed, WellFormed
    <2> QED
      BY <1>5, <2>1, <2>2, PrivateStep DEF LoadFails
  <1>6. ASSUME NEW p \in Proc, PruneMissingFiles(p) PROVE HistoryInv'
    <2>1. CopiesWellFormed'
      BY <1>6 DEF PruneMissingFiles, TypeOK, HistoryInv, CopiesWellFormed, WellFormed
    <2>2. \A r \in Proc, q \in Path : deleted_keys'[r][q] \in {deleted_keys[r][q], Missing}
      BY <1>6 DEF PruneMissingFiles, TypeOK
    <2>3. OneWriter' /\ \A r \in Proc : pc'[r] = "write" => pc[r] = "write"
      BY <1>6 DEF PruneMissingFiles, TypeOK, HistoryInv, OneWriter
    <2> QED
      BY <1>6, <2>1, <2>2, <2>3, PrivateStep DEF PruneMissingFiles, RetainedPath
  <1>7. ASSUME NEW p \in Proc, NEW q \in Path, CheckFingerprint(p, q) PROVE HistoryInv'
    BY <1>7, LaneHistory DEF CheckFingerprint, KeepCache
  <1>8. ASSUME NEW p \in Proc, NEW q \in Path, KeepCache, ParseDone(p, q) PROVE HistoryInv'
    BY <1>8, LaneHistory DEF ParseDone
  <1>9. ASSUME NEW p \in Proc, NEW q \in Path, NEW fingerprint \in Gen \cup {0},
               NEW messages \in Messages, NEW retained \in SUBSET Key,
               Insert(p, q, FreshEntry(p, fingerprint, messages, retained)), ParseDone(p, q)
        PROVE  HistoryInv'
    <2>1. FreshEntry(p, fingerprint, messages, retained) \in CachedSourceEntry
      BY FreshEntryType
    <2>2. FreshEntry(p, fingerprint, messages, retained).version # 0
      BY DEF FreshEntry, TypeOK, Version
    <2> QED
      BY <1>9, <2>1, <2>2, LaneHistory DEF ParseDone
  <1>10. ASSUME NEW p \in Proc, NEW q \in Path
         PROVE  /\ fp[p][q] \in Gen \cup {0} /\ gen[q] \in Gen
                /\ parsed[p][q] \in Messages /\ Content(q) \in Messages
                /\ entries[p][q].messages \in Messages
    BY ContentType DEF TypeOK, CachedSourceEntry
  <1>11. ASSUME NEW p \in Proc, NEW q \in Path, ParseClaude(p, q) PROVE HistoryInv'
    BY <1>8, <1>9, <1>10, <1>11, RetainType DEF ParseClaude
  <1>12. ASSUME NEW p \in Proc, NEW q \in Path, ParseClaudeFails(p, q) PROVE HistoryInv'
    BY <1>8, <1>12 DEF ParseClaudeFails
  <1>13. ASSUME NEW p \in Proc, NEW q \in Path, ParseCheckFirst(p, q) PROVE HistoryInv'
    BY <1>8, <1>9, <1>10, <1>13 DEF ParseCheckFirst
  <1>14. ASSUME NEW p \in Proc, NEW q \in Path, ParseNotCacheable(p, q) PROVE HistoryInv'
    <2>1. q \notin RetainedPath
      BY <1>14 DEF ParseNotCacheable, Retains, RetainedPath
    <2>2. CASE entries[p][q] = NoEntry \/ Lane[q] = "simple"
      BY <1>8, <1>14, <2>2 DEF ParseNotCacheable, Remove, KeepCache
    <2>3. CASE ~(entries[p][q] = NoEntry \/ Lane[q] = "simple")
      <3>1. /\ entries' = [entries EXCEPT ![p] = [@ EXCEPT ![q] = NoEntry]]
            /\ \E reason \in DeletionReason :
                 deleted_keys' = [deleted_keys EXCEPT ![p] = [@ EXCEPT ![q] = reason]]
        <4>1. Invalidated(entries[p][q].fingerprint) \in DeletionReason
          BY DEF TypeOK, Invalidated, DeletionReason, NotDeleted, CachedSourceEntry
        <4> QED
          BY <1>14, <2>3, <4>1 DEF ParseNotCacheable, Remove
      <3>2. UNCHANGED <<sources, cacheDir, pc, saveVars>>
        BY <1>14 DEF ParseNotCacheable, ParseDone
      <3>3. CopiesWellFormed'
        BY <3>1, <3>2 DEF TypeOK, HistoryInv, CopiesWellFormed, WellFormed
      <3>4. \A r \in Proc, x \in RetainedPath : deleted_keys'[r][x] = deleted_keys[r][x]
        BY <2>1, <3>1 DEF TypeOK, RetainedPath
      <3> QED
        BY <3>2, <3>3, <3>4, PrivateStep DEF HistoryInv, OneWriter
    <2> QED
      BY <2>2, <2>3
  <1>15. ASSUME NEW p \in Proc, NEW q \in Path, ParseFirst(p, q) PROVE HistoryInv'
    BY <1>15, LaneHistory DEF ParseFirst, KeepCache
  <1>16. ASSUME NEW p \in Proc, NEW q \in Path, StampAfterParse(p, q) PROVE HistoryInv'
    BY <1>8, <1>9, <1>10, <1>16 DEF StampAfterParse
  <1>17. ASSUME NEW p \in Proc, FinishScan(p) PROVE HistoryInv'
    <2>1. CopiesWellFormed'
      BY <1>17 DEF FinishScan, TypeOK, HistoryInv, CopiesWellFormed, WellFormed
    <2>2. OneWriter' /\ \A r \in Proc : pc'[r] = "write" => pc[r] = "write"
      BY <1>17 DEF FinishScan, TypeOK, HistoryInv, OneWriter
    <2> QED
      BY <1>17, <2>1, <2>2, PrivateStep DEF FinishScan
  <1>18. ASSUME NEW p \in Proc, FinishCleanScan(p) PROVE HistoryInv'
    BY <1>18, DropHistory DEF FinishCleanScan
  <1>19. ASSUME NEW p \in Proc, SaveUnavailable(p) PROVE HistoryInv'
    BY <1>19, DropHistory DEF SaveUnavailable
  <1>20. ASSUME NEW p \in Proc, LockExclusive(p) PROVE HistoryInv'
    <2>1. OneWriter' /\ \A r \in Proc : pc'[r] = "write" => pc[r] = "write"
      BY <1>20 DEF LockExclusive, TypeOK, HistoryInv, OneWriter
    <2>2. CopiesWellFormed'
      BY <1>20 DEF LockExclusive, HistoryInv, CopiesWellFormed, WellFormed
    <2> QED
      BY <1>20, <2>1, <2>2, PrivateStep DEF LockExclusive
  <1>21. ASSUME NEW p \in Proc, NEW s \in Shard, MergeShard(p, s) PROVE HistoryInv'
    <2>1. /\ merged' = [merged EXCEPT ![p] = [q \in Path |->
                IF ShardOf[q] = s THEN SavedEntry(p, q, stored[q]) ELSE NoEntry]]
          /\ UNCHANGED <<sources, cacheDir, build, bookkeeping, laneVars, todo>>
          /\ pc' = [pc EXCEPT ![p] = "write"] /\ writing' = [writing EXCEPT ![p] = {s}]
          /\ pc[p] = "save"
      <3>1. Unreadable("save_read") = {{}}
        BY DEF Unreadable, ShardsReadable
      <3>2. Shard \ {} = Shard
        OBVIOUS
      <3> DEFINE Merge(readable) == [q \in Path |->
                    IF ShardOf[q] = s THEN SavedEntry(p, q, ReadEntry(q, build[p], readable))
                    ELSE NoEntry]
      <3>3. \E bad \in {{}} : merged' = [merged EXCEPT ![p] = Merge(Shard \ bad)]
        BY <1>21, <3>1 DEF MergeShard
      <3>4. Merge(Shard) = [q \in Path |->
                    IF ShardOf[q] = s THEN SavedEntry(p, q, stored[q]) ELSE NoEntry]
        BY ReadBack
      <3>5. merged' = [merged EXCEPT ![p] = Merge(Shard)]
        BY <3>2, <3>3
      <3> QED
        BY <1>21, <3>4, <3>5 DEF MergeShard
    <2>2. \A q \in Path : WellFormed(SavedEntry(p, q, stored[q]))
      BY SavedWellFormed DEF TypeOK, HistoryInv, StoredReadable
    <2>3. CopiesWellFormed'
      <3>1. \A r \in Proc, q \in Path : WellFormed(merged'[r][q])
        <4>1. WellFormed(NoEntry)
          BY DEF WellFormed
        <4>2. ASSUME NEW r \in Proc, NEW q \in Path
              PROVE merged'[r][q] \in {merged[r][q], SavedEntry(p, q, stored[q]), NoEntry}
          BY <2>1 DEF TypeOK
        <4>3. \A r \in Proc, q \in Path : WellFormed(merged[r][q])
          BY DEF HistoryInv, CopiesWellFormed
        <4> QED
          BY <2>2, <4>1, <4>2, <4>3 DEF WellFormed
      <3> QED
        BY <2>1, <3>1 DEF HistoryInv, CopiesWellFormed, WellFormed
    <2>4. OneWriter'
      BY <2>1 DEF TypeOK, HistoryInv, OneWriter
    <2>5. MergedCoversStored'
      <3> SUFFICES ASSUME NEW r \in Proc, NEW q \in RetainedPath,
                          pc'[r] = "write", ShardOf[q] \in writing'[r]
                   PROVE  Covers(merged'[r][q].messages, stored[q].messages) \/ q \in vanished
        BY <2>1 DEF MergedCoversStored, RetainedPath, Covers
      <3>1. CASE r = p
        <4>1. ShardOf[q] = s /\ q \in Path
          BY <2>1, <3>1 DEF TypeOK, RetainedPath
        <4>2. merged'[r][q] = SavedEntry(p, q, stored[q])
          BY <2>1, <3>1, <4>1 DEF TypeOK
        <4> QED
          BY <4>2, SavedCovers
      <3>2. CASE r # p
        BY <2>1, <3>2 DEF TypeOK, HistoryInv, MergedCoversStored
      <3> QED
        BY <3>1, <3>2
    <2>6. AbsenceKnown' /\ StoredReadable' /\ RetainedNotInvalidated'
      BY <2>1 DEF HistoryInv, AbsenceKnown, StoredReadable, RetainedNotInvalidated,
         WellFormed, RetainedPath
    <2> QED
      BY <2>3, <2>4, <2>5, <2>6 DEF HistoryInv
  <1>22. ASSUME NEW p \in Proc, WriteShard(p) PROVE HistoryInv'
    <2>1. \A r \in Proc : pc'[r] # "write" /\ (pc'[r] = "save" => pc[r] \in {"save", "write"})
      BY <1>22 DEF WriteShard, ShardDone, TypeOK, HistoryInv, OneWriter
    <2>2. OneWriter'
      BY <1>22, <2>1 DEF WriteShard, HistoryInv, OneWriter
    <2>3. AbsenceKnown'
      BY <1>22 DEF WriteShard, HistoryInv, AbsenceKnown
    <2>4. StoredReadable'
      <3>1. \A q \in Path : WellFormed(stored'[q])
        BY <1>22 DEF WriteShard, HistoryInv, StoredReadable, CopiesWellFormed, WellFormed
      <3>2. \A q \in Path : stored'[q].version # 0 => envelope'[ShardOf[q]] # 0
        <4>1. build[p] # 0 /\ \A q \in Path : ShardOf[q] \in Shard
          BY LaneAssumption DEF TypeOK, Version
        <4> QED
          BY <1>22, <4>1 DEF WriteShard, HistoryInv, StoredReadable
      <3> QED
        BY <3>1, <3>2 DEF StoredReadable, WellFormed
    <2>5. CopiesWellFormed'
      BY <1>22 DEF WriteShard, ShardDone, TypeOK, HistoryInv, CopiesWellFormed, WellFormed
    <2>6. RetainedNotInvalidated'
      BY <1>22 DEF WriteShard, HistoryInv, RetainedNotInvalidated, RetainedPath
    <2>7. MergedCoversStored'
      BY <2>1 DEF MergedCoversStored
    <2> QED
      BY <2>2, <2>3, <2>4, <2>5, <2>6, <2>7 DEF HistoryInv
  <1>23. ASSUME NEW p \in Proc, WriteShardFails(p) PROVE HistoryInv'
    <2>1. CopiesWellFormed'
      BY <1>23 DEF WriteShardFails, ShardDone, TypeOK, HistoryInv, CopiesWellFormed, WellFormed
    <2>2. OneWriter' /\ \A r \in Proc : pc'[r] # "write"
      BY <1>23 DEF WriteShardFails, ShardDone, TypeOK, HistoryInv, OneWriter
    <2> QED
      BY <1>23, <2>1, <2>2, PrivateStep DEF WriteShardFails
  <1>24. ASSUME NEW p \in Proc, SaveDone(p) PROVE HistoryInv'
    BY <1>24, DropHistory DEF SaveDone
  <1>25. ASSUME NEW p \in Proc, Crash(p) PROVE HistoryInv'
    BY <1>25, DropHistory DEF Crash
  <1>26. ASSUME UNCHANGED vars PROVE HistoryInv'
    BY <1>26 DEF vars, HistoryInv, OneWriter, AbsenceKnown, StoredReadable, CopiesWellFormed,
       RetainedNotInvalidated, MergedCoversStored, WellFormed, RetainedPath, Covers
  <1> QED
    BY <1>1, <1>2, <1>3, <1>4, <1>5, <1>6, <1>7, <1>11, <1>12, <1>13, <1>14, <1>15, <1>16,
       <1>17, <1>18, <1>19, <1>20, <1>21, <1>22, <1>23, <1>24, <1>25, <1>26
    DEF Next, ScanAction, LaneAction, SaveAction

\* HistoryInv always holds: one writer at a time, and what a save has merged
\* covers what is on disk until it is written (MessageCache's HistoryInv).
THEOREM HistoryInvariant ==
    ASSUME OneBuild, ShardsReadable
    PROVE  Spec => []HistoryInv
  <1>1. Init => HistoryInv
    BY InitHistory
  <1>2. TypeOK /\ HistoryInv /\ [Next]_vars => HistoryInv'
    BY NextHistory
  <1> QED
    BY <1>1, <1>2, TypeCorrect, PTL DEF Spec

\* Only the replacement of a shard changes what is stored.
LEMMA OnlyWritesStore ==
    ASSUME [Next]_vars
    PROVE  stored' = stored \/ \E p \in Proc : WriteShard(p)
  BY DEF Next, ScanAction, LaneAction, SaveAction, WriteSource, DeleteSource, Upgrade, Load,
     LoadFails, PruneMissingFiles, CheckFingerprint, ParseClaude, ParseClaudeFails,
     ParseCheckFirst, ParseNotCacheable, ParseFirst, StampAfterParse, ParseDone, FinishScan,
     FinishCleanScan, LockExclusive, SaveUnavailable, MergeShard, WriteShardFails, SaveDone,
     Crash, vars, cacheDir

\* What is stored afterwards covers what was stored, or the path was absent.
LEMMA StepKeepsHistory ==
    ASSUME TypeOK, HistoryInv, [Next]_vars, NEW q \in RetainedPath
    PROVE  Covers(stored'[q].messages, stored[q].messages) \/ q \in vanished
  <1>1. q \in Path /\ stored[q].messages \in Messages
    BY DEF RetainedPath, TypeOK, CachedSourceEntry
  <1>2. CASE stored' = stored
    BY <1>1, <1>2, CoversReflexive
  <1>3. ASSUME NEW p \in Proc, WriteShard(p)
        PROVE  Covers(stored'[q].messages, stored[q].messages) \/ q \in vanished
    <2>1. CASE ShardOf[q] \in writing[p]
      <3>1. stored'[q] = merged[p][q] /\ pc[p] = "write"
        BY <1>1, <1>3, <2>1 DEF WriteShard
      <3> QED
        BY <2>1, <3>1 DEF HistoryInv, MergedCoversStored
    <2>2. CASE ShardOf[q] \notin writing[p]
      <3>1. stored'[q] = stored[q]
        BY <1>1, <1>3, <2>2 DEF WriteShard
      <3> QED
        BY <1>1, <3>1, CoversReflexive
    <2> QED
      BY <2>1, <2>2
  <1> QED
    BY <1>2, <1>3, OnlyWritesStore

\* No save of any process, in any interleaving with rewrites, deletions and
\* crashes, drops or lowers a turn Claude's cache holds (NoHistoryLost), when
\* one build is installed and a save can read the shards it replaces.
THEOREM HistoryKept ==
    ASSUME OneBuild, ShardsReadable
    PROVE  Spec => NoHistoryLost
  <1>1. TypeOK /\ HistoryInv /\ [Next]_vars =>
          [\A q \in RetainedPath :
             Covers(stored'[q].messages, stored[q].messages) \/ q \in vanished]_vars
    BY StepKeepsHistory
  <1> QED
    BY <1>1, TypeCorrect, HistoryInvariant, PTL DEF Spec, NoHistoryLost
-------------------------------------------------------------------------------
(***************************************************************************)
(* No turn lost across parser versions.  A newer build is installed while  *)
(* no scan runs, and the cache can be read, at the start of a scan and in  *)
(* a save: with an older build still running, or where a cache cannot be   *)
(* read, a save replaces older turns without having seen them.             *)
(***************************************************************************)
CleanMigration == ~UpgradeWhileRunning /\ Faults \cap {"load", "load_read", "save_read"} = {}

HoldsTurns(n, m) == \A k \in StableKey : m[k] > 0 => n[k] > 0

\* An entry that a build still reads and would replace by one of its own.
Migrates(q) == OldestMigratable <= stored[q].version /\ stored[q].version < installed

VersionsOrdered ==
    /\ \A q \in RetainedPath : stored[q].version <= envelope[ShardOf[q]]
    /\ \A s \in Shard : envelope[s] <= installed

AbsenceRecorded == \A q \in Path : ~present[q] => q \in everVanished

\* What a scan has loaded, and what its save has merged.
LoadedTurns(p, q) ==
    pc[p] # "idle" /\ q \notin everVanished /\ Migrates(q) =>
        HoldsTurns(entries[p][q].messages, stored[q].messages)

MergedTurns(p, q) ==
    pc[p] = "write" /\ ShardOf[q] \in writing[p] =>
        /\ merged[p][q] \in {stored[q], NoEntry} \/ merged[p][q].version = installed
        /\ q \notin everVanished /\ OldestMigratable <= stored[q].version =>
               HoldsTurns(merged[p][q].messages, stored[q].messages)

ScanTurns(p) ==
    /\ pc[p] # "idle" => build[p] = installed
    /\ pc[p] \in {"idle", "prune"} => dirty_keys[p] = {}
    /\ \A q \in dirty_keys[p] : entries[p][q] = NoEntry \/ entries[p][q].version = build[p]
    /\ \A q \in RetainedPath :
           /\ deleted_keys[p][q] \in {NotDeleted, Missing}
           /\ LoadedTurns(p, q) /\ MergedTurns(p, q)

TurnInv == OneWriter /\ AbsenceRecorded /\ VersionsOrdered /\ \A p \in Proc : ScanTurns(p)

\* Messages hold their own turns, and those of no messages.
LEMMA NothingToHold ==
    ASSUME NEW n, NEW m \in Messages
    PROVE  HoldsTurns(m, m) /\ HoldsTurns(n, NoMessages)
  BY StableKeyAssumption DEF HoldsTurns, NoMessages

\* A build reads back what it still has to migrate, and what it wrote itself.
LEMMA OldIsRead ==
    ASSUME TypeOK, TurnInv, NEW q \in RetainedPath
    PROVE  /\ ReadEntry(q, installed, Shard) \in {stored[q], NoEntry}
           /\ OldestMigratable <= stored[q].version => ReadEntry(q, installed, Shard) = stored[q]
  <1>1. q \in Path /\ Retains(q) /\ ShardOf[q] \in Shard
    BY LaneAssumption DEF RetainedPath
  <1>2. ShardRetains(ShardOf[q])
    BY <1>1 DEF ShardRetains, PathsOf
  <1>3. /\ stored[q].version \in Nat /\ envelope[ShardOf[q]] \in Nat /\ installed \in Nat
        /\ OldestMigratable \in Nat \ {0}
    <2>1. \A v \in Version \cup {0} : v \in Nat
      BY BoundsAssumption DEF Version
    <2>2. stored[q] \in CachedSourceEntry /\ envelope[ShardOf[q]] \in Version \cup {0}
          /\ installed \in Version
      BY <1>1 DEF TypeOK
    <2>3. stored[q].version \in Version \cup {0}
      BY <2>2 DEF CachedSourceEntry
    <2> QED
      BY <2>1, <2>2, <2>3, CacheConstantsAssumption
  <1>4. stored[q].version <= envelope[ShardOf[q]] /\ envelope[ShardOf[q]] <= installed
    BY <1>1 DEF TurnInv, VersionsOrdered
  <1>5. ASSUME OldestMigratable <= stored[q].version
        PROVE  /\ Admitted(Retains(q), stored[q].version, installed)
               /\ ShardLoaded(ShardOf[q], installed)
    <2>1. /\ stored[q].version > 0 /\ stored[q].version <= installed
          /\ OldestMigratable <= envelope[ShardOf[q]] /\ envelope[ShardOf[q]] > 0
      BY <1>3, <1>4, <1>5
    <2> QED
      BY <1>1, <1>2, <1>3, <1>4, <1>5, <2>1 DEF Admitted, Migratable, ShardLoaded
  <1> QED
    BY <1>1, <1>5 DEF ReadEntry

\* What a save is about to write for a Claude path holds the turns on disk.
LEMMA SavedTurns ==
    ASSUME TypeOK, TurnInv, NEW p \in Proc, NEW q \in RetainedPath, pc[p] = "save"
    PROVE  LET saved == SavedEntry(p, q, ReadEntry(q, build[p], Shard))
           IN  /\ saved \in {stored[q], NoEntry} \/ saved.version = installed
               /\ q \notin everVanished /\ OldestMigratable <= stored[q].version =>
                      HoldsTurns(saved.messages, stored[q].messages)
  <1> DEFINE read == ReadEntry(q, build[p], Shard)
             kept == IF StillDeleted(p, q, read) THEN NoEntry ELSE read
             saved == SavedEntry(p, q, read)
  <1>1. q \in Path /\ Retains(q)
    BY DEF RetainedPath
  <1>2. build[p] = installed /\ ScanTurns(p)
    BY DEF TurnInv, ScanTurns
  <1>3. /\ stored[q] \in CachedSourceEntry /\ entries[p][q] \in CachedSourceEntry
        /\ installed \in Int /\ stored[q].version \in Int
    BY <1>1 DEF TypeOK, CachedSourceEntry, Version
  <1>4. read \in {stored[q], NoEntry} /\ (OldestMigratable <= stored[q].version => read = stored[q])
    BY <1>2, OldIsRead
  <1>5. kept \in {stored[q], NoEntry}
    BY <1>4
  <1>6. saved = kept
        \/ (/\ q \in dirty_keys[p] /\ entries[p][q] # NoEntry
            /\ saved = AbsorbRetainedHistory(entries[p][q], kept))
    BY <1>1 DEF SavedEntry
  <1>7. q \in dirty_keys[p] /\ entries[p][q] # NoEntry => entries[p][q].version = installed
    BY <1>2 DEF ScanTurns
  <1>8. AbsorbRetainedHistory(entries[p][q], kept).version = entries[p][q].version
    BY <1>3 DEF AbsorbRetainedHistory, CachedSourceEntry
  <1>9. saved \in {stored[q], NoEntry} \/ saved.version = installed
    BY <1>5, <1>6, <1>7, <1>8
  <1>10. ASSUME q \notin everVanished, OldestMigratable <= stored[q].version
         PROVE  HoldsTurns(saved.messages, stored[q].messages)
    <2>1. kept = stored[q]
      <3>1. deleted_keys[p][q] \in {NotDeleted, Missing} /\ present[q]
        BY <1>1, <1>2, <1>10 DEF TurnInv, AbsenceRecorded, ScanTurns
      <3>2. ~StillDeleted(p, q, read)
        BY <3>1 DEF StillDeleted
      <3> QED
        BY <1>4, <1>10, <3>2
    <2>2. CASE saved = kept
      BY <1>3, <2>1, <2>2, NothingToHold DEF CachedSourceEntry
    <2>3. CASE /\ q \in dirty_keys[p] /\ entries[p][q] # NoEntry
               /\ saved = AbsorbRetainedHistory(entries[p][q], kept)
      <3>1. entries[p][q].version = installed
        BY <1>7, <2>3
      <3>2. CASE stored[q].version = installed
        <4>1. Covers(saved.messages, stored[q].messages)
          BY <1>3, <2>1, <2>3, <3>1, <3>2, AbsorbCovers
        <4>2. saved \in CachedSourceEntry
          BY <1>3, <2>1, <2>3, AbsorbType
        <4>3. /\ \A k \in StableKey : saved.messages[k] \in Int /\ stored[q].messages[k] \in Int
          BY <1>3, <4>2, StableKeyAssumption, BoundsAssumption DEF CachedSourceEntry, Messages, Usage
        <4> QED
          BY <4>1, <4>3 DEF Covers, HoldsTurns
      <3>3. CASE stored[q].version # installed
        <4>1. saved = entries[p][q]
          BY <2>1, <2>3, <3>1, <3>3 DEF AbsorbRetainedHistory
        <4>2. stored[q].version < installed
          <5>1. stored[q].version <= envelope[ShardOf[q]] /\ envelope[ShardOf[q]] <= installed
                /\ envelope[ShardOf[q]] \in Int
            BY <1>1, LaneAssumption DEF TurnInv, VersionsOrdered, TypeOK, Version
          <5> QED
            BY <1>3, <3>3, <5>1
        <4>3. LoadedTurns(p, q) /\ pc[p] # "idle" /\ Migrates(q)
          BY <1>2, <1>10, <4>2 DEF ScanTurns, Migrates
        <4> QED
          BY <1>10, <4>1, <4>3 DEF LoadedTurns
      <3> QED
        BY <3>2, <3>3
    <2> QED
      BY <1>6, <2>2, <2>3
  <1> QED
    BY <1>9, <1>10

\* Initially there is no turn to lose.
LEMMA InitTurns == Init => TurnInv
  BY LaneAssumption, BoundsAssumption
  DEF Init, TurnInv, OneWriter, AbsenceRecorded, VersionsOrdered, ScanTurns, LoadedTurns,
      MergedTurns, NoEntry, RetainedPath

\* A step that leaves the files of the cache alone leaves the scan of every
\* other process as it is.
LEMMA OthersKeepTurns ==
    ASSUME TypeOK, NEW r \in Proc, ScanTurns(r), NEW p \in Proc, r # p,
           UNCHANGED <<stored, installed>>, everVanished \subseteq everVanished',
           \A x \in Proc \ {p} :
               /\ pc'[x] = pc[x] /\ build'[x] = build[x] /\ entries'[x] = entries[x]
               /\ dirty_keys'[x] = dirty_keys[x] /\ deleted_keys'[x] = deleted_keys[x]
               /\ writing'[x] = writing[x] /\ merged'[x] = merged[x]
    PROVE  ScanTurns(r)'
  <1>1. /\ pc'[r] = pc[r] /\ build'[r] = build[r] /\ entries'[r] = entries[r]
        /\ dirty_keys'[r] = dirty_keys[r] /\ deleted_keys'[r] = deleted_keys[r]
        /\ writing'[r] = writing[r] /\ merged'[r] = merged[r]
    OBVIOUS
  <1>2. RetainedPath' = RetainedPath
    BY DEF RetainedPath, Retains
  <1>3. \A q \in RetainedPath : LoadedTurns(r, q)' /\ MergedTurns(r, q)'
    BY <1>1, <1>2 DEF ScanTurns, LoadedTurns, MergedTurns, Migrates, HoldsTurns
  <1> QED
    BY <1>1, <1>2, <1>3 DEF ScanTurns

\* A step of one process that leaves the files of the cache alone.
LEMMA PrivateTurns ==
    ASSUME TypeOK, TurnInv, NEW p \in Proc, ScanTurns(p)', OneWriter',
           UNCHANGED <<sources, stored, envelope>>,
           \A x \in Proc \ {p} :
               /\ pc'[x] = pc[x] /\ build'[x] = build[x] /\ entries'[x] = entries[x]
               /\ dirty_keys'[x] = dirty_keys[x] /\ deleted_keys'[x] = deleted_keys[x]
               /\ writing'[x] = writing[x] /\ merged'[x] = merged[x]
    PROVE  TurnInv'
  <1>1. \A r \in Proc : ScanTurns(r)'
    <2> SUFFICES ASSUME NEW r \in Proc, r # p PROVE ScanTurns(r)'
      OBVIOUS
    <2>1. ScanTurns(r)
      BY DEF TurnInv
    <2> QED
      BY <2>1, OthersKeepTurns DEF sources
  <1>2. AbsenceRecorded' /\ VersionsOrdered'
    BY DEF TurnInv, AbsenceRecorded, VersionsOrdered, RetainedPath, sources
  <1> QED
    BY <1>1, <1>2 DEF TurnInv

\* Ending a scan, however it ends.
LEMMA DropTurns ==
    ASSUME TypeOK, TurnInv, NEW p \in Proc, Drop(p),
           UNCHANGED <<sources, stored, envelope, build>>
    PROVE  TurnInv'
  <1>1. OneWriter'
    BY DEF Drop, TypeOK, TurnInv, OneWriter
  <1>2. ScanTurns(p)'
    BY DEF Drop, TypeOK, ScanTurns, LoadedTurns, MergedTurns, RetainedPath
  <1> QED
    BY <1>1, <1>2, PrivateTurns DEF Drop, TypeOK

\* A step of a lane: an entry of the running build takes the place of one whose
\* turns it holds, or an entry of a lane without history is given up.
LEMMA LaneTurns ==
    ASSUME TypeOK, TurnInv, NEW p \in Proc, NEW q \in Path, pc[p] = "scan",
           UNCHANGED <<sources, cacheDir, pc, build, saveVars>>,
           \/ KeepCache
           \/ \E entry \in CachedSourceEntry :
                 /\ Insert(p, q, entry) /\ entry.version = build[p]
                 /\ q \in RetainedPath => HoldsTurns(entry.messages, entries[p][q].messages)
           \/ q \notin RetainedPath /\ Remove(p, q)
    PROVE  TurnInv'
  <1> USE DEF cacheDir, saveVars
  <1>1. ScanTurns(p) /\ OneWriter /\ OneWriter'
    BY DEF TurnInv, OneWriter
  <1>2. ASSUME KeepCache PROVE TurnInv'
    <2>1. ScanTurns(p)'
      BY <1>1, <1>2 DEF KeepCache, ScanTurns, LoadedTurns, MergedTurns, Migrates, HoldsTurns,
         RetainedPath, sources
    <2> QED
      BY <1>1, <1>2, <2>1, PrivateTurns DEF KeepCache
  <1>3. ASSUME NEW entry \in CachedSourceEntry, Insert(p, q, entry), entry.version = build[p],
               q \in RetainedPath => HoldsTurns(entry.messages, entries[p][q].messages)
        PROVE  TurnInv'
    <2>1. /\ entries'[p] = [entries[p] EXCEPT ![q] = entry]
          /\ dirty_keys'[p] = dirty_keys[p] \cup {q}
          /\ deleted_keys'[p] = [deleted_keys[p] EXCEPT ![q] = NotDeleted]
          /\ \A x \in Proc \ {p} : /\ entries'[x] = entries[x] /\ dirty_keys'[x] = dirty_keys[x]
                                  /\ deleted_keys'[x] = deleted_keys[x]
      BY <1>3 DEF Insert, TypeOK
    <2>2. entries[p] \in [Path -> CachedSourceEntry] /\ deleted_keys[p] \in [Path -> DeletionReason]
          /\ dirty_keys[p] \subseteq Path
      BY DEF TypeOK
    <2>3. \A x \in dirty_keys'[p] : entries'[p][x] = NoEntry \/ entries'[p][x].version = build'[p]
      BY <1>1, <1>3, <2>1, <2>2 DEF ScanTurns
    <2>4. ASSUME NEW x \in RetainedPath
          PROVE  deleted_keys'[p][x] \in {NotDeleted, Missing} /\ LoadedTurns(p, x)'
      <3>1. x \in Path /\ deleted_keys[p][x] \in {NotDeleted, Missing} /\ LoadedTurns(p, x)
        BY <1>1 DEF ScanTurns, RetainedPath
      <3>2. deleted_keys'[p][x] \in {NotDeleted, Missing}
        BY <2>1, <2>2, <3>1
      <3>3. HoldsTurns(entries'[p][x].messages, entries[p][x].messages)
        BY <1>3, <2>1, <2>2, <3>1 DEF HoldsTurns
      <3>4. LoadedTurns(p, x)'
        BY <3>1, <3>3 DEF LoadedTurns, Migrates, HoldsTurns, sources
      <3> QED
        BY <3>2, <3>4
    <2>5. \A x \in RetainedPath : MergedTurns(p, x)'
      BY <1>1 DEF ScanTurns, MergedTurns, HoldsTurns, sources
    <2>6. /\ RetainedPath' = RetainedPath /\ pc'[p] = "scan" /\ build'[p] = build[p]
          /\ installed' = installed /\ build[p] = installed
      BY <1>1 DEF RetainedPath, Retains, ScanTurns, sources
    <2>7. ScanTurns(p)'
      BY <2>3, <2>4, <2>5, <2>6 DEF ScanTurns
    <2> QED
      BY <1>1, <2>1, <2>7, PrivateTurns
  <1>4. ASSUME q \notin RetainedPath, Remove(p, q) PROVE TurnInv'
    <2>1. CASE entries[p][q] = NoEntry
      BY <1>2, <1>4, <2>1 DEF Remove, KeepCache
    <2>2. CASE entries[p][q] # NoEntry
      <3>1. /\ entries' = [entries EXCEPT ![p] = [@ EXCEPT ![q] = NoEntry]]
            /\ dirty_keys' = [dirty_keys EXCEPT ![p] = @ \ {q}]
            /\ \E reason :
                 deleted_keys' = [deleted_keys EXCEPT ![p] = [@ EXCEPT ![q] = reason]]
        BY <1>4, <2>2 DEF Remove
      <3>2. /\ \A x \in Path : x # q => /\ entries'[p][x] = entries[p][x]
                                       /\ deleted_keys'[p][x] = deleted_keys[p][x]
            /\ dirty_keys'[p] = dirty_keys[p] \ {q}
            /\ \A x \in Proc \ {p} : /\ entries'[x] = entries[x] /\ dirty_keys'[x] = dirty_keys[x]
                                    /\ deleted_keys'[x] = deleted_keys[x]
        BY <3>1 DEF TypeOK
      <3>3. dirty_keys[p] \subseteq Path
        BY DEF TypeOK
      <3>4. ScanTurns(p)'
        BY <1>1, <1>4, <3>2, <3>3
        DEF ScanTurns, LoadedTurns, MergedTurns, Migrates, HoldsTurns, RetainedPath, sources
      <3> QED
        BY <1>1, <3>2, <3>4, PrivateTurns
    <2> QED
      BY <2>1, <2>2
  <1> QED
    BY <1>2, <1>3, <1>4

\* What a save merges holds the turns of the older entry.
LEMMA MergeTurns ==
    ASSUME CleanMigration, TypeOK, TurnInv, NEW p \in Proc, NEW s \in Shard, MergeShard(p, s)
    PROVE  TurnInv'
  <1> DEFINE Saved(q) == SavedEntry(p, q, ReadEntry(q, build[p], Shard))
             Merge(readable) == [q \in Path |->
                 IF ShardOf[q] = s THEN SavedEntry(p, q, ReadEntry(q, build[p], readable))
                 ELSE NoEntry]
  <1>1. merged' = [merged EXCEPT ![p] = [q \in Path |->
                 IF ShardOf[q] = s THEN Saved(q) ELSE NoEntry]]
    <2>1. Unreadable("save_read") = {{}}
      BY DEF Unreadable, CleanMigration
    <2>2. Shard \ {} = Shard
      OBVIOUS
    <2>3. \E bad \in {{}} : merged' = [merged EXCEPT ![p] = Merge(Shard \ bad)]
      BY <2>1 DEF MergeShard
    <2>4. merged' = [merged EXCEPT ![p] = Merge(Shard)]
      BY <2>2, <2>3
    <2> QED
      BY <2>4
  <1>2. /\ pc[p] = "save" /\ pc' = [pc EXCEPT ![p] = "write"]
        /\ writing' = [writing EXCEPT ![p] = {s}]
        /\ UNCHANGED <<sources, cacheDir, build, bookkeeping>>
    BY DEF MergeShard
  <1>3. OneWriter' /\ ScanTurns(p)
    BY <1>2 DEF TypeOK, TurnInv, OneWriter, cacheDir
  <1>4. ASSUME NEW q \in RetainedPath PROVE MergedTurns(p, q)'
    <2> SUFFICES ASSUME pc'[p] = "write", ShardOf[q] \in writing'[p]
                 PROVE  MergedTurns(p, q)'
      BY DEF MergedTurns
    <2>1. ShardOf[q] = s /\ q \in Path
      BY <1>2 DEF TypeOK, RetainedPath
    <2>2. merged'[p][q] = Saved(q)
      BY <1>1, <2>1 DEF TypeOK
    <2>3. /\ Saved(q) \in {stored[q], NoEntry} \/ Saved(q).version = installed
          /\ q \notin everVanished /\ OldestMigratable <= stored[q].version =>
                 HoldsTurns(Saved(q).messages, stored[q].messages)
      BY <1>2, SavedTurns
    <2> HIDE DEF Saved
    <2> QED
      BY <1>2, <2>2, <2>3 DEF MergedTurns, HoldsTurns, sources, cacheDir
  <1>5. /\ pc'[p] = "write" /\ UNCHANGED <<build, entries, dirty_keys, deleted_keys, installed>>
        /\ stored' = stored /\ everVanished' = everVanished /\ RetainedPath' = RetainedPath
    BY <1>2 DEF TypeOK, sources, cacheDir, bookkeeping, RetainedPath, Retains
  <1>6. \A q \in RetainedPath : LoadedTurns(p, q)'
    BY <1>2, <1>3, <1>5 DEF ScanTurns, LoadedTurns, Migrates, HoldsTurns
  <1>7. ScanTurns(p)'
    BY <1>2, <1>3, <1>4, <1>5, <1>6 DEF ScanTurns
  <1> QED
    BY <1>1, <1>2, <1>3, <1>7, PrivateTurns DEF TypeOK, cacheDir, bookkeeping

\* A shard is replaced by what was merged, which holds the older turns.
LEMMA WriteTurns ==
    ASSUME TypeOK, TurnInv, NEW p \in Proc, WriteShard(p)
    PROVE  TurnInv'
  <1>1. /\ pc[p] = "write" /\ build[p] = installed /\ lock = {p}
        /\ UNCHANGED <<present, everVanished, installed, lock, build, bookkeeping>>
        /\ pc' = [pc EXCEPT ![p] = "save"]
        /\ stored' = [q \in Path |-> IF ShardOf[q] \in writing[p] THEN merged[p][q] ELSE stored[q]]
        /\ envelope' = [s \in Shard |-> IF s \in writing[p] THEN build[p] ELSE envelope[s]]
    BY DEF WriteShard, ShardDone, TurnInv, OneWriter, ScanTurns
  <1>2. \A r \in Proc : pc'[r] # "write" /\ (pc'[r] = "idle" <=> pc[r] = "idle")
                        /\ (pc'[r] = "prune" <=> pc[r] = "prune")
    BY <1>1 DEF TypeOK, TurnInv, OneWriter
  <1>3. OneWriter' /\ AbsenceRecorded'
    BY <1>1, <1>2 DEF TurnInv, OneWriter, AbsenceRecorded, TypeOK
  <1>4. ASSUME NEW q \in RetainedPath
        PROVE  /\ q \in Path /\ ShardOf[q] \in Shard
               /\ \/ stored'[q] = stored[q]
                  \/ stored'[q] = NoEntry
                  \/ stored'[q].version = installed
               /\ ShardOf[q] \in writing[p] => envelope'[ShardOf[q]] = installed
               /\ ShardOf[q] \notin writing[p] =>
                      /\ stored'[q] = stored[q]
                      /\ envelope'[ShardOf[q]] = envelope[ShardOf[q]]
    <2>1. q \in Path /\ ShardOf[q] \in Shard
      BY LaneAssumption DEF RetainedPath
    <2>2. ShardOf[q] \in writing[p] =>
             merged[p][q] \in {stored[q], NoEntry} \/ merged[p][q].version = installed
      BY <1>1 DEF TurnInv, ScanTurns, MergedTurns
    <2> QED
      BY <1>1, <2>1, <2>2
  <1>5. VersionsOrdered'
    <2>1. installed \in Nat \ {0} /\ NoEntry.version = 0
      BY DEF TypeOK, Version, NoEntry
    <2>2. \A s \in Shard : envelope'[s] <= installed'
      BY <1>1, <2>1 DEF TurnInv, VersionsOrdered
    <2>3. \A q \in RetainedPath : stored'[q].version <= envelope'[ShardOf[q]]
      <3> SUFFICES ASSUME NEW q \in RetainedPath
                   PROVE  stored'[q].version <= envelope'[ShardOf[q]]
        OBVIOUS
      <3>1. /\ stored[q].version <= envelope[ShardOf[q]] /\ envelope[ShardOf[q]] <= installed
            /\ stored[q].version \in Int /\ envelope[ShardOf[q]] \in Int
        <4>1. stored[q] \in CachedSourceEntry /\ envelope[ShardOf[q]] \in Version \cup {0}
          BY <1>4 DEF TypeOK
        <4> QED
          BY <1>4, <4>1 DEF TurnInv, VersionsOrdered, CachedSourceEntry, Version
      <3>2. CASE ShardOf[q] \in writing[p]
        BY <1>4, <2>1, <3>1, <3>2
      <3>3. CASE ShardOf[q] \notin writing[p]
        BY <1>4, <3>1, <3>3
      <3> QED
        BY <3>2, <3>3
    <2> QED
      BY <2>2, <2>3 DEF VersionsOrdered, RetainedPath
  <1>6. ASSUME NEW r \in Proc PROVE ScanTurns(r)'
    <2>1. /\ UNCHANGED <<entries, dirty_keys, deleted_keys, build, installed>>
          /\ RetainedPath' = RetainedPath /\ everVanished' = everVanished
      BY <1>1 DEF bookkeeping, RetainedPath, Retains
    <2>2. ScanTurns(r)
      BY DEF TurnInv
    <2>3. ASSUME NEW q \in RetainedPath PROVE LoadedTurns(r, q)' /\ MergedTurns(r, q)'
      <3>1. MergedTurns(r, q)'
        BY <1>2 DEF MergedTurns
      <3>2. LoadedTurns(r, q)'
        <4> SUFFICES ASSUME pc'[r] # "idle", q \notin everVanished, Migrates(q)'
                     PROVE  HoldsTurns(entries[r][q].messages, stored'[q].messages)
          BY <2>1 DEF LoadedTurns, HoldsTurns
        <4>1. /\ OldestMigratable <= stored'[q].version /\ stored'[q].version < installed
              /\ installed \in Nat /\ OldestMigratable \in Nat \ {0}
          BY <2>1, CacheConstantsAssumption, BoundsAssumption DEF Migrates, TypeOK, Version
        <4>2. stored'[q] # NoEntry
          BY <4>1 DEF NoEntry
        <4>3. stored'[q] = stored[q]
          BY <1>4, <4>1, <4>2
        <4>4. Migrates(q)
          BY <4>1, <4>3 DEF Migrates
        <4> QED
          BY <1>2, <2>2, <4>3, <4>4 DEF ScanTurns, LoadedTurns
      <3> QED
        BY <3>1, <3>2
    <2> QED
      BY <1>2, <2>1, <2>2, <2>3 DEF ScanTurns
  <1> QED
    BY <1>3, <1>5, <1>6 DEF TurnInv

\* Only a lane that parses first stamps what it has parsed.
StampingLane == \A p \in Proc, q \in Path : stage[p][q] = "stamping" => ParsesFirst(q)

\* Only a lane that parses first stamps afterwards.
LEMMA NextStamping == TypeOK /\ StampingLane /\ [Next]_vars => StampingLane'
  <1> SUFFICES ASSUME TypeOK, StampingLane, [Next]_vars PROVE StampingLane'
    OBVIOUS
  <1>1. ASSUME NEW p \in Proc, NEW q \in Path, NEW step,
               SetStage(p, q, step), step = "stamping" => ParsesFirst(q)
        PROVE  StampingLane'
    BY <1>1 DEF SetStage, StampingLane, TypeOK, ParsesFirst
  <1>2. ASSUME NEW p \in Proc, NEW q \in Path, LaneAction(p, q) PROVE StampingLane'
    <2>1. CASE CheckFingerprint(p, q)
      <3>1. SetStage(p, q, "none") \/ SetStage(p, q, "parsing")
        BY <2>1 DEF CheckFingerprint
      <3> QED
        BY <1>1, <3>1
    <2>2. CASE ParseFirst(p, q)
      <3>1. ParsesFirst(q) /\ \E step : SetStage(p, q, step)
        BY <2>2 DEF ParseFirst
      <3> QED
        BY <1>1, <3>1
    <2>3. CASE ParseDone(p, q)
      BY <1>1, <2>3 DEF ParseDone
    <2> QED
      BY <1>2, <2>1, <2>2, <2>3
      DEF LaneAction, ParseClaude, ParseClaudeFails, ParseCheckFirst, ParseNotCacheable,
          StampAfterParse
  <1>3. ASSUME NEW p \in Proc, List(p) \/ Drop(p) PROVE StampingLane'
    <2>1. ASSUME NEW r \in Proc, NEW q \in Path
          PROVE  stage'[r][q] \in {stage[r][q], "none", "queued"}
      <3>1. PICK f \in [Path -> {"none", "queued"}] : stage' = [stage EXCEPT ![p] = f]
        BY <1>3 DEF List, Drop
      <3> QED
        BY <3>1 DEF TypeOK
    <2> QED
      BY <2>1 DEF StampingLane, ParsesFirst
  <1>4. ASSUME UNCHANGED stage PROVE StampingLane'
    BY <1>4 DEF StampingLane, ParsesFirst
  <1> QED
    BY <1>2, <1>3, <1>4
    DEF Next, ScanAction, SaveAction, WriteSource, DeleteSource, Upgrade, Load, LoadFails,
        PruneMissingFiles, FinishScan, FinishCleanScan, LockExclusive, SaveUnavailable, MergeShard,
        WriteShard, WriteShardFails, SaveDone, Crash, vars, laneVars

\* Every step keeps every turn that a migration will need.
LEMMA NextTurns ==
    ASSUME CleanMigration, TypeOK, StampingLane, TurnInv, [Next]_vars
    PROVE  TurnInv'
  <1> USE DEF sources, cacheDir, laneVars, saveVars, bookkeeping
  <1>1. ASSUME NEW q \in Path, WriteSource(q) \/ DeleteSource(q) PROVE TurnInv'
    <2>1. AbsenceRecorded'
      BY <1>1 DEF WriteSource, DeleteSource, TypeOK, TurnInv, AbsenceRecorded
    <2>2. /\ UNCHANGED <<cacheDir, pc, build, bookkeeping, saveVars, installed>>
          /\ everVanished \subseteq everVanished' /\ RetainedPath' = RetainedPath
      BY <1>1 DEF WriteSource, DeleteSource, RetainedPath, Retains
    <2>3. OneWriter' /\ VersionsOrdered'
      BY <2>2 DEF TurnInv, OneWriter, VersionsOrdered
    <2>4. ASSUME NEW r \in Proc PROVE ScanTurns(r)'
      BY <2>2 DEF TurnInv, ScanTurns, LoadedTurns, MergedTurns, Migrates, HoldsTurns
    <2> QED
      BY <2>1, <2>3, <2>4 DEF TurnInv
  <1>2. ASSUME Upgrade PROVE TurnInv'
    <2>1. /\ \A p \in Proc : pc[p] = "idle"
          /\ UNCHANGED <<present, everVanished, cacheDir, pc, build, bookkeeping, saveVars>>
          /\ installed' = installed + 1 /\ RetainedPath' = RetainedPath
      BY <1>2 DEF Upgrade, CleanMigration, RetainedPath, Retains
    <2>2. OneWriter' /\ AbsenceRecorded'
      BY <2>1 DEF TurnInv, OneWriter, AbsenceRecorded
    <2>3. VersionsOrdered'
      <3>1. installed \in Int /\ \A s \in Shard : envelope[s] \in Int
        BY DEF TypeOK, Version
      <3> QED
        BY <2>1, <3>1 DEF TurnInv, VersionsOrdered
    <2>4. ASSUME NEW r \in Proc PROVE ScanTurns(r)'
      BY <2>1 DEF TurnInv, ScanTurns, LoadedTurns, MergedTurns
    <2> QED
      BY <2>2, <2>3, <2>4 DEF TurnInv
  <1>3. ASSUME NEW p \in Proc, Load(p) PROVE TurnInv'
    <2>1. OneWriter' /\ pc'[p] = "prune" /\ pc[p] = "idle" /\ ScanTurns(p)
          /\ RetainedPath' = RetainedPath
      BY <1>3 DEF Load, TypeOK, TurnInv, OneWriter, RetainedPath, Retains
    <2>2. entries'[p] = [q \in Path |-> ReadEntry(q, installed, Shard)] /\ build'[p] = installed
      <3>1. Unreadable("load_read") = {{}} /\ Shard \ {} = Shard
        BY DEF Unreadable, CleanMigration
      <3> DEFINE Reading(readable) == [q \in Path |-> ReadEntry(q, installed, readable)]
      <3>2. \E bad \in {{}} : entries' = [entries EXCEPT ![p] = Reading(Shard \ bad)]
        BY <1>3, <3>1 DEF Load
      <3>3. entries' = [entries EXCEPT ![p] = Reading(Shard)]
        BY <3>1, <3>2
      <3> QED
        BY <1>3, <3>3 DEF Load, TypeOK
    <2>3. ASSUME NEW q \in RetainedPath PROVE LoadedTurns(p, q)' /\ MergedTurns(p, q)'
      <3>1. q \in Path /\ stored[q].messages \in Messages
        BY DEF RetainedPath, TypeOK, CachedSourceEntry
      <3>2. OldestMigratable <= stored[q].version => entries'[p][q] = stored[q]
        BY <2>2, <3>1, OldIsRead
      <3>3. HoldsTurns(stored[q].messages, stored[q].messages)
        BY <3>1, NothingToHold
      <3>4. LoadedTurns(p, q)'
        BY <1>3, <3>2, <3>3 DEF Load, LoadedTurns, Migrates, HoldsTurns
      <3> QED
        BY <2>1, <3>4 DEF MergedTurns
    <2>4. ScanTurns(p)'
      BY <1>3, <2>1, <2>2, <2>3 DEF Load, ScanTurns
    <2> QED
      BY <1>3, <2>1, <2>4, PrivateTurns DEF Load, TypeOK
  <1>4. ASSUME NEW p \in Proc, LoadFails(p) PROVE TurnInv'
    BY <1>4 DEF LoadFails, CleanMigration
  <1>5. ASSUME NEW p \in Proc, PruneMissingFiles(p) PROVE TurnInv'
    <2>1. /\ pc[p] = "prune" /\ pc'[p] = "scan" /\ OneWriter' /\ ScanTurns(p)
          /\ RetainedPath' = RetainedPath
      BY <1>5 DEF PruneMissingFiles, TypeOK, TurnInv, OneWriter, RetainedPath, Retains
    <2>2. /\ \A q \in Path : q \notin everVanished => entries'[p][q] = entries[p][q]
          /\ \A q \in Path : deleted_keys'[p][q] \in {deleted_keys[p][q], Missing}
          /\ dirty_keys'[p] = {}
      BY <1>5, <2>1 DEF PruneMissingFiles, TypeOK, TurnInv, AbsenceRecorded, ScanTurns
    <2>3. \A q \in RetainedPath : q \in Path
      BY DEF RetainedPath
    <2>4. ScanTurns(p)'
      BY <1>5, <2>1, <2>2, <2>3
      DEF PruneMissingFiles, ScanTurns, LoadedTurns, MergedTurns, Migrates, HoldsTurns
    <2> QED
      BY <1>5, <2>1, <2>4, PrivateTurns DEF PruneMissingFiles, TypeOK
  <1>6. ASSUME NEW p \in Proc, NEW q \in Path, CheckFingerprint(p, q) \/ ParseFirst(p, q)
        PROVE  TurnInv'
    BY <1>6, LaneTurns DEF CheckFingerprint, ParseFirst, KeepCache
  <1>7. ASSUME NEW p \in Proc, NEW q \in Path, pc[p] = "scan", KeepCache, ParseDone(p, q)
        PROVE  TurnInv'
    BY <1>7, LaneTurns DEF ParseDone
  <1>8. ASSUME NEW p \in Proc, NEW q \in Path, pc[p] = "scan",
               NEW fingerprint \in Gen \cup {0}, NEW messages \in Messages,
               NEW retained \in SUBSET Key, ParseDone(p, q),
               Insert(p, q, FreshEntry(p, fingerprint, messages, retained)),
               q \in RetainedPath => HoldsTurns(messages, entries[p][q].messages)
        PROVE  TurnInv'
    <2> DEFINE entry == FreshEntry(p, fingerprint, messages, retained)
    <2>1. entry \in CachedSourceEntry /\ entry.version = build[p] /\ entry.messages = messages
      BY FreshEntryType DEF FreshEntry
    <2>2. Insert(p, q, entry) /\ UNCHANGED <<sources, cacheDir, pc, build, saveVars>>
      BY <1>8 DEF ParseDone
    <2> HIDE DEF entry
    <2> QED
      BY <1>8, <2>1, <2>2, LaneTurns
  <1>9. ASSUME NEW p \in Proc, NEW q \in Path
        PROVE  /\ fp[p][q] \in Gen \cup {0} /\ gen[q] \in Gen
               /\ parsed[p][q] \in Messages /\ Content(q) \in Messages
               /\ entries[p][q].messages \in Messages
    BY ContentType DEF TypeOK, CachedSourceEntry
  <1>10. ASSUME NEW p \in Proc, NEW q \in Path, ParseClaude(p, q) PROVE TurnInv'
    <2> DEFINE cached == entries[p][q].messages
               all == RetainObserved(Content(q), cached)
    <2>1. HoldsTurns(all, cached)
      <3>1. \A k \in StableKey : k \in Key /\ cached[k] \in Nat /\ Content(q)[k] \in Nat
        BY <1>9, StableKeyAssumption, BoundsAssumption DEF Messages, Usage
      <3> QED
        BY <3>1 DEF HoldsTurns, RetainObserved, RetainedKeys
    <2>2. all \in Messages /\ RetainedKeys(Content(q), cached) \in SUBSET Key
      BY <1>9, RetainType
    <2>3. CASE all = NoMessages
      BY <1>7, <1>10, <2>3 DEF ParseClaude
    <2>4. CASE all # NoMessages
      BY <1>8, <1>9, <1>10, <2>1, <2>2, <2>4 DEF ParseClaude
    <2> QED
      BY <2>3, <2>4
  <1>11. ASSUME NEW p \in Proc, NEW q \in Path, ParseClaudeFails(p, q) PROVE TurnInv'
    BY <1>7, <1>11 DEF ParseClaudeFails
  <1>12. ASSUME NEW p \in Proc, NEW q \in Path, ParseCheckFirst(p, q) PROVE TurnInv'
    <2>1. q \notin RetainedPath
      BY <1>12 DEF ParseCheckFirst, RetainedPath, Retains
    <2> QED
      BY <1>7, <1>8, <1>9, <1>12, <2>1 DEF ParseCheckFirst
  <1>13. ASSUME NEW p \in Proc, NEW q \in Path, ParseNotCacheable(p, q) PROVE TurnInv'
    <2>1. q \notin RetainedPath
      BY <1>13 DEF ParseNotCacheable, RetainedPath, Retains
    <2> QED
      BY <1>13, <2>1, LaneTurns DEF ParseNotCacheable, ParseDone
  <1>14. ASSUME NEW p \in Proc, NEW q \in Path, StampAfterParse(p, q) PROVE TurnInv'
    <2>1. q \notin RetainedPath
      BY <1>14 DEF StampAfterParse, StampingLane, RetainedPath, Retains, ParsesFirst
    <2> QED
      BY <1>7, <1>8, <1>9, <1>14, <2>1 DEF StampAfterParse
  <1>15. ASSUME NEW p \in Proc, FinishScan(p) PROVE TurnInv'
    <2>1. /\ pc[p] = "scan" /\ pc'[p] = "unsaved" /\ OneWriter' /\ ScanTurns(p)
          /\ RetainedPath' = RetainedPath
      BY <1>15 DEF FinishScan, TypeOK, TurnInv, OneWriter, RetainedPath, Retains
    <2>2. \A q \in Path : Retains(q) \/ q \in dirty_keys[p] => entries'[p][q] = entries[p][q]
      BY <1>15 DEF FinishScan, TypeOK
    <2>3. \A q \in RetainedPath : entries'[p][q] = entries[p][q]
      BY <2>2 DEF RetainedPath
    <2>4. \A q \in dirty_keys[p] : entries'[p][q] = entries[p][q]
      BY <2>2 DEF TypeOK
    <2>5. ScanTurns(p)'
      BY <1>15, <2>1, <2>3, <2>4
      DEF FinishScan, ScanTurns, LoadedTurns, MergedTurns, Migrates, HoldsTurns
    <2> QED
      BY <1>15, <2>1, <2>5, PrivateTurns DEF FinishScan, TypeOK
  <1>16. ASSUME NEW p \in Proc, LockExclusive(p) PROVE TurnInv'
    <2>1. /\ pc[p] = "unsaved" /\ pc'[p] = "save" /\ OneWriter' /\ ScanTurns(p)
          /\ RetainedPath' = RetainedPath
      BY <1>16 DEF LockExclusive, TypeOK, TurnInv, OneWriter, RetainedPath, Retains
    <2>2. ScanTurns(p)'
      BY <1>16, <2>1 DEF LockExclusive, ScanTurns, LoadedTurns, MergedTurns, Migrates, HoldsTurns
    <2> QED
      BY <1>16, <2>1, <2>2, PrivateTurns DEF LockExclusive, TypeOK
  <1>17. ASSUME NEW p \in Proc, WriteShardFails(p) PROVE TurnInv'
    <2>1. /\ pc[p] = "write" /\ pc'[p] = "save" /\ OneWriter' /\ ScanTurns(p)
          /\ RetainedPath' = RetainedPath
      BY <1>17 DEF WriteShardFails, ShardDone, TypeOK, TurnInv, OneWriter, RetainedPath, Retains
    <2>2. ScanTurns(p)'
      BY <1>17, <2>1
      DEF WriteShardFails, ShardDone, ScanTurns, LoadedTurns, MergedTurns, Migrates, HoldsTurns
    <2> QED
      BY <1>17, <2>1, <2>2, PrivateTurns DEF WriteShardFails, ShardDone, TypeOK
  <1>18. ASSUME NEW p \in Proc,
                FinishCleanScan(p) \/ SaveUnavailable(p) \/ SaveDone(p) \/ Crash(p)
         PROVE  TurnInv'
    BY <1>18, DropTurns DEF FinishCleanScan, SaveUnavailable, SaveDone, Crash
  <1>19. ASSUME UNCHANGED vars PROVE TurnInv'
    BY <1>19 DEF vars, TurnInv, OneWriter, AbsenceRecorded, VersionsOrdered, ScanTurns,
       LoadedTurns, MergedTurns, Migrates, HoldsTurns, RetainedPath
  <1> QED
    BY <1>1, <1>2, <1>3, <1>4, <1>5, <1>6, <1>10, <1>11, <1>12, <1>13, <1>14, <1>15, <1>16,
       <1>17, <1>18, <1>19, MergeTurns, WriteTurns
    DEF Next, ScanAction, LaneAction, SaveAction

\* A turn that is stored stays so, or the path has been absent.
LEMMA StepKeepsTurns ==
    ASSUME TypeOK, TurnInv, [Next]_vars, NEW q \in RetainedPath, NEW k \in StableKey,
           stored[q].messages[k] > 0, stored[q].version >= OldestMigratable
    PROVE  stored'[q].messages[k] > 0 \/ q \in everVanished
  <1>1. q \in Path
    BY DEF RetainedPath
  <1>2. ASSUME NEW p \in Proc, WriteShard(p), q \notin everVanished
        PROVE  stored'[q].messages[k] > 0
    <2>1. CASE ShardOf[q] \in writing[p]
      <3>1. stored'[q] = merged[p][q] /\ pc[p] = "write"
        BY <1>1, <1>2, <2>1 DEF WriteShard
      <3>2. OldestMigratable <= stored[q].version
        <4>1. stored[q].version \in Int /\ OldestMigratable \in Int
          BY <1>1, CacheConstantsAssumption DEF TypeOK, CachedSourceEntry, Version
        <4> QED
          BY <4>1
      <3>3. MergedTurns(p, q)
        BY DEF TurnInv, ScanTurns
      <3> QED
        BY <1>2, <2>1, <3>1, <3>2, <3>3 DEF MergedTurns, HoldsTurns
    <2>2. CASE ShardOf[q] \notin writing[p]
      BY <1>1, <1>2, <2>2 DEF WriteShard
    <2> QED
      BY <2>1, <2>2
  <1> QED
    BY <1>2, OnlyWritesStore

\* No turn is lost to a new parser version (NoTurnLost): what a build installed
\* while no scan runs re-parses and saves still holds every turn an older build
\* recorded, as long as the cache can be read and the transcript stayed.
THEOREM TurnsSurviveUpgrades ==
    ASSUME CleanMigration
    PROVE  Spec => NoTurnLost
  <1>1. TypeOK /\ StampingLane /\ TurnInv /\ [Next]_vars => TurnInv'
    BY NextTurns
  <1>2. TypeOK /\ TurnInv /\ [Next]_vars =>
          [\A q \in RetainedPath, k \in StableKey :
             stored[q].messages[k] > 0 /\ stored[q].version >= OldestMigratable =>
                 stored'[q].messages[k] > 0 \/ q \in everVanished]_vars
    BY StepKeepsTurns
  <1>3. Init => StampingLane
    BY DEF Init, StampingLane
  <1> QED
    BY <1>1, <1>2, <1>3, NextStamping, InitTurns, TypeCorrect, PTL DEF Spec, NoTurnLost

-------------------------------------------------------------------------------
(***************************************************************************)
(* What a cached entry says of the file it stands for, and what a save     *)
(* does with what its process learnt.                                      *)
(*                                                                         *)
(* For any number of builds, under every fault: the labels, figures and    *)
(* stamp of an entry agree with the generations of its file, wherever the  *)
(* entry is (stored, loaded by a process, or merged by a save), and dirty  *)
(* keys keep their entries.  For one installed build whose saves can read  *)
(* their shards: invalidations drop only what they were decided on, and    *)
(* Claude's shards implement ObservedHistory.                              *)
(***************************************************************************)
\* Every figure is one that the file has shown.
Shown(q, e) ==
    \A k \in Key : e.messages[k] = 0 \/ \E g \in 1..gen[q] : e.messages[k] = transcript[q][g][k]

\* A turn that is not labelled retained was in the file since the stamp.
Earned(q, e) ==
    \A k \in Key : e.messages[k] > 0 /\ k \notin e.retained_keys =>
        \E g \in 1..gen[q] : e.fingerprint <= g /\ transcript[q][g][k] > 0

\* A current stamp promises every turn of the file, labelled live.
Complete(q, e) ==
    e.fingerprint = gen[q] => \A k \in Key : Content(q)[k] > 0 =>
        e.messages[k] >= Content(q)[k] /\ k \notin e.retained_keys

\* The messages are those of one generation, on the side of the stamp that the
\* order of parse and fingerprint allows.
OfOneGeneration(q, e) ==
    \E g \in 1..gen[q] :
        /\ e.messages = transcript[q][g]
        /\ IF ParsesFirst(q) THEN g <= e.fingerprint ELSE e.fingerprint <= g

Sound(q, e) ==
    /\ e.fingerprint <= gen[q]
    /\ Retains(q) => Shown(q, e) /\ Earned(q, e) /\ Complete(q, e)
    /\ ~Retains(q) /\ e # NoEntry => e.retained_keys = {} /\ OfOneGeneration(q, e)

StampsSound ==
    /\ \A q \in Path : Sound(q, stored[q])
    /\ \A p \in Proc, q \in Path : Sound(q, entries[p][q])
    /\ \A p \in Proc, q \in Path : Sound(q, merged[p][q])

\* What a lane holds between its steps: a stamp that is not from the future,
\* and messages the file held.
LanesSound ==
    \A p \in Proc, q \in Path :
        /\ fp[p][q] <= gen[q]
        /\ stage[p][q] = "stamping" =>
             ParsesFirst(q) /\ \E g \in 1..gen[q] : parsed[p][q] = transcript[q][g]

StampInv == StampsSound /\ LanesSound
-------------------------------------------------------------------------------
(***************************************************************************)
(* Each way an entry comes about.                                          *)
(***************************************************************************)
LEMMA GenerationType ==
    ASSUME TypeOK, NEW q \in Path
    PROVE  /\ gen[q] \in Nat /\ gen[q] >= 1 /\ gen[q] \in Gen
           /\ \A g \in Gen : transcript[q][g] \in Messages
  BY BoundsAssumption DEF TypeOK, Gen

\* No entry says nothing wrong.
LEMMA NoEntrySound ==
    ASSUME TypeOK, NEW q \in Path
    PROVE  Sound(q, NoEntry)
  BY GenerationType DEF Sound, Shown, Earned, Complete, NoEntry, NoMessages

\* What is read back is what is stored, or nothing.
LEMMA ReadSound ==
    ASSUME TypeOK, StampsSound, NEW q \in Path, NEW current, NEW readable
    PROVE  Sound(q, ReadEntry(q, current, readable))
  BY NoEntrySound DEF ReadEntry, StampsSound

\* A Claude parse joined with the observed history.
LEMMA ParsedClaudeSound ==
    ASSUME TypeOK, StampInv, NEW p \in Proc, NEW q \in Path, Retains(q)
    PROVE  LET cached == entries[p][q].messages
           IN  Sound(q, FreshEntry(p, fp[p][q], RetainObserved(Content(q), cached),
                                   RetainedKeys(Content(q), cached)))
  <1> DEFINE cached == entries[p][q].messages
             e == FreshEntry(p, fp[p][q], RetainObserved(Content(q), cached),
                             RetainedKeys(Content(q), cached))
  <1> HIDE DEF cached
  <1>1. /\ e.fingerprint = fp[p][q] /\ fp[p][q] <= gen[q] /\ fp[p][q] \in Nat /\ gen[q] \in Nat
        /\ e.retained_keys = RetainedKeys(Content(q), cached)
    BY GenerationType, BoundsAssumption DEF FreshEntry, StampInv, LanesSound, TypeOK, Gen
  <1>2. \A k \in Key : k \notin e.retained_keys => e.messages[k] = Content(q)[k]
    BY DEF FreshEntry, RetainObserved
  <1>3. \A k \in Key : Content(q)[k] > 0 => k \notin e.retained_keys
    BY <1>1 DEF RetainedKeys
  <1>4. \A k \in Key : Content(q)[k] \in Nat
    BY ContentType, BoundsAssumption DEF Messages, Usage
  <1>5. Earned(q, e)
    BY <1>1, <1>2, GenerationType DEF Earned, Content
  <1>6. Complete(q, e)
    BY <1>2, <1>3, <1>4 DEF Complete
  <1>7. Shown(q, e)
    <2>1. \A k \in Key : e.messages[k] \in {Content(q)[k], cached[k]}
      BY DEF FreshEntry, RetainObserved
    <2>2. \A k \in Key : cached[k] = 0 \/ \E g \in 1..gen[q] : cached[k] = transcript[q][g][k]
      BY DEF StampInv, StampsSound, Sound, Shown, cached
    <2>3. gen[q] \in 1..gen[q] /\ Content(q) = transcript[q][gen[q]]
      BY GenerationType DEF Content
    <2> HIDE DEF e
    <2> QED
      BY <2>1, <2>2, <2>3 DEF Shown
  <1>8. Sound(q, e)
    <2> HIDE DEF e
    <2> QED
      BY <1>1, <1>5, <1>6, <1>7 DEF Sound
  <1> QED
    BY <1>8 DEF cached

\* A parse of a lane without history that takes its stamp first.
LEMMA CheckedFirstSound ==
    ASSUME TypeOK, LanesSound, NEW p \in Proc, NEW q \in Path, Lane[q] = "check_first"
    PROVE  Sound(q, FreshEntry(p, fp[p][q], Content(q), {}))
  BY GenerationType, BoundsAssumption
  DEF FreshEntry, LanesSound, TypeOK, Gen, Sound, OfOneGeneration, Content, Retains, ParsesFirst

\* A parse that is stamped afterwards.
LEMMA StampedAfterSound ==
    ASSUME TypeOK, LanesSound, NEW p \in Proc, NEW q \in Path, stage[p][q] = "stamping"
    PROVE  Sound(q, FreshEntry(p, gen[q], parsed[p][q], {}))
  <1>1. ParsesFirst(q) /\ ~Retains(q)
    BY DEF LanesSound, ParsesFirst, Retains
  <1>2. PICK g \in 1..gen[q] : parsed[p][q] = transcript[q][g]
    BY DEF LanesSound
  <1> QED
    BY <1>1, <1>2, GenerationType DEF FreshEntry, Sound, OfOneGeneration

\* The merge of a save blends two sound entries into a sound one.
LEMMA AbsorbSound ==
    ASSUME TypeOK, NEW q \in Path, Retains(q),
           NEW entry \in CachedSourceEntry, NEW store \in CachedSourceEntry,
           Sound(q, entry), Sound(q, store)
    PROVE  Sound(q, AbsorbRetainedHistory(entry, store))
  <1> DEFINE e == AbsorbRetainedHistory(entry, store)
  <1>1. CASE store.version # entry.version
    BY <1>1 DEF AbsorbRetainedHistory
  <1>2. CASE store.version = entry.version
    <2>1. /\ e.messages = AbsorbedMessages(entry, store)
          /\ e.retained_keys = AbsorbedLabels(entry, store)
          /\ e.fingerprint = entry.fingerprint
      BY <1>2 DEF AbsorbRetainedHistory, CachedSourceEntry
    <2>2. \A k \in Key : entry.messages[k] \in Nat /\ store.messages[k] \in Nat
      BY BoundsAssumption DEF CachedSourceEntry, Messages, Usage
    <2>3. \A k \in Key : /\ e.messages[k] \in {entry.messages[k], store.messages[k]}
                        /\ e.messages[k] >= entry.messages[k]
      <3> SUFFICES ASSUME NEW k \in Key
                   PROVE  /\ AbsorbedMessages(entry, store)[k]
                                \in {entry.messages[k], store.messages[k]}
                          /\ AbsorbedMessages(entry, store)[k] >= entry.messages[k]
        BY <2>1
      <3>1. entry.messages[k] \in Nat /\ store.messages[k] \in Nat
        BY <2>2
      <3> QED
        BY <3>1 DEF AbsorbedMessages, LargerUsage
    <2>4. Earned(q, e)
      <3> SUFFICES ASSUME NEW k \in Key, e.messages[k] > 0, k \notin e.retained_keys
                   PROVE  \E g \in 1..gen[q] : entry.fingerprint <= g /\ transcript[q][g][k] > 0
        BY <2>1 DEF Earned
      <3>1. CASE entry.messages[k] > 0 /\ k \notin entry.retained_keys
        BY <3>1 DEF Sound, Earned
      <3>2. CASE entry.messages[k] > 0 /\ k \in entry.retained_keys
        <4>1. store.messages[k] > 0 /\ k \notin store.retained_keys
                /\ entry.fingerprint = store.fingerprint
          BY <2>1, <3>2 DEF AbsorbedLabels
        <4> QED
          BY <4>1 DEF Sound, Earned
      <3>3. CASE entry.messages[k] = 0
        <4>1. k \in StableKey /\ store.messages[k] > 0
          BY <2>1, <2>2, <3>3 DEF AbsorbedMessages, LargerUsage
        <4>2. k \notin store.retained_keys /\ entry.fingerprint = store.fingerprint
          BY <2>1, <3>3, <4>1 DEF AbsorbedLabels
        <4> QED
          BY <4>1, <4>2 DEF Sound, Earned
      <3> QED
        BY <2>2, <3>1, <3>2, <3>3
    <2>5. Complete(q, e)
      <3> SUFFICES ASSUME NEW k \in Key, entry.fingerprint = gen[q], Content(q)[k] > 0
                   PROVE  e.messages[k] >= Content(q)[k] /\ k \notin e.retained_keys
        BY <2>1 DEF Complete
      <3>1. Content(q)[k] \in Nat
        BY ContentType, BoundsAssumption DEF Messages, Usage
      <3>2. entry.messages[k] >= Content(q)[k] /\ k \notin entry.retained_keys
        BY DEF Sound, Complete
      <3>3. k \notin e.retained_keys
        BY <2>1, <2>2, <3>1, <3>2 DEF AbsorbedLabels
      <3>4. e.messages[k] \in Nat
        BY <2>2, <2>3
      <3> QED
        BY <2>2, <2>3, <3>1, <3>2, <3>3, <3>4
    <2>6. Shown(q, e)
      BY <2>3 DEF Sound, Shown
    <2>7. Sound(q, e)
      <3> HIDE DEF e
      <3> QED
        BY <2>1, <2>4, <2>5, <2>6 DEF Sound
    <2> QED
      BY <2>7
  <1> QED
    BY <1>1, <1>2

\* What a save puts together is as sound as what it is made of.
LEMMA SavedSound ==
    ASSUME TypeOK, StampsSound, NEW p \in Proc, NEW q \in Path,
           NEW store \in CachedSourceEntry, Sound(q, store)
    PROVE  Sound(q, SavedEntry(p, q, store))
  <1>1. entries[p][q] \in CachedSourceEntry /\ Sound(q, entries[p][q])
    BY DEF TypeOK, StampsSound
  <1>2. NoEntry \in CachedSourceEntry /\ Sound(q, NoEntry)
    BY EntryTypes, NoEntrySound
  <1>3. CASE Retains(q)
    BY <1>1, <1>2, <1>3, AbsorbSound DEF SavedEntry
  <1>4. CASE ~Retains(q)
    BY <1>1, <1>2, <1>4 DEF SavedEntry
  <1> QED
    BY <1>3, <1>4
-------------------------------------------------------------------------------
(***************************************************************************)
(* The invariant.                                                          *)
(***************************************************************************)
\* Most steps leave the files alone, and copy or make sound entries.
LEMMA FilesUnchanged ==
    ASSUME TypeOK, StampInv, UNCHANGED <<transcript, gen>>,
           \A x \in Path : Sound(x, stored'[x]),
           \A r \in Proc, x \in Path : Sound(x, entries'[r][x]) /\ Sound(x, merged'[r][x]),
           \A r \in Proc, x \in Path :
               /\ fp'[r][x] \in {0, fp[r][x], gen[x]}
               /\ stage'[r][x] = "stamping" =>
                    \/ stage[r][x] = "stamping" /\ parsed'[r][x] = parsed[r][x]
                    \/ ParsesFirst(x) /\ parsed'[r][x] = Content(x)
    PROVE  StampInv'
  <1>1. StampsSound'
    BY DEF StampsSound, Sound, Shown, Earned, Complete, OfOneGeneration, Content
  <1>2. LanesSound'
    BY GenerationType DEF StampInv, LanesSound, Content
  <1> QED
    BY <1>1, <1>2 DEF StampInv

\* A rewrite only adds a generation ...
LEMMA RewriteKeepsGenerations ==
    ASSUME TypeOK, NEW q \in Path, WriteSource(q), NEW x \in Path
    PROVE  /\ gen[x] \in Nat /\ gen[x] >= 1 /\ gen'[x] \in {gen[x], gen[x] + 1}
           /\ gen'[x] \in Nat /\ gen[x] <= gen'[x]
           /\ \A g \in 1..gen[x] : transcript'[x][g] = transcript[x][g]
  <1>1. gen[x] \in Nat /\ gen[x] >= 1
    BY GenerationType
  <1>2. CASE x = q
    <2>1. gen'[x] = gen[x] + 1
      BY <1>2 DEF WriteSource, TypeOK
    <2>2. PICK messages \in Messages :
            transcript' = [transcript EXCEPT ![q] = [@ EXCEPT ![gen[q] + 1] = messages]]
      BY DEF WriteSource
    <2>3. ASSUME NEW g \in 1..gen[x] PROVE transcript'[x][g] = transcript[x][g]
      <3>1. g # gen[q] + 1 /\ g \in Gen
        BY <1>1, <1>2, GenerationType, BoundsAssumption DEF Gen
      <3> QED
        BY <1>2, <2>2, <3>1 DEF TypeOK
    <2> QED
      BY <1>1, <2>1, <2>3
  <1>3. CASE x # q
    BY <1>1, <1>3 DEF WriteSource, TypeOK
  <1> QED
    BY <1>2, <1>3

\* ... under which no earlier stamp is current.
LEMMA RewriteSound ==
    ASSUME TypeOK, NEW q \in Path, WriteSource(q), NEW x \in Path, NEW e \in CachedSourceEntry,
           Sound(x, e)
    PROVE  Sound(x, e)'
  <1> DEFINE old == 1..gen[x]
  <1>1. /\ gen[x] \in Nat /\ gen[x] >= 1 /\ gen'[x] \in {gen[x], gen[x] + 1}
        /\ \A g \in old : transcript'[x][g] = transcript[x][g]
    BY RewriteKeepsGenerations
  <1>2. old \subseteq 1..gen'[x]
    BY <1>1
  <1>3. e.fingerprint \in Nat /\ e.fingerprint <= gen[x]
    BY BoundsAssumption DEF CachedSourceEntry, Gen, Sound
  <1>4. e.fingerprint <= gen'[x]
    BY <1>1, <1>3
  <1>5. Retains(x) => Earned(x, e)'
    <2> SUFFICES ASSUME Retains(x), NEW k \in Key, e.messages[k] > 0, k \notin e.retained_keys
                 PROVE  \E g \in 1..gen'[x] : e.fingerprint <= g /\ transcript'[x][g][k] > 0
      BY DEF Earned
    <2>1. PICK g \in old : e.fingerprint <= g /\ transcript[x][g][k] > 0
      BY DEF Sound, Earned
    <2> QED
      BY <1>1, <1>2, <2>1
  <1>6. Retains(x) => Complete(x, e)'
    <2> SUFFICES ASSUME Retains(x), e.fingerprint = gen'[x]
                 PROVE  Complete(x, e)'
      BY DEF Complete
    <2>1. gen'[x] = gen[x]
      BY <1>1, <1>3
    <2> QED
      BY <1>1, <2>1 DEF Sound, Complete, Content
  <1>7. ~Retains(x) /\ e # NoEntry => e.retained_keys = {} /\ OfOneGeneration(x, e)'
    <2> SUFFICES ASSUME ~Retains(x), e # NoEntry
                 PROVE  e.retained_keys = {} /\ OfOneGeneration(x, e)'
      OBVIOUS
    <2>1. PICK g \in old : /\ e.messages = transcript[x][g]
                           /\ IF ParsesFirst(x) THEN g <= e.fingerprint ELSE e.fingerprint <= g
      BY DEF Sound, OfOneGeneration
    <2>2. OfOneGeneration(x, e)'
      BY <1>1, <1>2, <2>1 DEF OfOneGeneration, ParsesFirst
    <2> QED
      BY <2>2 DEF Sound
  <1>8. Retains(x) => Shown(x, e)'
    BY <1>1, <1>2 DEF Sound, Shown
  <1> HIDE DEF old
  <1> QED
    BY <1>4, <1>5, <1>6, <1>7, <1>8 DEF Sound, Retains

\* Initially there is no entry anywhere.
LEMMA InitStamps == Init => StampInv
  <1> SUFFICES ASSUME Init PROVE StampInv
    OBVIOUS
  <1>1. TypeOK
    BY InitType
  <1>2. StampsSound
    BY <1>1, NoEntrySound DEF Init, StampsSound
  <1>3. LanesSound
    BY DEF Init, LanesSound
  <1> QED
    BY <1>2, <1>3 DEF StampInv

\* A scan that ends only drops entries.
LEMMA DropStamps ==
    ASSUME TypeOK, StampInv, NEW p \in Proc, Drop(p), UNCHANGED <<sources, stored>>
    PROVE  StampInv'
  <1>1. \A r \in Proc, x \in Path : /\ entries'[r][x] \in {entries[r][x], NoEntry}
                                   /\ merged'[r][x] \in {merged[r][x], NoEntry}
    BY DEF Drop, TypeOK
  <1>2. \A r \in Proc, x \in Path :
          /\ fp'[r][x] \in {0, fp[r][x]}
          /\ stage'[r][x] = "stamping" =>
               stage[r][x] = "stamping" /\ parsed'[r][x] = parsed[r][x]
    BY DEF Drop, TypeOK
  <1> QED
    BY <1>1, <1>2, NoEntrySound, FilesUnchanged DEF StampInv, StampsSound, sources

\* The end of a parse: the entry of one path is replaced by a sound one, or kept.
LEMMA ParsedStamps ==
    ASSUME TypeOK, StampInv, NEW p \in Proc, NEW q \in Path, ParseDone(p, q),
           \/ UNCHANGED entries
           \/ \E e \in CachedSourceEntry :
                Sound(q, e) /\ entries' = [entries EXCEPT ![p] = [@ EXCEPT ![q] = e]]
    PROVE  StampInv'
  <1>1. ASSUME NEW r \in Proc, NEW x \in Path PROVE Sound(x, entries'[r][x])
    <2>1. Sound(x, entries[r][x])
      BY DEF StampInv, StampsSound
    <2>2. CASE UNCHANGED entries
      BY <2>1, <2>2
    <2>3. ASSUME NEW e \in CachedSourceEntry, Sound(q, e),
                 entries' = [entries EXCEPT ![p] = [@ EXCEPT ![q] = e]]
          PROVE  Sound(x, entries'[r][x])
      <3>1. CASE r = p /\ x = q
        BY <2>3, <3>1 DEF TypeOK
      <3>2. CASE ~(r = p /\ x = q)
        <4>1. entries'[r][x] = entries[r][x]
          BY <2>3, <3>2 DEF TypeOK
        <4> QED
          BY <2>1, <4>1
      <3> QED
        BY <3>1, <3>2
    <2> QED
      BY <2>2, <2>3
  <1>2. \A r \in Proc, x \in Path :
          /\ fp'[r][x] \in {0, fp[r][x]}
          /\ stage'[r][x] = "stamping" =>
               stage[r][x] = "stamping" /\ parsed'[r][x] = parsed[r][x]
    BY DEF ParseDone, SetStage, TypeOK
  <1>3. UNCHANGED <<transcript, gen, stored, merged>>
    BY DEF ParseDone, sources, cacheDir, saveVars
  <1> QED
    BY <1>1, <1>2, <1>3, FilesUnchanged DEF StampInv, StampsSound

\* Every step keeps every entry sound, wherever it is.
LEMMA NextStamps ==
    ASSUME TypeOK, StampInv, [Next]_vars
    PROVE  StampInv'
  <1> USE DEF sources, cacheDir, laneVars, saveVars, bookkeeping
  <1>1. ASSUME NEW q \in Path, WriteSource(q) PROVE StampInv'
    <2>1. StampsSound'
      <3>1. UNCHANGED <<stored, entries, merged>>
        BY <1>1 DEF WriteSource
      <3>2. \A r \in Proc, x \in Path :
              {stored[x], entries[r][x], merged[r][x]} \subseteq CachedSourceEntry
        BY DEF TypeOK
      <3>3. \A x \in Path : stored[x] \in CachedSourceEntry
        BY DEF TypeOK
      <3> QED
        BY <1>1, <3>1, <3>2, <3>3, RewriteSound DEF StampInv, StampsSound
    <2>2. LanesSound'
      <3> SUFFICES ASSUME NEW r \in Proc, NEW x \in Path
                   PROVE  /\ fp[r][x] <= gen'[x]
                          /\ stage[r][x] = "stamping" =>
                               ParsesFirst(x) /\ \E g \in 1..gen'[x] : parsed[r][x] = transcript'[x][g]
        BY <1>1 DEF WriteSource, LanesSound, ParsesFirst
      <3>1. /\ gen[x] \in Nat /\ gen'[x] \in Nat /\ gen[x] <= gen'[x]
            /\ \A g \in 1..gen[x] : transcript'[x][g] = transcript[x][g]
        BY <1>1, RewriteKeepsGenerations
      <3>2. fp[r][x] \in Nat /\ fp[r][x] <= gen[x]
        BY BoundsAssumption DEF TypeOK, Gen, StampInv, LanesSound
      <3> QED
        BY <3>1, <3>2 DEF StampInv, LanesSound
    <2> QED
      BY <2>1, <2>2 DEF StampInv
  <1>2. ASSUME NEW q \in Path, DeleteSource(q) PROVE StampInv'
    BY <1>2, FilesUnchanged DEF DeleteSource, StampInv, StampsSound
  <1>3. ASSUME Upgrade PROVE StampInv'
    BY <1>3, FilesUnchanged DEF Upgrade, StampInv, StampsSound
  <1>4. ASSUME NEW p \in Proc, Load(p) PROVE StampInv'
    <2>1. \A r \in Proc, x \in Path : entries'[r][x] \in {entries[r][x], stored[x], NoEntry}
      BY <1>4 DEF Load, ReadEntry, TypeOK
    <2>2. \A r \in Proc, x \in Path : stage'[r][x] = "stamping" => stage[r][x] = "stamping"
      BY <1>4 DEF Load, List, TypeOK
    <2> QED
      BY <1>4, <2>1, <2>2, NoEntrySound, FilesUnchanged DEF Load, StampInv, StampsSound
  <1>5. ASSUME NEW p \in Proc, LoadFails(p) PROVE StampInv'
    <2>1. \A r \in Proc, x \in Path : stage'[r][x] = "stamping" => stage[r][x] = "stamping"
      BY <1>5 DEF LoadFails, List, TypeOK
    <2> QED
      BY <1>5, <2>1, FilesUnchanged DEF LoadFails, StampInv, StampsSound
  <1>6. ASSUME NEW p \in Proc, PruneMissingFiles(p) PROVE StampInv'
    <2>1. \A r \in Proc, x \in Path : entries'[r][x] \in {entries[r][x], NoEntry}
      BY <1>6 DEF PruneMissingFiles, TypeOK
    <2> QED
      BY <1>6, <2>1, NoEntrySound, FilesUnchanged DEF PruneMissingFiles, StampInv, StampsSound
  <1>7. ASSUME NEW p \in Proc, NEW q \in Path, CheckFingerprint(p, q) PROVE StampInv'
    <2>1. \A r \in Proc, x \in Path : stage'[r][x] = "stamping" => stage[r][x] = "stamping"
      <3>1. PICK step \in {"none", "parsing"} : SetStage(p, q, step)
        BY <1>7 DEF CheckFingerprint
      <3> QED
        BY <3>1 DEF SetStage, TypeOK
    <2>2. PICK stamp \in {0, gen[q]} :
            fp' = fp \/ fp' = [fp EXCEPT ![p] = [@ EXCEPT ![q] = stamp]]
      <3>1. CASE ParsesFirst(q)
        BY <1>7, <3>1 DEF CheckFingerprint
      <3>2. CASE ~ParsesFirst(q)
        BY <1>7, <3>2 DEF CheckFingerprint
      <3> QED
        BY <3>1, <3>2
    <2>3. ASSUME NEW r \in Proc, NEW x \in Path PROVE fp'[r][x] \in {0, fp[r][x], gen[x]}
      <3>1. CASE fp' = fp
        BY <3>1
      <3>2. CASE fp' = [fp EXCEPT ![p] = [@ EXCEPT ![q] = stamp]]
        <4>1. fp[p] \in [Path -> Gen \cup {0}] /\ fp \in [Proc -> [Path -> Gen \cup {0}]]
          BY DEF TypeOK
        <4>2. fp'[r][x] = IF r = p /\ x = q THEN stamp ELSE fp[r][x]
          BY <3>2, <4>1
        <4> QED
          BY <4>2
      <3> QED
        BY <2>2, <3>1, <3>2
    <2> QED
      BY <1>7, <2>1, <2>3, FilesUnchanged DEF CheckFingerprint, StampInv, StampsSound
  <1>8. ASSUME NEW p \in Proc, NEW q \in Path, ParseClaude(p, q) PROVE StampInv'
    <2>1. entries[p][q].messages \in Messages /\ Content(q) \in Messages /\ fp[p][q] \in Gen \cup {0}
      BY ContentType DEF TypeOK, CachedSourceEntry
    <2> DEFINE cached == entries[p][q].messages
               e == FreshEntry(p, fp[p][q], RetainObserved(Content(q), cached),
                               RetainedKeys(Content(q), cached))
    <2>2. e \in CachedSourceEntry
      BY <2>1, RetainType, FreshEntryType
    <2>3. Sound(q, e)
      BY <1>8, ParsedClaudeSound DEF ParseClaude, Retains
    <2>4. ParseDone(p, q) /\ (UNCHANGED entries \/ Insert(p, q, e))
      BY <1>8 DEF ParseClaude, KeepCache
    <2> HIDE DEF e
    <2> QED
      BY <2>2, <2>3, <2>4, ParsedStamps DEF Insert
  <1>9. ASSUME NEW p \in Proc, NEW q \in Path, ParseClaudeFails(p, q) PROVE StampInv'
    BY <1>9, ParsedStamps DEF ParseClaudeFails, KeepCache
  <1>10. ASSUME NEW p \in Proc, NEW q \in Path, ParseCheckFirst(p, q) PROVE StampInv'
    <2> DEFINE e == FreshEntry(p, fp[p][q], Content(q), {})
    <2>1. e \in CachedSourceEntry
      <3>1. fp[p][q] \in Gen \cup {0} /\ Content(q) \in Messages /\ {} \in SUBSET Key
        BY ContentType DEF TypeOK
      <3> QED
        BY <3>1, FreshEntryType
    <2>2. Sound(q, e)
      BY <1>10, CheckedFirstSound DEF ParseCheckFirst, StampInv
    <2>3. ParseDone(p, q) /\ (UNCHANGED entries \/ Insert(p, q, e))
      BY <1>10 DEF ParseCheckFirst, KeepCache
    <2> HIDE DEF e
    <2> QED
      BY <2>1, <2>2, <2>3, ParsedStamps DEF Insert
  <1>11. ASSUME NEW p \in Proc, NEW q \in Path, ParseNotCacheable(p, q) PROVE StampInv'
    <2>1. ParseDone(p, q)
            /\ (UNCHANGED entries \/ entries' = [entries EXCEPT ![p] = [@ EXCEPT ![q] = NoEntry]])
      BY <1>11 DEF ParseNotCacheable, KeepCache, Remove
    <2> QED
      BY <2>1, EntryTypes, NoEntrySound, ParsedStamps
  <1>12. ASSUME NEW p \in Proc, NEW q \in Path, ParseFirst(p, q) PROVE StampInv'
    <2>1. \A r \in Proc, x \in Path :
            stage'[r][x] = "stamping" =>
                \/ stage[r][x] = "stamping" /\ parsed'[r][x] = parsed[r][x]
                \/ ParsesFirst(x) /\ parsed'[r][x] = Content(x)
      BY <1>12 DEF ParseFirst, SetStage, TypeOK
    <2> QED
      BY <1>12, <2>1, FilesUnchanged DEF ParseFirst, StampInv, StampsSound
  <1>13. ASSUME NEW p \in Proc, NEW q \in Path, StampAfterParse(p, q) PROVE StampInv'
    <2> DEFINE e == FreshEntry(p, gen[q], parsed[p][q], {})
    <2>1. e \in CachedSourceEntry
      BY FreshEntryType DEF TypeOK
    <2>2. Sound(q, e)
      BY <1>13, StampedAfterSound DEF StampAfterParse, StampInv
    <2>3. ParseDone(p, q) /\ (UNCHANGED entries \/ Insert(p, q, e))
      BY <1>13 DEF StampAfterParse, KeepCache
    <2> HIDE DEF e
    <2> QED
      BY <2>1, <2>2, <2>3, ParsedStamps DEF Insert
  <1>14. ASSUME NEW p \in Proc, FinishScan(p) PROVE StampInv'
    <2>1. \A r \in Proc, x \in Path : entries'[r][x] \in {entries[r][x], NoEntry}
      BY <1>14 DEF FinishScan, TypeOK
    <2> QED
      BY <1>14, <2>1, NoEntrySound, FilesUnchanged DEF FinishScan, StampInv, StampsSound
  <1>15. ASSUME NEW p \in Proc, LockExclusive(p) PROVE StampInv'
    BY <1>15, FilesUnchanged DEF LockExclusive, StampInv, StampsSound
  <1>16. ASSUME NEW p \in Proc, NEW s \in Shard, MergeShard(p, s) PROVE StampInv'
    <2>1. PICK bad \in Unreadable("save_read") :
            merged' = [merged EXCEPT ![p] = [q \in Path |->
                IF ShardOf[q] = s THEN SavedEntry(p, q, ReadEntry(q, build[p], Shard \ bad))
                ELSE NoEntry]]
      BY <1>16 DEF MergeShard
    <2>2. \A x \in Path : Sound(x, SavedEntry(p, x, ReadEntry(x, build[p], Shard \ bad)))
      BY ReadEntryType, ReadSound, SavedSound DEF StampInv
    <2>3. \A r \in Proc, x \in Path : Sound(x, merged'[r][x])
      BY <2>1, <2>2, NoEntrySound DEF TypeOK, StampInv, StampsSound
    <2> QED
      BY <1>16, <2>3, FilesUnchanged DEF MergeShard, StampInv, StampsSound
  <1>17. ASSUME NEW p \in Proc, WriteShard(p) PROVE StampInv'
    <2>1. \A r \in Proc, x \in Path : /\ stored'[x] \in {stored[x], merged[p][x]}
                                     /\ merged'[r][x] \in {merged[r][x], NoEntry}
      BY <1>17 DEF WriteShard, ShardDone, TypeOK
    <2> QED
      BY <1>17, <2>1, NoEntrySound, FilesUnchanged DEF WriteShard, ShardDone, StampInv, StampsSound
  <1>18. ASSUME NEW p \in Proc, WriteShardFails(p) PROVE StampInv'
    <2>1. \A r \in Proc, x \in Path : merged'[r][x] \in {merged[r][x], NoEntry}
      BY <1>18 DEF WriteShardFails, ShardDone, TypeOK
    <2> QED
      BY <1>18, <2>1, NoEntrySound, FilesUnchanged DEF WriteShardFails, ShardDone, StampInv, StampsSound
  <1>19. ASSUME NEW p \in Proc,
                FinishCleanScan(p) \/ SaveUnavailable(p) \/ SaveDone(p) \/ Crash(p)
         PROVE  StampInv'
    BY <1>19, DropStamps DEF FinishCleanScan, SaveUnavailable, SaveDone, Crash
  <1>20. ASSUME UNCHANGED vars PROVE StampInv'
    BY <1>20, FilesUnchanged DEF vars, StampInv, StampsSound
  <1> QED
    BY <1>1, <1>2, <1>3, <1>4, <1>5, <1>6, <1>7, <1>8, <1>9, <1>10, <1>11, <1>12, <1>13,
       <1>14, <1>15, <1>16, <1>17, <1>18, <1>19, <1>20
    DEF Next, ScanAction, LaneAction, SaveAction

\* StampInv always holds.
LEMMA StampInvariant == Spec => []StampInv
  <1>1. Init => StampInv
    BY InitStamps
  <1>2. TypeOK /\ StampInv /\ [Next]_vars => StampInv'
    BY NextStamps
  <1> QED
    BY <1>1, <1>2, TypeCorrect, PTL DEF Spec
-------------------------------------------------------------------------------
(***************************************************************************)
(* The properties of a stored entry.                                       *)
(***************************************************************************)
\* Whatever builds, faults and interleavings there are, a turn labelled live in
\* a stored Claude entry was in the transcript at or after the generation of the
\* entry's stamp (absorb_retained_history; LiveLabelIsEarned).
THEOREM LiveLabelsAreEarned == Spec => []LiveLabelIsEarned
  <1>1. TypeOK /\ StampInv => LiveLabelIsEarned
    <2> SUFFICES ASSUME TypeOK, StampInv, NEW q \in RetainedPath, NEW k \in Key,
                        stored[q].messages[k] > 0, k \notin stored[q].retained_keys
                 PROVE  \E g \in stored[q].fingerprint..gen[q] : transcript[q][g][k] > 0
      BY DEF LiveLabelIsEarned
    <2>1. q \in Path /\ Retains(q)
      BY DEF RetainedPath
    <2>2. PICK g \in 1..gen[q] : stored[q].fingerprint <= g /\ transcript[q][g][k] > 0
      BY <2>1 DEF StampInv, StampsSound, Sound, Earned
    <2>3. stored[q].fingerprint \in Int /\ gen[q] \in Int
      BY <2>1, GenerationType, BoundsAssumption DEF TypeOK, CachedSourceEntry, Gen
    <2>4. g \in stored[q].fingerprint..gen[q]
      BY <2>2, <2>3
    <2> QED
      BY <2>2, <2>4
  <1> QED
    BY <1>1, TypeCorrect, StampInvariant, PTL

\* In a lane without history the messages of a stored entry are those of one
\* generation, which is not older than the stamp if the lane takes its stamp
\* first and not newer if it parses first (check_first lanes against
\* simple_lane! and Gemini; StampBoundsParse).
THEOREM StampsBoundParses == Spec => []StampBoundsParse
  <1>1. StampInv => StampBoundsParse
    BY DEF StampInv, StampsSound, Sound, OfOneGeneration, StampBoundsParse, RetainedPath
  <1> QED
    BY <1>1, StampInvariant, PTL

\* Every lane takes its stamp before it parses: Claude's and the check_first
\* lanes do.  A lane that parses first can serve a stale entry, so what follows
\* is false of it.
StampsFirst == \A q \in Path : ~ParsesFirst(q)

\* In such lanes an entry that a scan takes as a hit is exactly what the file
\* holds (HitIsExact).
THEOREM HitsAreExact ==
    ASSUME StampsFirst
    PROVE  Spec => []HitIsExact
  <1>1. TypeOK /\ StampInv => HitIsExact
    <2> SUFFICES ASSUME TypeOK, StampInv, NEW q \in Path \ RetainedPath,
                        stored[q] # NoEntry, stored[q].fingerprint = gen[q]
                 PROVE  stored[q].messages = Content(q)
      BY DEF HitIsExact
    <2>1. q \in Path /\ ~Retains(q) /\ ~ParsesFirst(q)
      BY DEF RetainedPath, StampsFirst
    <2>2. PICK g \in 1..gen[q] : stored[q].messages = transcript[q][g] /\ gen[q] <= g
      BY <2>1 DEF StampInv, StampsSound, Sound, OfOneGeneration
    <2>3. g = gen[q]
      BY <2>1, <2>2, GenerationType
    <2> QED
      BY <2>2, <2>3 DEF Content
  <1> QED
    BY <1>1, TypeCorrect, StampInvariant, PTL

\* In such lanes, history or not, a hit lacks no turn of the file, understates
\* none and labels none as retained (HitIsComplete).
THEOREM HitsAreComplete ==
    ASSUME StampsFirst
    PROVE  Spec => []HitIsComplete
  <1>1. TypeOK /\ StampInv => HitIsComplete
    <2> SUFFICES ASSUME TypeOK, StampInv, NEW q \in Path,
                        stored[q] # NoEntry, stored[q].fingerprint = gen[q]
                 PROVE  Complete(q, stored[q])
      BY DEF HitIsComplete, Complete
    <2>1. CASE Retains(q)
      BY <2>1 DEF StampInv, StampsSound, Sound
    <2>2. CASE ~Retains(q)
      <3>1. stored[q].retained_keys = {}
        BY <2>2 DEF StampInv, StampsSound, Sound
      <3>2. PICK g \in 1..gen[q] : stored[q].messages = transcript[q][g] /\ gen[q] <= g
        BY <2>2 DEF StampsFirst, StampInv, StampsSound, Sound, OfOneGeneration
      <3>3. stored[q].messages = Content(q)
        BY <3>2, GenerationType DEF Content
      <3>4. \A k \in Key : Content(q)[k] \in Int
        BY ContentType, BoundsAssumption DEF Messages, Usage
      <3> QED
        BY <3>1, <3>3, <3>4 DEF Complete
    <2> QED
      BY <2>1, <2>2
  <1> QED
    BY <1>1, TypeCorrect, StampInvariant, PTL

-------------------------------------------------------------------------------
(***************************************************************************)
(* Dirty keys.                                                             *)
(***************************************************************************)
\* A scan has no dirty key before its lanes run, and a dirty key has an entry
\* some build wrote.
DirtyInv ==
    \A p \in Proc :
        /\ pc[p] \in {"idle", "prune"} => dirty_keys[p] = {}
        /\ \A q \in dirty_keys[p] :
             entries[p][q].version # 0 /\ deleted_keys[p][q] = NotDeleted

\* A scan that ends, or crashes, leaves no dirty key.
LEMMA DropDirty ==
    ASSUME TypeOK, DirtyInv, NEW p \in Proc, Drop(p)
    PROVE  DirtyInv'
  BY DEF Drop, TypeOK, DirtyInv

\* The steps of a lane, between the prune and the save.
LEMMA LaneDirty ==
    ASSUME TypeOK, DirtyInv, NEW p \in Proc, NEW q \in Path, pc[p] = "scan", UNCHANGED pc,
           \/ KeepCache
           \/ Remove(p, q)
           \/ \E e \in CachedSourceEntry : e.version # 0 /\ Insert(p, q, e)
    PROVE  DirtyInv'
  <1>1. CASE KeepCache
    BY <1>1 DEF DirtyInv, KeepCache
  <1>2. CASE Remove(p, q)
    <2>1. CASE entries[p][q] = NoEntry
      BY <1>2, <2>1 DEF DirtyInv, Remove
    <2>2. CASE entries[p][q] # NoEntry
      <3>1. /\ dirty_keys' = [dirty_keys EXCEPT ![p] = @ \ {q}]
            /\ \A r \in Proc, x \in Path : ~(r = p /\ x = q) =>
                 entries'[r][x] = entries[r][x] /\ deleted_keys'[r][x] = deleted_keys[r][x]
        BY <1>2, <2>2 DEF Remove, TypeOK
      <3> QED
        BY <3>1 DEF TypeOK, DirtyInv
    <2> QED
      BY <2>1, <2>2
  <1>3. ASSUME NEW e \in CachedSourceEntry, e.version # 0, Insert(p, q, e) PROVE DirtyInv'
    <2> SUFFICES ASSUME NEW r \in Proc, NEW x \in dirty_keys'[r]
                 PROVE  entries'[r][x].version # 0 /\ deleted_keys'[r][x] = NotDeleted
      BY <1>3 DEF TypeOK, DirtyInv, Insert
    <2>1. x \in Path /\ ((r = p /\ x = q) \/ x \in dirty_keys[r])
      BY <1>3 DEF TypeOK, Insert
    <2>2. CASE r = p /\ x = q
      BY <1>3, <2>2 DEF TypeOK, Insert
    <2>3. CASE ~(r = p /\ x = q)
      BY <1>3, <2>1, <2>3 DEF TypeOK, DirtyInv, Insert
    <2> QED
      BY <2>2, <2>3
  <1> QED
    BY <1>1, <1>2, <1>3

\* Every step keeps dirty keys and entries together.
LEMMA NextDirty ==
    ASSUME TypeOK, DirtyInv, [Next]_vars
    PROVE  DirtyInv'
  <1> USE DEF bookkeeping
  <1>1. ASSUME \/ \E q \in Path : WriteSource(q) \/ DeleteSource(q)
               \/ Upgrade \/ UNCHANGED vars
        PROVE  DirtyInv'
    BY <1>1 DEF WriteSource, DeleteSource, Upgrade, vars, DirtyInv
  <1>2. ASSUME NEW p \in Proc, Load(p) PROVE DirtyInv'
    BY <1>2 DEF Load, TypeOK, DirtyInv
  <1>3. ASSUME NEW p \in Proc, LoadFails(p) PROVE DirtyInv'
    BY <1>3 DEF LoadFails, TypeOK, DirtyInv
  <1>4. ASSUME NEW p \in Proc, PruneMissingFiles(p) PROVE DirtyInv'
    BY <1>4 DEF PruneMissingFiles, TypeOK, DirtyInv
  <1>5. ASSUME NEW p \in Proc, NEW q \in Path, LaneAction(p, q) PROVE DirtyInv'
    <2>1. pc[p] = "scan" /\ UNCHANGED pc
      BY <1>5 DEF LaneAction, CheckFingerprint, ParseClaude, ParseClaudeFails, ParseCheckFirst,
         ParseNotCacheable, ParseFirst, StampAfterParse, ParseDone
    <2>2. ASSUME NEW stamp \in Gen \cup {0}, NEW messages \in Messages, NEW retained \in SUBSET Key
          PROVE  /\ FreshEntry(p, stamp, messages, retained) \in CachedSourceEntry
                 /\ FreshEntry(p, stamp, messages, retained).version # 0
      BY FreshEntryType DEF FreshEntry, TypeOK, Version
    <2>3. /\ fp[p][q] \in Gen \cup {0} /\ gen[q] \in Gen
          /\ parsed[p][q] \in Messages /\ Content(q) \in Messages
          /\ entries[p][q].messages \in Messages
      BY ContentType DEF TypeOK, CachedSourceEntry
    <2>4. CASE ParseClaude(p, q)
      BY <2>1, <2>2, <2>3, <2>4, RetainType, LaneDirty DEF ParseClaude
    <2>5. CASE ParseCheckFirst(p, q)
      BY <2>1, <2>2, <2>3, <2>5, LaneDirty DEF ParseCheckFirst
    <2>6. CASE StampAfterParse(p, q)
      BY <2>1, <2>2, <2>3, <2>6, LaneDirty DEF StampAfterParse
    <2>7. CASE ParseNotCacheable(p, q)
      BY <2>1, <2>7, LaneDirty DEF ParseNotCacheable
    <2>8. CASE CheckFingerprint(p, q) \/ ParseClaudeFails(p, q) \/ ParseFirst(p, q)
      BY <2>1, <2>8, LaneDirty DEF CheckFingerprint, ParseClaudeFails, ParseFirst, KeepCache
    <2> QED
      BY <1>5, <2>4, <2>5, <2>6, <2>7, <2>8 DEF LaneAction
  <1>6. ASSUME NEW p \in Proc, FinishScan(p) PROVE DirtyInv'
    BY <1>6 DEF FinishScan, TypeOK, DirtyInv
  <1>7. ASSUME NEW p \in Proc,
               LockExclusive(p) \/ (\E s \in Shard : MergeShard(p, s))
                 \/ WriteShard(p) \/ WriteShardFails(p)
        PROVE  DirtyInv'
    BY <1>7 DEF LockExclusive, MergeShard, WriteShard, WriteShardFails, ShardDone, TypeOK, DirtyInv
  <1>8. ASSUME NEW p \in Proc,
               FinishCleanScan(p) \/ SaveUnavailable(p) \/ SaveDone(p) \/ Crash(p)
        PROVE  DirtyInv'
    BY <1>8, DropDirty DEF FinishCleanScan, SaveUnavailable, SaveDone, Crash
  <1> QED
    BY <1>1, <1>2, <1>3, <1>4, <1>5, <1>6, <1>7, <1>8 DEF Next, ScanAction, SaveAction

\* Between the lanes and the end of a save, whatever is released or pruned, each
\* dirty key still has the entry to write and is not also to be deleted
\* (release_clean_namespace, prune_missing_files; DirtyKeysHaveEntries).
THEOREM DirtyKeysKeepEntries == Spec => []DirtyKeysHaveEntries
  <1>1. Init => DirtyInv
    BY DEF Init, DirtyInv
  <1>2. TypeOK /\ DirtyInv /\ [Next]_vars => DirtyInv'
    BY NextDirty
  <1>3. DirtyInv => DirtyKeysHaveEntries
    BY DEF DirtyInv, DirtyKeysHaveEntries, NoEntry
  <1> QED
    BY <1>1, <1>2, <1>3, TypeCorrect, PTL DEF Spec
-------------------------------------------------------------------------------
(***************************************************************************)
(* Invalidations, with one build installed and shards a save can read.     *)
(***************************************************************************)
\* An entry that a save under way is about to drop is the one it was told to.
PendingInv ==
    \A p \in Proc, q \in Path :
        /\ pc[p] = "write" /\ ShardOf[q] \in writing[p]
        /\ stored[q] # NoEntry /\ merged[p][q] = NoEntry
        => q \in vanished \/ deleted_keys[p][q] = stored[q].fingerprint

\* A merge drops a stored entry only by a deletion that still applies.
LEMMA SavedIsPrecise ==
    ASSUME TypeOK, HistoryInv, NEW p \in Proc, NEW q \in Path,
           stored[q] # NoEntry, SavedEntry(p, q, stored[q]) = NoEntry
    PROVE  q \in vanished \/ deleted_keys[p][q] = stored[q].fingerprint
  <1>1. ASSUME ~StillDeleted(p, q, stored[q]) PROVE FALSE
    <2>1. entries[p][q] # NoEntry
      BY <1>1 DEF SavedEntry
    <2>2. entries[p][q].version # 0 /\ entries[p][q] \in CachedSourceEntry
      BY <2>1 DEF HistoryInv, CopiesWellFormed, WellFormed, TypeOK
    <2>3. SavedEntry(p, q, stored[q]) \in
            {stored[q], entries[p][q], AbsorbRetainedHistory(entries[p][q], stored[q])}
      BY <1>1 DEF SavedEntry
    <2>4. AbsorbRetainedHistory(entries[p][q], stored[q]).version = entries[p][q].version
      BY <2>2 DEF AbsorbRetainedHistory, CachedSourceEntry
    <2>5. NoEntry.version = 0
      BY DEF NoEntry
    <2> QED
      BY <2>1, <2>2, <2>3, <2>4, <2>5
  <1>2. CASE StillDeleted(p, q, stored[q])
    BY <1>2 DEF StillDeleted, HistoryInv, AbsenceKnown
  <1> QED
    BY <1>1, <1>2

\* Steps outside the merge and the write.
LEMMA PendingKept ==
    ASSUME PendingInv, UNCHANGED stored, vanished \subseteq vanished',
           \A r \in Proc : pc'[r] = "write" =>
               /\ pc[r] = "write" /\ writing'[r] = writing[r]
               /\ merged'[r] = merged[r] /\ deleted_keys'[r] = deleted_keys[r]
    PROVE  PendingInv'
  BY DEF PendingInv

\* A scan that ends leaves the deletions of the others.
LEMMA DropPending ==
    ASSUME TypeOK, PendingInv, NEW p \in Proc, Drop(p), UNCHANGED <<sources, stored>>
    PROVE  PendingInv'
  <1>1. \A r \in Proc : pc'[r] = "write" =>
          /\ pc[r] = "write" /\ writing'[r] = writing[r]
          /\ merged'[r] = merged[r] /\ deleted_keys'[r] = deleted_keys[r]
    BY DEF Drop, TypeOK
  <1> QED
    BY <1>1, PendingKept DEF sources

\* With readable shards a merge works on what is on disk.
LEMMA MergeReadsBack ==
    ASSUME OneBuild, ShardsReadable, TypeOK, HistoryInv,
           NEW p \in Proc, NEW s \in Shard, MergeShard(p, s), NEW q \in Path, ShardOf[q] = s
    PROVE  merged'[p][q] = SavedEntry(p, q, stored[q])
  <1>1. PICK bad \in Unreadable("save_read") :
          merged' = [merged EXCEPT ![p] = [x \in Path |->
              IF ShardOf[x] = s THEN SavedEntry(p, x, ReadEntry(x, build[p], Shard \ bad))
              ELSE NoEntry]]
    BY DEF MergeShard
  <1>2. bad = {} /\ Shard \ {} = Shard
    BY DEF Unreadable, ShardsReadable
  <1>3. merged'[p][q] = SavedEntry(p, q, ReadEntry(q, build[p], Shard))
    BY <1>1, <1>2 DEF TypeOK
  <1> QED
    BY <1>3, ReadBack

\* Every step keeps what a save is about to delete justified.
LEMMA NextPending ==
    ASSUME OneBuild, ShardsReadable, TypeOK, HistoryInv, PendingInv, [Next]_vars
    PROVE  PendingInv'
  <1> USE DEF sources, cacheDir, laneVars, saveVars, bookkeeping
  <1>1. ASSUME \/ \E q \in Path : WriteSource(q) \/ DeleteSource(q)
               \/ Upgrade \/ UNCHANGED vars
        PROVE  PendingInv'
    BY <1>1, PendingKept DEF WriteSource, DeleteSource, Upgrade, vars
  <1>2. ASSUME NEW p \in Proc,
               Load(p) \/ LoadFails(p) \/ PruneMissingFiles(p) \/ FinishScan(p) \/ LockExclusive(p)
        PROVE  PendingInv'
    <2>1. /\ UNCHANGED <<stored, vanished, writing, merged>>
          /\ pc[p] # "write"
          /\ \E step \in {"prune", "scan", "unsaved", "save"} : pc' = [pc EXCEPT ![p] = step]
          /\ \A r \in Proc \ {p} : deleted_keys'[r] = deleted_keys[r]
      BY <1>2 DEF Load, LoadFails, PruneMissingFiles, FinishScan, LockExclusive, TypeOK
    <2>2. \A r \in Proc : pc'[r] = "write" => pc[r] = "write" /\ r # p
      BY <2>1 DEF TypeOK
    <2> QED
      BY <2>1, <2>2, PendingKept
  <1>3. ASSUME NEW p \in Proc, NEW q \in Path, LaneAction(p, q) PROVE PendingInv'
    <2>1. pc[p] = "scan" /\ UNCHANGED <<pc, stored, vanished, writing, merged>>
      BY <1>3 DEF LaneAction, CheckFingerprint, ParseClaude, ParseClaudeFails, ParseCheckFirst,
         ParseNotCacheable, ParseFirst, StampAfterParse, ParseDone
    <2>2. \A r \in Proc \ {p} : deleted_keys'[r] = deleted_keys[r]
      BY <1>3 DEF LaneAction, CheckFingerprint, ParseClaude, ParseClaudeFails, ParseCheckFirst,
         ParseNotCacheable, ParseFirst, StampAfterParse, Insert, Remove, KeepCache, TypeOK
    <2> QED
      BY <2>1, <2>2, PendingKept
  <1>4. ASSUME NEW p \in Proc, NEW s \in Shard, MergeShard(p, s) PROVE PendingInv'
    <2> SUFFICES ASSUME NEW r \in Proc, NEW q \in Path, pc'[r] = "write", ShardOf[q] \in writing'[r],
                        stored[q] # NoEntry, merged'[r][q] = NoEntry
                 PROVE  q \in vanished \/ deleted_keys[r][q] = stored[q].fingerprint
      BY <1>4 DEF MergeShard, PendingInv
    <2>1. CASE r = p
      <3>1. ShardOf[q] = s
        BY <1>4, <2>1 DEF MergeShard, TypeOK
      <3> QED
        BY <1>4, <2>1, <3>1, MergeReadsBack, SavedIsPrecise
    <2>2. CASE r # p
      BY <1>4, <2>2 DEF MergeShard, TypeOK, PendingInv
    <2> QED
      BY <2>1, <2>2
  <1>5. ASSUME NEW p \in Proc, WriteShard(p) PROVE PendingInv'
    <2>1. \A r \in Proc : pc'[r] # "write"
      BY <1>5 DEF WriteShard, ShardDone, TypeOK, HistoryInv, OneWriter
    <2> QED
      BY <2>1 DEF PendingInv
  <1>6. ASSUME NEW p \in Proc, WriteShardFails(p) PROVE PendingInv'
    <2>1. \A r \in Proc : pc'[r] # "write"
      BY <1>6 DEF WriteShardFails, ShardDone, TypeOK, HistoryInv, OneWriter
    <2> QED
      BY <2>1 DEF PendingInv
  <1>7. ASSUME NEW p \in Proc,
               FinishCleanScan(p) \/ SaveUnavailable(p) \/ SaveDone(p) \/ Crash(p)
        PROVE  PendingInv'
    BY <1>7, DropPending DEF FinishCleanScan, SaveUnavailable, SaveDone, Crash
  <1> QED
    BY <1>1, <1>2, <1>3, <1>4, <1>5, <1>6, <1>7 DEF Next, ScanAction, SaveAction

\* An entry that leaves the store was invalidated under the fingerprint it has,
\* or its path was gone.
LEMMA StepIsPrecise ==
    ASSUME TypeOK, HistoryInv, PendingInv, [Next]_vars, NEW q \in Path,
           stored[q] # NoEntry, stored'[q] = NoEntry
    PROVE  \/ q \in vanished
           \/ \E p \in lock : deleted_keys[p][q] = stored[q].fingerprint
  <1>1. PICK p \in Proc : WriteShard(p)
    BY OnlyWritesStore
  <1>2. pc[p] = "write" /\ ShardOf[q] \in writing[p] /\ merged[p][q] = NoEntry
    BY <1>1 DEF WriteShard
  <1>3. p \in lock
    BY <1>2 DEF HistoryInv, OneWriter
  <1> QED
    BY <1>2, <1>3 DEF PendingInv

\* A save drops a stored entry only for a source that was missing, or because it
\* is the very entry its scan invalidated: never one that another process has
\* stored since (the reasons in deleted_keys; InvalidationIsPrecise).
THEOREM InvalidationsArePrecise ==
    ASSUME OneBuild, ShardsReadable
    PROVE  Spec => InvalidationIsPrecise
  <1>1. Init => PendingInv
    BY DEF Init, PendingInv
  <1>2. TypeOK /\ HistoryInv /\ PendingInv /\ [Next]_vars => PendingInv'
    BY NextPending
  <1>3. TypeOK /\ HistoryInv /\ PendingInv /\ [Next]_vars =>
          [\A q \in Path : stored[q] # NoEntry /\ stored'[q] = NoEntry =>
             \/ q \in vanished
             \/ \E p \in lock : deleted_keys[p][q] = stored[q].fingerprint]_vars
    BY StepIsPrecise
  <1> QED
    BY <1>1, <1>2, <1>3, TypeCorrect, HistoryInvariant, PTL DEF Spec, InvalidationIsPrecise
-------------------------------------------------------------------------------
(***************************************************************************)
(* The refinement: Claude's shards implement ObservedHistory, with one     *)
(* build installed and shards a save can read.                             *)
(***************************************************************************)
\* The mapping of MessageCache's instance Promise.
recorded == [q \in RetainedPath |-> [k \in StableKey |-> stored[q].messages[k]]]
observed == [q \in RetainedPath |-> [k \in StableKey |-> {transcript[q][g][k] : g \in 1..gen[q]}]]
missed == vanished \cap RetainedPath

\* The paths with a history are paths.
LEMMA RetainedIsPath ==
    ASSUME NEW q \in RetainedPath
    PROVE  q \in Path /\ Retains(q)
  BY DEF RetainedPath

\* The initial states are initial states of the promise.
LEMMA InitPromise == Init => Promise!Init
  <1> SUFFICES ASSUME Init PROVE Promise!Init
    OBVIOUS
  <1>1. TypeOK
    BY InitType
  <1>2. recorded = [q \in RetainedPath |-> [k \in StableKey |-> 0]]
    BY StableKeyAssumption, RetainedIsPath DEF Init, recorded, NoEntry, NoMessages
  <1>3. observed \in [RetainedPath -> [StableKey -> SUBSET (0..MaxUsage)]]
    <2> SUFFICES ASSUME NEW q \in RetainedPath, NEW k \in StableKey, NEW g \in 1..gen[q]
                 PROVE  transcript[q][g][k] \in 0..MaxUsage
      BY DEF observed
    <2>1. g \in Gen
      BY <1>1, RetainedIsPath, GenerationType, BoundsAssumption DEF Gen
    <2> QED
      BY <1>1, <2>1, RetainedIsPath, GenerationType, StableKeyAssumption DEF Messages, Usage
  <1>4. missed = {}
    BY DEF Init, missed
  <1> QED
    BY <1>2, <1>3, <1>4 DEF Promise!Init, recorded, observed, missed

\* A rewrite of a Claude transcript shows new figures.
LEMMA RewriteShows ==
    ASSUME TypeOK, NEW q \in RetainedPath, WriteSource(q)
    PROVE  Promise!Show(q)
  <1>1. PICK messages \in Messages :
          transcript' = [transcript EXCEPT ![q] = [@ EXCEPT ![gen[q] + 1] = messages]]
    BY DEF WriteSource
  <1> DEFINE turns == [k \in StableKey |-> messages[k]]
  <1>2. turns \in [StableKey -> 0..MaxUsage]
    BY StableKeyAssumption DEF Messages, Usage
  <1>3. ASSUME NEW x \in RetainedPath, x # q PROVE observed'[x] = observed[x]
    <2>1. transcript'[x] = transcript[x] /\ gen'[x] = gen[x]
      BY <1>3, RetainedIsPath DEF WriteSource, TypeOK
    <2> QED
      BY <2>1 DEF observed
  <1>4. observed'[q] = [k \in StableKey |-> observed[q][k] \cup {turns[k]}]
    <2> SUFFICES ASSUME NEW k \in StableKey
                 PROVE  {transcript'[q][g][k] : g \in 1..gen'[q]} =
                          {transcript[q][g][k] : g \in 1..gen[q]} \cup {messages[k]}
      BY DEF observed
    <2>1. /\ gen'[q] = gen[q] + 1 /\ gen[q] \in Nat
          /\ 1..gen'[q] = (1..gen[q]) \cup {gen'[q]}
      <3>1. gen'[q] = gen[q] + 1 /\ gen[q] \in Nat
        BY RetainedIsPath, GenerationType DEF WriteSource, TypeOK
      <3>2. \A n \in Nat : 1..(n + 1) = (1..n) \cup {n + 1}
        OBVIOUS
      <3> QED
        BY <3>1, <3>2
    <2>2. \A g \in 1..gen[q] : transcript'[q][g] = transcript[q][g]
      BY RetainedIsPath, RewriteKeepsGenerations
    <2>3. transcript'[q][gen'[q]] = messages
      <3>1. gen[q] + 1 \in Gen
        BY RetainedIsPath, GenerationType, BoundsAssumption DEF WriteSource, Gen
      <3> QED
        BY <1>1, <2>1, <3>1, RetainedIsPath DEF TypeOK
    <2> QED
      BY <2>1, <2>2, <2>3
  <1>5. observed' = [observed EXCEPT ![q] = [k \in StableKey |-> @[k] \cup {turns[k]}]]
    <2>1. observed' = [x \in RetainedPath |-> observed'[x]]
      BY DEF observed, RetainedPath
    <2> HIDE DEF turns
    <2> QED
      BY <1>3, <1>4, <2>1 DEF observed
  <1>6. recorded' = recorded /\ missed' = missed
    BY DEF WriteSource, cacheDir, recorded, missed, RetainedPath
  <1> QED
    BY <1>2, <1>5, <1>6 DEF Promise!Show, Promise!Turns, recorded, observed, missed

\* The replacement of a shard renews its records.
LEMMA WriteRecords ==
    ASSUME TypeOK, HistoryInv, StampInv, NEW p \in Proc, WriteShard(p)
    PROVE  Promise!Record
  <1>1. [Next]_vars
    BY DEF Next, SaveAction
  <1>2. ASSUME NEW q \in RetainedPath, NEW k \in StableKey
        PROVE  /\ recorded'[q][k] \in observed[q][k] \cup {0}
               /\ q \in missed \/ recorded'[q][k] >= recorded[q][k]
    <2>1. q \in Path /\ Retains(q) /\ k \in Key
      BY RetainedIsPath, StableKeyAssumption
    <2>2. recorded'[q][k] = stored'[q].messages[k] /\ recorded[q][k] = stored[q].messages[k]
      BY DEF recorded, RetainedPath
    <2>3. stored'[q] \in {stored[q], merged[p][q]}
      BY <2>1 DEF WriteShard
    <2>4. Shown(q, stored'[q])
      BY <2>1, <2>3 DEF StampInv, StampsSound, Sound
    <2>5. stored'[q].messages[k] \in observed[q][k] \cup {0}
      BY <2>1, <2>4 DEF Shown, observed
    <2>6. Covers(stored'[q].messages, stored[q].messages) \/ q \in vanished
      BY <1>1, StepKeepsHistory
    <2> QED
      BY <2>2, <2>5, <2>6 DEF Covers, missed
  <1>3. missed' \subseteq missed
    BY DEF WriteShard, HistoryInv, AbsenceKnown, missed, RetainedPath
  <1>4. observed' = observed
    BY DEF WriteShard, observed, RetainedPath
  <1> QED
    BY <1>2, <1>3, <1>4 DEF Promise!Record, recorded, observed, missed

\* A step is a step of the promise, or it changes nothing the promise sees.
LEMMA StepPromise ==
    ASSUME TypeOK, HistoryInv, StampInv, [Next]_vars
    PROVE  Promise!Next \/ UNCHANGED <<recorded, observed, missed>>
  <1>1. ASSUME NEW q \in Path, WriteSource(q), q \in RetainedPath
        PROVE  Promise!Next
    BY <1>1, RewriteShows DEF Promise!Next
  <1>2. ASSUME NEW q \in Path, WriteSource(q), q \notin RetainedPath
        PROVE  UNCHANGED <<recorded, observed, missed>>
    <2>1. \A x \in RetainedPath : transcript'[x] = transcript[x] /\ gen'[x] = gen[x]
      BY <1>2, RetainedIsPath DEF WriteSource, TypeOK
    <2>2. observed' = observed
      BY <2>1 DEF observed, RetainedPath
    <2> QED
      BY <1>2, <2>2 DEF WriteSource, cacheDir, recorded, missed, RetainedPath
  <1>3. ASSUME NEW q \in Path, DeleteSource(q)
        PROVE  Promise!Next \/ UNCHANGED <<recorded, observed, missed>>
    <2>1. UNCHANGED <<recorded, observed>>
      BY <1>3 DEF DeleteSource, cacheDir, recorded, observed, RetainedPath
    <2>2. CASE q \in RetainedPath
      <3>1. missed' = missed \cup {q}
        BY <1>3, <2>2 DEF DeleteSource, missed, RetainedPath
      <3> QED
        BY <2>1, <2>2, <3>1 DEF Promise!Next, Promise!Disappear, recorded, observed, missed
    <2>3. CASE q \notin RetainedPath
      <3>1. missed' = missed
        BY <1>3, <2>3 DEF DeleteSource, missed, RetainedPath
      <3> QED
        BY <2>1, <3>1
    <2> QED
      BY <2>2, <2>3
  <1>4. ASSUME NEW p \in Proc, WriteShard(p) PROVE Promise!Next
    BY <1>4, WriteRecords DEF Promise!Next
  <1>5. ASSUME UNCHANGED <<stored, transcript, gen, vanished>>
        PROVE  UNCHANGED <<recorded, observed, missed>>
    BY <1>5 DEF recorded, observed, missed, RetainedPath
  <1>6. \/ \E q \in Path : WriteSource(q) \/ DeleteSource(q)
        \/ \E p \in Proc : WriteShard(p)
        \/ UNCHANGED <<stored, transcript, gen, vanished>>
    BY DEF Next, ScanAction, LaneAction, SaveAction, Upgrade, Load, LoadFails, PruneMissingFiles,
       CheckFingerprint, ParseClaude, ParseClaudeFails, ParseCheckFirst, ParseNotCacheable,
       ParseFirst, StampAfterParse, ParseDone, FinishScan, FinishCleanScan, LockExclusive,
       SaveUnavailable, MergeShard, WriteShardFails, SaveDone, Crash, vars, sources, cacheDir
  <1> QED
    BY <1>1, <1>2, <1>3, <1>4, <1>5, <1>6

\* The cache implements ObservedHistory: what it stores for Claude's transcripts
\* is only ever what they have observed, and a record loses no turn and no part of
\* a figure unless its transcript has been missing (PromiseSpec).
THEOREM PromiseKept ==
    ASSUME OneBuild, ShardsReadable
    PROVE  Spec => PromiseSpec
  <1>1. Init => Promise!Init
    BY InitPromise
  <1>2. TypeOK /\ HistoryInv /\ StampInv /\ [Next]_vars =>
          Promise!Next \/ UNCHANGED <<recorded, observed, missed>>
    BY StepPromise
  <1> QED
    BY <1>1, <1>2, TypeCorrect, HistoryInvariant, StampInvariant, PTL
    DEF Spec, PromiseSpec, Promise!Spec, recorded, observed, missed
===============================================================================
