------------------------------ MODULE CacheEntry ------------------------------
(***************************************************************************)
(* What one cached source entry holds, and the two ways history enters it: *)
(* the parse-time merge (lib.rs, retain_observed_messages) and the merge   *)
(* of a save with what the shard already stores (message_cache.rs,         *)
(* absorb_retained_history).                                               *)
(*                                                                         *)
(* A message is a dedup key with a usage figure: 0 is "no such message",   *)
(* a positive figure stands for any of the counters that only grow while a *)
(* response streams (output, cache reads and writes, reasoning, duration,  *)
(* cost, the turn marker).                                                 *)
(***************************************************************************)
EXTENDS Integers

CONSTANTS
    Key,        \* dedup keys a transcript can carry
    StableKey,  \* the keys that are unique across files, not only within one
    MaxUsage,   \* bound on the usage figure of a message
    MaxVersion, \* bound on parser versions
    MaxGen      \* bound on the generations of a source file

ASSUME StableKeyAssumption == StableKey \subseteq Key
ASSUME BoundsAssumption ==
    /\ MaxUsage \in Nat \ {0}
    /\ MaxVersion \in Nat \ {0}
    /\ MaxGen \in Nat \ {0}

Usage == 0..MaxUsage
Version == 1..MaxVersion

\* The n-th content of a file is its generation n.  A fingerprint (size, times
\* and sample hashes) tells generations apart, so it is the generation number.
Gen == 1..MaxGen

Messages == [Key -> Usage]
NoMessages == [k \in Key |-> 0]

\* Version 0 is the absence of an entry.
CachedSourceEntry ==
    [version : Version \cup {0}, fingerprint : Gen \cup {0},
     messages : Messages, retained_keys : SUBSET Key]

NoEntry == [version |-> 0, fingerprint |-> 0,
            messages |-> NoMessages, retained_keys |-> {}]

\* The larger of two usage figures.
LargerUsage(a, b) == IF a >= b THEN a ELSE b

\* Every message of m is in n, with a figure at least as large.
Covers(n, m) == \A k \in StableKey : n[k] >= m[k]

-------------------------------------------------------------------------------
(***************************************************************************)
(* retain_observed_messages: a fresh parse takes the cached messages whose *)
(* stable key it did not produce; for every other key the live parse wins. *)
(***************************************************************************)
RetainedKeys(live, cached) ==
    {k \in StableKey : live[k] = 0 /\ cached[k] > 0}

RetainObserved(live, cached) ==
    [k \in Key |-> IF k \in RetainedKeys(live, cached) THEN cached[k] ELSE live[k]]

(***************************************************************************)
(* absorb_retained_history: the entry about to be written takes from the   *)
(* stored entry of its path what it lacks.  The label of a key it lacks is *)
(* trusted only under one fingerprint; a key both hold gets the larger     *)
(* figure, and is live if the stored copy is live under one fingerprint.   *)
(***************************************************************************)
\* Mutant: the two copies of a turn are added up.
AbsorbedMessages_Summed(entry, store) ==
    [k \in Key |-> IF k \in StableKey THEN entry.messages[k] + store.messages[k]
                   ELSE entry.messages[k]]

\* Mutant: the stored copy of a turn always wins.
AbsorbedMessages_StoredWins(entry, store) ==
    [k \in Key |-> IF k \in StableKey /\ store.messages[k] > 0 THEN store.messages[k]
                   ELSE entry.messages[k]]

AbsorbedMessages(entry, store) ==
    [k \in Key |-> IF k \in StableKey
                   THEN LargerUsage(entry.messages[k], store.messages[k])
                   ELSE entry.messages[k]]

\* Mutant: the stored labels are trusted under any fingerprint.
AbsorbedLabels_AnyFingerprint(entry, store) ==
    LET shared  == {k \in StableKey : store.messages[k] > 0 /\ entry.messages[k] > 0}
        missing == {k \in StableKey : store.messages[k] > 0 /\ entry.messages[k] = 0}
    IN  (entry.retained_keys \ (shared \ store.retained_keys))
            \cup (missing \cap store.retained_keys)

AbsorbedLabels(entry, store) ==
    LET sameFingerprint == entry.fingerprint = store.fingerprint
        shared  == {k \in StableKey : store.messages[k] > 0 /\ entry.messages[k] > 0}
        missing == {k \in StableKey : store.messages[k] > 0 /\ entry.messages[k] = 0}
        relabelled == {k \in shared : sameFingerprint /\ k \notin store.retained_keys}
        carried    == {k \in missing : sameFingerprint => k \in store.retained_keys}
    IN  (entry.retained_keys \ relabelled) \cup carried

\* Mutant: the entry replaces what is stored.
AbsorbRetainedHistory_LastWriterWins(entry, store) == entry

AbsorbRetainedHistory(entry, store) ==
    IF store.version # entry.version
    THEN entry
    ELSE [entry EXCEPT !.messages = AbsorbedMessages(entry, store),
                       !.retained_keys = AbsorbedLabels(entry, store)]
===============================================================================
