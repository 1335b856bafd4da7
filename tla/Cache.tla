-------------------------------- MODULE Cache --------------------------------
(***************************************************************************)
(* The block cache (src/bfffs/src/common/cache/cache.rs): a hash table     *)
(* whose entries form a list, doubly linked by keys, in order of use.      *)
(*                                                                         *)
(* A call holds the cache's mutex from beginning to end.  insert expires   *)
(* entries in a loop; the loop is modelled one iteration at a time, with   *)
(* nothing else enabled meanwhile.  A key stands for its block: a block is *)
(* never changed in place, so inserting a key twice inserts equal buffers. *)
(***************************************************************************)
EXTENDS Integers, FiniteSets, FiniteSetsExt

CONSTANTS
    Keys,           \* addresses of blocks
    BufLen,         \* length of each block
    Capacity,       \* Cache::capacity
    None            \* the absence of a key: Option::None

ASSUME CapacityAssumption == Capacity \in Nat
ASSUME LenAssumption == BufLen \in [Keys -> 1 .. Capacity]
ASSUME NoneAssumption == None \notin Keys

VARIABLES
    store,          \* Cache::store: the links of the entries that are present
    lru, mru,       \* Cache::lru and Cache::mru, the two ends of the list
    size,           \* Cache::size
    inserting,      \* the key that insert is making room for, or None
    panicked        \* an assertion has failed

vars == <<store, lru, mru, size, inserting, panicked>>

Present == DOMAIN store
Without(s, k) == [j \in DOMAIN s \ {k} |-> s[j]]
SetLru(s, k, v) == IF k = None THEN s ELSE [s EXCEPT ![k].lru = v]
SetMru(s, k, v) == IF k = None THEN s ELSE [s EXCEPT ![k].mru = v]

Idle == inserting = None /\ ~ panicked

-----------------------------------------------------------------------------
\* Mutant of Get: the least recently used entry is moved, the end is not.
GetKeepsEnd(k) ==
    /\ Idle /\ k \in Present /\ mru # k
    /\ LET v == store[k]
           s1 == [store EXCEPT ![k] = [lru |-> mru, mru |-> None]]
           s2 == SetMru(SetLru(s1, v.mru, v.lru), v.lru, v.mru)
       IN store' = SetMru(s2, mru, k)
    /\ mru' = k
    /\ UNCHANGED <<lru, size, inserting, panicked>>

\* Cache::get.  The most recently used entry stays where it is (no step); any
\* other one is taken out of the list and put at its head.
Get(k) ==
    /\ Idle /\ k \in Present /\ mru # k
    /\ LET v == store[k]
           s1 == [store EXCEPT ![k] = [lru |-> mru, mru |-> None]]
           s2 == SetMru(SetLru(s1, v.mru, v.lru), v.lru, v.mru)
       IN /\ store' = SetMru(s2, mru, k)
          /\ lru' = IF v.lru = None THEN v.mru ELSE lru
    /\ mru' = k
    /\ UNCHANGED <<size, inserting, panicked>>

\* Mutant of Unlink: the end of the list still names the removed entry.
UnlinkKeepsEnd(k) ==
    LET v == store[k]
    IN /\ store' = SetMru(SetLru(Without(store, k), v.mru, v.lru), v.lru, v.mru)
       /\ mru' = IF v.mru = None THEN v.lru ELSE mru
       /\ lru' = IF mru' = None THEN None ELSE lru
       /\ size' = size - BufLen[k]

\* Cache::remove, of a key that is present.
Unlink(k) ==
    LET v == store[k]
    IN /\ store' = SetMru(SetLru(Without(store, k), v.mru, v.lru), v.lru, v.mru)
       /\ mru' = IF v.mru = None THEN v.lru ELSE mru
       /\ lru' = IF v.lru = None THEN v.mru ELSE lru
       /\ size' = size - BufLen[k]

Remove(k) ==
    /\ Idle /\ k \in Present
    /\ Unlink(k)
    /\ UNCHANGED <<inserting, panicked>>

\* Cache::insert: expire entries until the new one fits, then add it.
InsertBegins(k) ==
    /\ Idle
    /\ inserting' = k
    /\ UNCHANGED <<store, lru, mru, size, panicked>>

\* Mutant of Full: the new block itself is not counted.
FullBefore == inserting # None /\ size > Capacity

Full == inserting # None /\ size + BufLen[inserting] > Capacity

\* Mutant of Expire: the wrong end of the list.
ExpireMru ==
    /\ Full /\ ~ panicked
    /\ IF mru = None
       THEN panicked' = TRUE /\ UNCHANGED <<store, lru, mru, size>>
       ELSE Unlink(mru) /\ UNCHANGED panicked
    /\ UNCHANGED inserting

\* Cache::expire, one iteration of insert's loop.
Expire ==
    /\ Full /\ ~ panicked
    /\ IF lru = None
       THEN panicked' = TRUE /\ UNCHANGED <<store, lru, mru, size>>
       ELSE Unlink(lru) /\ UNCHANGED panicked
    /\ UNCHANGED inserting

\* The key is there already: the old entry is put back, but the size is not.
InsertAgain ==
    /\ inserting \in Present /\ ~ Full
    /\ size' = size + BufLen[inserting]
    /\ inserting' = None
    /\ UNCHANGED <<store, lru, mru, panicked>>

InsertNew ==
    /\ inserting \in Keys \ Present /\ ~ Full
    /\ store' = [j \in Present \cup {inserting} |->
                    IF j = inserting THEN [lru |-> mru, mru |-> None]
                    ELSE IF j = mru THEN [store[j] EXCEPT !.mru = inserting]
                    ELSE store[j]]
    /\ mru' = inserting
    /\ lru' = IF lru = None THEN inserting ELSE lru
    /\ size' = size + BufLen[inserting]
    /\ inserting' = None
    /\ UNCHANGED panicked

\* Cache::drop_cache.
DropCache ==
    /\ Idle
    /\ store' = <<>>
    /\ lru' = None /\ mru' = None
    /\ size' = 0
    /\ UNCHANGED <<inserting, panicked>>

\* Cache::with_capacity.
Init ==
    /\ store = <<>>
    /\ lru = None /\ mru = None
    /\ size = 0
    /\ inserting = None
    /\ panicked = FALSE

Next ==
    \/ \E k \in Keys : Get(k) \/ Remove(k) \/ InsertBegins(k)
    \/ Expire \/ InsertAgain \/ InsertNew \/ DropCache

Spec == Init /\ [][Next]_vars

-----------------------------------------------------------------------------
(* Properties.                                                             *)

Entry == [lru : Present \cup {None}, mru : Present \cup {None}]
TypeOK ==
    /\ Present \subseteq Keys /\ store \in [Present -> Entry]
    /\ lru \in Present \cup {None} /\ mru \in Present \cup {None}
    /\ size \in Nat /\ inserting \in Keys \cup {None} /\ panicked \in BOOLEAN

-----------------------------------------------------------------------------
(* What the cache does.                                                    *)

Stored == MapThenSumSet(LAMBDA k : BufLen[k], Present)

\* insert keeps the memory of the cached blocks within the capacity, and what
\* remove subtracts never makes the unsigned size wrap: every block that is
\* present has been counted, whatever was inserted twice.
MemoryBounded == Stored <= size /\ size <= Capacity

\* The links and the two ends agree, which get, insert and remove rely on
\* (their unwraps and debug assertions): an entry without a more recent one is
\* the most recent, one without a less recent one is the least recent, and the
\* two links of neighbours are inverses.
Linked ==
    \A k \in Present :
        /\ store[k].mru = None <=> k = mru
        /\ store[k].lru = None <=> k = lru
        /\ \A j \in Present : store[k].lru = j <=> store[j].mru = k

\* What get, insert and remove find is well formed: every link names an entry that is
\* present and has its inverse, and the blocks that are cached fit the capacity.
CacheSound == TypeOK /\ Linked /\ MemoryBounded

\* The keys met on the way from mru along the lru links.
Walk[n \in 0 .. Cardinality(Keys)] ==
    IF n = 0 THEN mru ELSE IF Walk[n - 1] = None THEN None ELSE store[Walk[n - 1]].lru

\* The links represent one list of all the entries in order of use: a lookup or a
\* first insertion puts its key at the head, and what insert expires to make room
\* is always the least recently used entry.
Lru == INSTANCE LruOrder WITH
    order <- [i \in 1 .. Cardinality(Present) |-> Walk[i - 1]],
    adding <- inserting
IsLru == Lru!Spec

\* expire's assertion, "Can't find an entry to expire": the blocks are no larger
\* than the capacity, so there is always something to expire.
ExpireFindsEntry == ~ panicked
=============================================================================
