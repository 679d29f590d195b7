---------------------------- MODULE AdvancedCache ---------------------------
(***************************************************************************)
(* internal/cache/advanced_cache.go: AdvancedCache, whose size and memory  *)
(* are counted in stats beside the map they are about.                     *)
(*                                                                         *)
(* Get reads under RLock and, when the entry has expired, deletes under    *)
(* Lock what is there by then.  There is no clock: an entry looked at may  *)
(* be found expired or not.  An entry is its size; which one the clocks    *)
(* and counters of a strategy choose is left open, and so are values,      *)
(* hashes, compression and encryption, which only make a size another.     *)
(***************************************************************************)
EXTENDS Integers, FiniteSets

CONSTANTS
  ItemKeys,     \* the keys in use
  ItemSizes,    \* the sizes a stored value may have
  Readers,      \* goroutines that call Get
  MaxItems,     \* Policy.MaxSize
  Megabyte,     \* memoryMBDivisor, in the unit of ItemSizes
  MaxMemory,    \* Policy.MaxMemoryMB
  EvictsOne,    \* Policy.Strategy is not StrategyTTL
  UsageBound,   \* bound of the model: stats.MemoryUsage is followed up to here
  PhantomBound  \* bound of the model: phantoms up to the next Clear

ASSUME AdvancedAssumption ==
  /\ IsFiniteSet(ItemKeys)
  /\ ItemSizes \subseteq Nat \ {0} /\ MaxItems \in Nat /\ MaxMemory \in Nat
  /\ Megabyte \in Nat \ {0}
  /\ EvictsOne \in BOOLEAN /\ UsageBound \in Nat /\ PhantomBound \in Nat

VARIABLES
  items,      \* ac.data: the size of every entry, 0 where there is none
  itemCount,  \* stats.Size
  usage,      \* stats.MemoryUsage
  expiring,   \* the readers that have found a key expired, and the key
  phantoms    \* how often stats.Size was lowered for an entry already gone

advancedVars == <<items, itemCount, usage, expiring, phantoms>>

Present(m) == {k \in ItemKeys : m[k] > 0}

AdvancedInit ==
  /\ items = [k \in ItemKeys |-> 0]
  /\ itemCount = 0 /\ usage = 0 /\ phantoms = 0
  /\ expiring = {}

\* What the entries of some keys take, counted unit by unit.
Taken(m, keys) == Cardinality(UNION {{k} \X (1..m[k]) : k \in keys})

\* deleteInternal, for every key of a set: what is left of the counters.
Without(s, keys) ==
  [m |-> [k \in ItemKeys |-> IF k \in keys THEN 0 ELSE s.m[k]],
   count |-> s.count - Cardinality(keys \cap Present(s.m)),
   usage |-> s.usage - Taken(s.m, keys)]

\* evictItems: StrategyTTL evicts what has expired, which may be nothing;
\* the others one entry, if there is one.
Evictions(s) ==
  IF EvictsOne
    THEN IF Present(s.m) = {} THEN {s} ELSE {Without(s, {k}) : k \in Present(s.m)}
    ELSE {Without(s, expired) : expired \in SUBSET Present(s.m)}

Becomes(s) == items' = s.m /\ itemCount' = s.count /\ usage' = s.usage
Now == [m |-> items, count |-> itemCount, usage |-> usage]

\* Set counts an entry that only replaces another.
AddedTwice(s, k, size) ==
  [m |-> [s.m EXCEPT ![k] = size], count |-> s.count + 1, usage |-> s.usage + size]

\* The entry is added and counted, a replaced one's size is not taken off.
Added(s, k, size) ==
  [m |-> [s.m EXCEPT ![k] = size],
   count |-> IF s.m[k] = 0 THEN s.count + 1 ELSE s.count,
   usage |-> s.usage + size]

\* What is used and what is to come are each rounded down to megabytes.
OverMemory(size) == (usage \div Megabyte) + (size \div Megabyte) > MaxMemory

SetItem(k, size) ==
  /\ usage + size <= UsageBound
  /\ \E roomy \in IF OverMemory(size) THEN Evictions(Now) ELSE {Now} :
       LET full == Added(roomy, k, size) IN
       \E s \in IF full.count > MaxItems THEN Evictions(full) ELSE {full} : Becomes(s)
  /\ UNCHANGED <<expiring, phantoms>>

\* Get: a miss and a hit change nothing here.
FindExpired(r, k) ==
  /\ k \in Present(items)
  /\ \A e \in expiring : e[1] # r
  /\ expiring' = expiring \cup {<<r, k>>}
  /\ UNCHANGED <<items, itemCount, usage, phantoms>>

\* Whatever is under the key now is deleted; stats.Size goes down also when
\* nothing is, and stats.MemoryUsage does not go down at all.
DropExpired(r, k) ==
  /\ <<r, k>> \in expiring
  /\ items[k] = 0 => phantoms < PhantomBound
  /\ expiring' = expiring \ {<<r, k>>}
  /\ items' = [items EXCEPT ![k] = 0]
  /\ itemCount' = itemCount - 1
  /\ phantoms' = IF items[k] = 0 THEN phantoms + 1 ELSE phantoms
  /\ UNCHANGED usage

DeleteItem(k) ==
  /\ Becomes(Without(Now, {k}))
  /\ UNCHANGED <<expiring, phantoms>>

ClearItems ==
  /\ items' = [k \in ItemKeys |-> 0]
  /\ itemCount' = 0 /\ usage' = 0 /\ phantoms' = 0
  /\ UNCHANGED expiring

\* cleanup: the expired entries, and one more if there are still too many.
CleanupItems ==
  /\ \E expired \in SUBSET Present(items) :
       LET rest == Without(Now, expired) IN
       \E s \in IF rest.count > MaxItems THEN Evictions(rest) ELSE {rest} : Becomes(s)
  /\ UNCHANGED <<expiring, phantoms>>

AdvancedNext ==
  \/ \E k \in ItemKeys, size \in ItemSizes : SetItem(k, size)
  \/ \E r \in Readers, k \in ItemKeys : FindExpired(r, k) \/ DropExpired(r, k)
  \/ \E k \in ItemKeys : DeleteItem(k)
  \/ ClearItems
  \/ CleanupItems

AdvancedSpec == AdvancedInit /\ [][AdvancedNext]_advancedVars

-----------------------------------------------------------------------------
(* Properties                                                              *)

AdvancedTypeOK ==
  /\ items \in [ItemKeys -> {0} \cup ItemSizes]
  /\ itemCount \in Int /\ usage \in Nat /\ phantoms \in Nat
  /\ expiring \subseteq Readers \X ItemKeys

\* stats.Size is the number of entries, less one for each time a reader took
\* an entry off that another had removed; so the cache is over its limit by
\* as many entries at most (with StrategyTTL by any number, if none expires).
CountExplained ==
  /\ itemCount = Cardinality(Present(items)) - phantoms
  /\ EvictsOne => Cardinality(Present(items)) <= MaxItems + phantoms

\* stats.MemoryUsage never falls below what the entries take.
UsageCovers == usage >= Taken(items, ItemKeys)
=============================================================================
