---------------------------- MODULE LayeredCache ----------------------------
(***************************************************************************)
(* internal/cache/cache.go: MultiLevelCache over two MemoryCaches.         *)
(*                                                                         *)
(* Each level has its mutex; an operation on both takes one after the      *)
(* other, and a look-up gives the lock up between reading an entry and     *)
(* finding it expired.  The model has no clock: an entry that is looked at *)
(* may be found expired or not.  Which entry is evicted is left open, and  *)
(* the values are left out: presence is what the properties are about.     *)
(***************************************************************************)
EXTENDS Integers, FiniteSets

CONSTANTS
  CacheKeys,    \* the keys in use
  CacheUsers,   \* goroutines that use the cache
  LevelSize     \* the maxSize of each level, a pair

ASSUME LayeredAssumption == CacheKeys # {} /\ LevelSize \in [1..2 -> Nat \ {0}]

VARIABLES
  level,      \* per level: data (the keys present) and size (stats.Size)
  cacheOp,    \* per goroutine: the operation it is in
  gone,       \* keys deleted from both levels, with no Set since it began
  revived     \* keys a look-up put back into L1 behind a Delete

layeredVars == <<level, cacheOp, gone, revived>>

NoOp == [pc |-> "idle", key |-> CHOOSE k \in CacheKeys : TRUE, clean |-> FALSE]

LayeredInit ==
  /\ level = [l \in 1..2 |-> [data |-> {}, size |-> 0]]
  /\ cacheOp = [u \in CacheUsers |-> NoOp]
  /\ gone = {} /\ revived = {}

Goes(u, pc) == cacheOp' = [cacheOp EXCEPT ![u].pc = pc]
Ends(u) == cacheOp' = [cacheOp EXCEPT ![u] = NoOp]

Stored(data) == [data |-> data, size |-> Cardinality(data)]

\* Room is made only beyond the limit.
PutOneTooMany(l, k) ==
  IF Cardinality(level[l].data) > LevelSize[l]
    THEN \E victim \in level[l].data :
           level' = [level EXCEPT ![l] = Stored((@.data \ {victim}) \cup {k})]
    ELSE level' = [level EXCEPT ![l] = Stored(@.data \cup {k})]

\* MemoryCache.Set: room is made first, for a key that is there already too.
Put(l, k) ==
  IF Cardinality(level[l].data) >= LevelSize[l]
    THEN \E victim \in level[l].data :
           level' = [level EXCEPT ![l] = Stored((@.data \ {victim}) \cup {k})]
    ELSE level' = [level EXCEPT ![l] = Stored(@.data \cup {k})]

\* MemoryCache.Delete
Remove(l, k) ==
  level' = IF k \in level[l].data THEN [level EXCEPT ![l] = Stored(@.data \ {k})] ELSE level

-----------------------------------------------------------------------------
(* MultiLevelCache.Get                                                     *)

\* The entry is read under RLock; a miss goes on to the next level.
LookUp(u, l, k) ==
  /\ IF l = 1 THEN cacheOp[u].pc = "idle" ELSE cacheOp[u].pc = "second" /\ cacheOp[u].key = k
  /\ cacheOp' = [cacheOp EXCEPT ![u] =
       CASE k \in level[l].data -> [NoOp EXCEPT !.pc = IF l = 1 THEN "hit1" ELSE "hit2", !.key = k]
         [] k \notin level[l].data /\ l = 1 -> [NoOp EXCEPT !.pc = "second", !.key = k]
         [] k \notin level[l].data /\ l = 2 -> NoOp]
  /\ UNCHANGED <<level, gone, revived>>

\* It has expired: whatever is under the key by now is deleted, and
\* stats.Size is not brought up to date.
Expire(u, l) ==
  /\ cacheOp[u].pc = IF l = 1 THEN "hit1" ELSE "hit2"
  /\ level' = [level EXCEPT ![l].data = @ \ {cacheOp[u].key}]
  /\ IF l = 1 THEN Goes(u, "second") ELSE Ends(u)
  /\ UNCHANGED <<gone, revived>>

ServeFirst(u) ==
  /\ cacheOp[u].pc = "hit1"
  /\ Ends(u)
  /\ UNCHANGED <<level, gone, revived>>

\* Some goroutine has deleted k from L1 and not yet from L2.
HalfDeleted(k) == \E u \in CacheUsers : cacheOp[u].pc = "delete2" /\ cacheOp[u].key = k

\* What was found in L2 is set in L1, for five minutes more.
Promote(u) ==
  LET k == cacheOp[u].key IN
  /\ cacheOp[u].pc = "hit2"
  /\ Put(1, k)
  /\ revived' = IF k \in gone \/ HalfDeleted(k) THEN revived \cup {k} ELSE revived
  /\ Ends(u)
  /\ UNCHANGED gone

-----------------------------------------------------------------------------
(* Set, Delete and Clear: one level, then the other                        *)

Setting(k) == \E u \in CacheUsers : cacheOp[u].pc = "set2" /\ cacheOp[u].key = k

SetFirst(u, k) ==
  /\ cacheOp[u].pc = "idle"
  /\ Put(1, k)
  /\ cacheOp' = [v \in CacheUsers |->
       IF v = u THEN [NoOp EXCEPT !.pc = "set2", !.key = k]
       ELSE IF cacheOp[v].key = k THEN [cacheOp[v] EXCEPT !.clean = FALSE] ELSE cacheOp[v]]
  /\ gone' = gone \ {k} /\ revived' = revived \ {k}

SetSecond(u) ==
  /\ cacheOp[u].pc = "set2"
  /\ Put(2, cacheOp[u].key)
  /\ Ends(u)
  /\ UNCHANGED <<gone, revived>>

DeleteFirst(u, k) ==
  /\ cacheOp[u].pc = "idle"
  /\ Remove(1, k)
  /\ cacheOp' = [cacheOp EXCEPT ![u] = [pc |-> "delete2", key |-> k, clean |-> ~Setting(k)]]
  /\ revived' = revived \ {k}
  /\ UNCHANGED gone

\* The second level keeps the entry.
DeleteSecondForgets(u) ==
  /\ cacheOp[u].pc = "delete2"
  /\ gone' = IF cacheOp[u].clean THEN gone \cup {cacheOp[u].key} ELSE gone
  /\ Ends(u)
  /\ UNCHANGED <<level, revived>>

DeleteSecond(u) ==
  /\ cacheOp[u].pc = "delete2"
  /\ Remove(2, cacheOp[u].key)
  /\ gone' = IF cacheOp[u].clean THEN gone \cup {cacheOp[u].key} ELSE gone
  /\ Ends(u)
  /\ UNCHANGED revived

ClearFirst(u) ==
  /\ cacheOp[u].pc = "idle"
  /\ level' = [level EXCEPT ![1] = Stored({})]
  /\ Goes(u, "clear2")
  /\ UNCHANGED <<gone, revived>>

ClearSecond(u) ==
  /\ cacheOp[u].pc = "clear2"
  /\ level' = [level EXCEPT ![2] = Stored({})]
  /\ Ends(u)
  /\ UNCHANGED <<gone, revived>>

\* The ticker's goroutine of each level.
Cleanup(l) ==
  /\ \E kept \in SUBSET level[l].data : level' = [level EXCEPT ![l] = Stored(kept)]
  /\ UNCHANGED <<cacheOp, gone, revived>>

LayeredNext ==
  \/ \E u \in CacheUsers, k \in CacheKeys : SetFirst(u, k) \/ DeleteFirst(u, k)
  \/ \E u \in CacheUsers, l \in 1..2, k \in CacheKeys : LookUp(u, l, k)
  \/ \E u \in CacheUsers, l \in 1..2 : Expire(u, l)
  \/ \E u \in CacheUsers : \/ ServeFirst(u) \/ Promote(u) \/ SetSecond(u) \/ DeleteSecond(u)
                           \/ ClearFirst(u) \/ ClearSecond(u)
  \/ \E l \in 1..2 : Cleanup(l)

LayeredSpec == LayeredInit /\ [][LayeredNext]_layeredVars

-----------------------------------------------------------------------------
(* Properties                                                              *)

LayeredTypeOK ==
  /\ level \in [1..2 -> [data : SUBSET CacheKeys, size : Nat]]
  /\ cacheOp \in [CacheUsers -> [pc : {"idle", "hit1", "second", "hit2", "set2", "delete2", "clear2"},
                                 key : CacheKeys, clean : BOOLEAN]]
  /\ gone \subseteq CacheKeys /\ revived \subseteq CacheKeys

\* No level outgrows its maxSize, whatever runs at once, and stats.Size may
\* be ahead of the entries that look-ups removed but never behind.
LayeredBounded ==
  \A l \in 1..2 : Cardinality(level[l].data) <= level[l].size /\ level[l].size <= LevelSize[l]

\* A deleted key is served again only where a look-up that had found it in
\* L2 before the deletion promoted it to L1 after.
DeletedStaysGone == \A k \in gone : k \notin level[2].data /\ (k \in level[1].data => k \in revived)
=============================================================================
