----------------------------- MODULE MCSyncSide -----------------------------
(* Synchronisation and its bookkeeping, for TLC: the sync manager, the     *)
(* audit trail, the two caches and the hash ring.  A behaviour has the     *)
(* steps of one of them, its scene.                                        *)
EXTENDS MCSyncManager, AuditTrail, LayeredCache, AdvancedCache, HashRing

CONSTANT Scenes   \* of "manager", "audit", "layers", "cache", "ring"

VARIABLE scene

SmallLevels == <<1, 2>>

\* Virtual nodes of different nodes collide, at 0 and at 2.
Hashes == (<<"a", 0>> :> 0) @@ (<<"a", 1>> :> 2) @@ (<<"b", 0>> :> 2) @@ (<<"b", 1>> :> 3)
            @@ (<<"c", 0>> :> 4) @@ (<<"c", 1>> :> 0)

\* What is not on the scene begins in one of its initial states.
SyncSideInit ==
  /\ scene \in Scenes
  /\ Init /\ AuditInit /\ LayeredInit /\ AdvancedInit /\ RingInit
  /\ scene # "manager" => mirrors = <<>> /\ strategy = CHOOSE s \in Strategies : TRUE

In(s) == scene = s /\ UNCHANGED scene

ManagerScene ==
  In("manager") /\ Next /\ UNCHANGED <<auditVars, layeredVars, advancedVars, ringVars>>
AuditScene ==
  In("audit") /\ AuditNext /\ UNCHANGED <<vars, layeredVars, advancedVars, ringVars>>
LayersScene ==
  In("layers") /\ LayeredNext /\ UNCHANGED <<vars, auditVars, advancedVars, ringVars>>
CacheScene ==
  In("cache") /\ AdvancedNext /\ UNCHANGED <<vars, auditVars, layeredVars, ringVars>>
RingScene ==
  In("ring") /\ RingNext /\ UNCHANGED <<vars, auditVars, layeredVars, advancedVars>>

SyncSideNext == ManagerScene \/ AuditScene \/ LayersScene \/ CacheScene \/ RingScene

SyncSideSpec ==
  /\ SyncSideInit
  /\ [][SyncSideNext]_<<scene, vars, auditVars, layeredVars, advancedVars, ringVars>>

\* Every variable of every component has its type.
Typed ==
  /\ scene \in Scenes
  /\ TypeOK /\ AuditTypeOK /\ LayeredTypeOK /\ AdvancedTypeOK /\ RingTypeOK

\* What is read from the audit trail, page by page or for a rollback, agrees
\* with what it holds.
QueriesAgree == PagesPartition /\ RollbackShown

\* What is kept beside the data agrees with it: the conflicts, the audit
\* trail's index and its queries, the caches' counters, the ring.
BookkeepingAgrees ==
  /\ DistinctConflicts
  /\ AuditIndexed /\ QueriesAgree
  /\ LayeredBounded /\ DeletedStaysGone
  /\ CountExplained /\ UsageCovers
  /\ KeysLookedAfter
=============================================================================
