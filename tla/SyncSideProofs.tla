--------------------------- MODULE SyncSideProofs ---------------------------
(***************************************************************************)
(* Proofs about what keeps books beside its data, for any users, keys,     *)
(* sizes, nodes and goroutines: the audit trail's index and what is read   *)
(* of it, the entries of the two caches and the counters beside them, the  *)
(* hash ring, and, with SyncManagerProofs, all MCSyncSide calls            *)
(* bookkeeping.                                                            *)
(***************************************************************************)
EXTENDS MCSyncSide, SyncManagerProofs, FiniteSetTheorems, WellFoundedInduction

-----------------------------------------------------------------------------
(* Numbers                                                                 *)

\* A set of naturals has a least element.
LEMMA LeastNatural ==
  ASSUME NEW S \in SUBSET Nat, S # {}
  PROVE  \E p \in S : \A q \in S : p <= q
<1>1. PICK p \in S : \A q \in S : <<q, p>> \notin OpToRel(<, Nat)
  <2> DEFINE R == OpToRel(<, Nat)
  <2>1. IsWellFoundedOn(R, Nat)
    BY NatLessThanWellFounded, Zenon
  <2> HIDE DEF R
  <2>2. \E p \in S : \A q \in S : <<q, p>> \notin R
    BY <2>1, WFMin
  <2> QED BY <2>2, Zenon DEF R
<1>2. \A q \in S : ~(q < p)
  BY <1>1, Zenon DEF OpToRel
<1> QED BY <1>2

-----------------------------------------------------------------------------
(* The audit trail                                                         *)

AuditEvents == [id : 0..LastTime, serial : 0..Recordings, stamp : 0..LastTime,
                type : EventTypes, issue : AuditedIssues, ok : BOOLEAN]

\* No two events have one place in the list.
Apart(events) == \A e, f \in events : e.serial = f.serial => e = f

\* No two events in the list have one ID unless it was given twice.
AuditInv ==
  /\ AuditTypeOK
  /\ IsFiniteSet(trail)
  /\ \A e \in trail : e.serial < recorded
  /\ Apart(trail)
  /\ \A e, f \in trail : e.id = f.id /\ e # f => e.id \in shared
  /\ AuditIndexed

LEMMA OldestIsIn ==
  ASSUME NEW events \in SUBSET AuditEvents, events # {}
  PROVE  Oldest(events) \in events
<1> DEFINE serials == {e.serial : e \in events}
<1>1. \A e \in events : e.serial \in Nat
  BY DEF AuditEvents
<1>2. serials \in SUBSET Nat /\ serials # {}
  BY <1>1
<1> HIDE DEF serials
<1>3. PICK least \in serials : \A serial \in serials : least <= serial
  BY <1>2, LeastNatural
<1>4. \E e \in events : \A f \in events : e.serial <= f.serial
  BY <1>3 DEF serials
<1> QED BY <1>4 DEF Oldest

LEMMA AuditInvInit == AuditInit => AuditInv
<1> SUFFICES ASSUME AuditInit PROVE AuditInv
  OBVIOUS
<1>1. /\ trail = {} /\ DOMAIN index = {} /\ syncing = [s \in Syncs |-> NotSyncing]
      /\ auditClock = 0 /\ recorded = 0 /\ shared = {}
  BY DEF AuditInit
<1>2. AuditTypeOK
  BY <1>1, AuditAssumption DEF AuditTypeOK
<1> QED BY <1>1, <1>2, FS_EmptySet, AuditAssumption DEF AuditInv, AuditIndexed, Apart

LEMMA AuditInvStep == AuditInv /\ [AuditNext]_auditVars => AuditInv'
<1> SUFFICES ASSUME AuditInv, [AuditNext]_auditVars PROVE AuditInv'
  OBVIOUS
<1>0. /\ AuditTypeOK /\ trail \subseteq AuditEvents /\ IsFiniteSet(trail)
      /\ Cardinality(trail) \in Nat /\ Cardinality(trail) <= MaxEvents
      /\ MaxEvents \in Nat \ {0} /\ LastTime \in Nat /\ Recordings \in Nat
  BY AuditAssumption, FS_CardinalityType DEF AuditInv, AuditTypeOK, AuditIndexed, AuditEvents
<1>1. CASE Ticks
  BY <1>0, <1>1 DEF Ticks, AuditInv, Apart, AuditTypeOK, AuditIndexed
<1>2. ASSUME NEW s \in Syncs, BeginSync(s)
      PROVE  AuditInv'
  BY <1>0, <1>2 DEF BeginSync, AuditInv, Apart, AuditTypeOK, AuditIndexed
<1>3. ASSUME NEW s \in Syncs, NEW type \in EventTypes, NEW issue \in AuditedIssues, NEW ok \in BOOLEAN,
             RecordEvent(s, type, issue, ok)
      PROVE  AuditInv'
  <2> DEFINE entry == [id |-> auditClock, serial |-> recorded, stamp |-> syncing[s],
                       type |-> type, issue |-> issue, ok |-> ok]
             indexed == [i \in DOMAIN index \cup {auditClock} |-> IF i = auditClock THEN recorded ELSE index[i]]
             longer == trail \cup {entry}
             again == IF \E e \in trail : e.id = auditClock THEN shared \cup {auditClock} ELSE shared
  <2>1. /\ recorded < Recordings /\ syncing[s] # NotSyncing
        /\ trail' = Cut(longer, indexed)[1] /\ index' = Cut(longer, indexed)[2]
        /\ shared' = again /\ recorded' = recorded + 1
        /\ syncing' = [syncing EXCEPT ![s] = NotSyncing] /\ auditClock' = auditClock
    BY <1>3 DEF RecordEvent
  <2>2. /\ syncing[s] \in 0..LastTime /\ auditClock \in 0..LastTime /\ recorded \in 0..Recordings
        /\ shared \subseteq 0..LastTime /\ DOMAIN index \subseteq 0..LastTime
    BY <1>0, <2>1 DEF AuditTypeOK
  <2>3. entry \in AuditEvents /\ entry.id = auditClock /\ entry.serial = recorded
    BY <2>2 DEF AuditEvents
  <2> HIDE DEF entry
  <2>4. entry \notin trail
    <3>1. recorded \in Nat
      BY <2>2
    <3> QED BY <2>3, <3>1 DEF AuditInv
  <2>5. /\ IsFiniteSet(longer) /\ Cardinality(longer) = Cardinality(trail) + 1
        /\ longer \subseteq AuditEvents /\ longer # {}
    BY <1>0, <2>3, <2>4, FS_AddElement
  <2>6. /\ \A e \in longer : e.serial < recorded'
        /\ again \subseteq 0..LastTime
    <3>1. \A e \in trail : e.serial \in Nat /\ e.serial < recorded
      BY <1>0 DEF AuditInv, AuditEvents
    <3> QED BY <2>1, <2>2, <2>3, <3>1
  <2>16. Apart(longer)
    <3>1. \A e \in trail : e.serial \in Nat /\ e.serial < recorded
      BY <1>0 DEF AuditInv, AuditEvents
    <3> QED BY <2>2, <2>3, <3>1 DEF AuditInv, Apart
  <2>7. \A e, f \in longer : e.id = f.id /\ e # f => e.id \in again
    BY <2>3 DEF AuditInv
  <2>8. /\ DOMAIN indexed = DOMAIN index \cup {auditClock}
        /\ indexed[auditClock] = recorded
        /\ \A i \in DOMAIN index : i # auditClock => indexed[i] = index[i]
    OBVIOUS
  <2> HIDE DEF indexed
  <2>9. \A i \in DOMAIN indexed : \E e \in longer : e.id = i /\ e.serial = indexed[i]
    BY <2>3, <2>8 DEF AuditInv, AuditIndexed
  <2>10. \A e \in longer : e.id \notin again => e.id \in DOMAIN indexed /\ indexed[e.id] = e.serial
    BY <2>3, <2>8 DEF AuditInv, AuditIndexed
  <2> HIDE DEF longer, again
  <2>11. syncing' \in [Syncs -> {NotSyncing} \cup 0..LastTime]
    BY <1>0, <2>1 DEF AuditTypeOK
  <2>12. recorded' \in 0..Recordings /\ auditClock' \in 0..LastTime /\ shared' \subseteq 0..LastTime
    BY <1>0, <2>1, <2>2, <2>6
  <2>13. DOMAIN indexed \subseteq 0..LastTime
    BY <2>2, <2>8
  <2>14. CASE ~(Cardinality(longer) > MaxEvents)
    <3>1. trail' = longer /\ index' = indexed
      BY <2>1, <2>14 DEF Cut
    <3>2. AuditTypeOK'
      BY <2>5, <2>11, <2>12, <2>13, <3>1 DEF AuditTypeOK, AuditEvents
    <3>3. AuditIndexed'
      BY <1>0, <2>1, <2>5, <2>9, <2>10, <2>14, <3>1 DEF AuditIndexed
    <3> QED BY <2>1, <2>5, <2>6, <2>7, <2>16, <3>1, <3>2, <3>3 DEF AuditInv, Apart
  <2>15. CASE Cardinality(longer) > MaxEvents
    <3> DEFINE oldest == Oldest(longer)
               rest == longer \ {oldest}
               fewer == Forget(indexed, {oldest.id})
    <3>1. trail' = rest /\ index' = fewer
      BY <2>1, <2>15 DEF Cut
    <3>2. oldest \in longer
      BY <2>5, OldestIsIn
    <3> HIDE DEF oldest
    <3>3. IsFiniteSet(rest) /\ Cardinality(rest) = Cardinality(longer) - 1
      BY <2>5, <3>2, FS_RemoveElement
    <3>4. /\ DOMAIN fewer = DOMAIN indexed \ {oldest.id}
          /\ \A i \in DOMAIN fewer : fewer[i] = indexed[i]
      BY DEF Forget
    <3> HIDE DEF fewer
    <3>5. AuditTypeOK'
      BY <2>5, <2>11, <2>12, <2>13, <3>1, <3>4 DEF AuditTypeOK, AuditEvents
    <3>6. \A i \in DOMAIN fewer : \E e \in rest : e.id = i /\ e.serial = fewer[i]
      <4> SUFFICES ASSUME NEW i \in DOMAIN fewer
                   PROVE  \E e \in rest : e.id = i /\ e.serial = fewer[i]
        OBVIOUS
      <4>1. PICK e \in longer : e.id = i /\ e.serial = indexed[i]
        BY <2>9, <3>4
      <4>2. e # oldest
        BY <3>4, <4>1
      <4> QED BY <3>4, <4>1, <4>2
    <3>7. \A e \in rest : e.id \notin again => e.id \in DOMAIN fewer /\ fewer[e.id] = e.serial
      <4> SUFFICES ASSUME NEW e \in rest, e.id \notin again
                   PROVE  e.id \in DOMAIN fewer /\ fewer[e.id] = e.serial
        OBVIOUS
      <4>1. e.id # oldest.id
        BY <2>7, <3>2
      <4> QED BY <2>10, <3>4, <4>1
    <3>8. AuditIndexed'
      BY <1>0, <2>1, <2>5, <3>1, <3>3, <3>6, <3>7 DEF AuditIndexed
    <3> QED BY <2>1, <2>6, <2>7, <2>16, <3>1, <3>3, <3>5, <3>8 DEF AuditInv, Apart
  <2> QED BY <2>14, <2>15
<1>4. ASSUME NEW cutoff \in 0..LastTime, PurgeOldEvents(cutoff)
      PROVE  AuditInv'
  <2> DEFINE purged == {e.id : e \in trail \ trail'}
  <2>1. /\ trail' \subseteq trail /\ index' = Forget(index, purged)
        /\ syncing' = syncing /\ auditClock' = auditClock /\ recorded' = recorded /\ shared' = shared
    BY <1>4 DEF PurgeOldEvents
  <2>2. DOMAIN index' = DOMAIN index \ purged /\ \A i \in DOMAIN index' : index'[i] = index[i]
    BY <2>1 DEF Forget
  <2>3. IsFiniteSet(trail') /\ Cardinality(trail') <= Cardinality(trail) /\ Cardinality(trail') \in Nat
    BY <1>0, <2>1, FS_Subset, FS_CardinalityType
  <2>4. AuditTypeOK'
    BY <1>0, <2>1, <2>2 DEF AuditTypeOK
  <2>5. \A i \in DOMAIN index' : \E e \in trail' : e.id = i /\ e.serial = index'[i]
    <3> SUFFICES ASSUME NEW i \in DOMAIN index'
                 PROVE  \E e \in trail' : e.id = i /\ e.serial = index'[i]
      OBVIOUS
    <3>1. PICK e \in trail : e.id = i /\ e.serial = index[i]
      BY <2>2 DEF AuditInv, AuditIndexed
    <3>2. e \in trail'
      BY <2>2, <3>1
    <3> QED BY <2>2, <3>1, <3>2
  <2>6. \A e \in trail' : e.id \notin shared => e.id \in DOMAIN index' /\ index'[e.id] = e.serial
    <3> SUFFICES ASSUME NEW e \in trail', e.id \notin shared
                 PROVE  e.id \in DOMAIN index' /\ index'[e.id] = e.serial
      OBVIOUS
    <3>1. e.id \notin purged
      BY <2>1 DEF AuditInv
    <3> QED BY <2>1, <2>2, <3>1 DEF AuditInv, AuditIndexed
  <2>7. AuditIndexed'
    <3>1. Cardinality(trail') <= MaxEvents
      BY <1>0, <2>3
    <3> QED BY <2>1, <2>5, <2>6, <3>1 DEF AuditIndexed
  <2>8. \A e \in trail' : e.serial < recorded'
    BY <2>1 DEF AuditInv
  <2>9. \A e, f \in trail' : e.id = f.id /\ e # f => e.id \in shared'
    BY <2>1 DEF AuditInv
  <2> QED BY <2>1, <2>3, <2>4, <2>7, <2>8, <2>9 DEF AuditInv, Apart
<1>5. CASE UNCHANGED auditVars
  BY <1>5 DEF auditVars, AuditInv, Apart, AuditTypeOK, AuditIndexed
<1> QED BY <1>1, <1>2, <1>3, <1>4, <1>5 DEF AuditNext

LEMMA AuditInvTells == AuditInv => AuditTypeOK /\ AuditIndexed
BY DEF AuditInv

\* For any goroutines, issues and limit: the list keeps to its limit, and
\* GetEvent finds an event of the list or nothing, and every event whose ID was
\* not given twice (RecordSyncEvent, PurgeOldEvents).
THEOREM TrailIsIndexed == AuditSpec => []AuditIndexed
BY AuditInvTells, AuditInvInit, AuditInvStep, PTL DEF AuditSpec

-----------------------------------------------------------------------------
(* What is read from the audit trail                                       *)

\* Of events at different places of the list one is before all others.
LEMMA OneIsFirst ==
  ASSUME NEW events \in SUBSET AuditEvents, events # {}, Apart(events)
  PROVE  \E e \in events : \A f \in events \ {e} : Before(e, f)
<1> DEFINE ages == {LastTime - e.stamp : e \in events}
<1>0. \A e \in events : e.stamp \in Nat /\ e.serial \in Nat /\ LastTime - e.stamp \in Nat
  BY AuditAssumption DEF AuditEvents
<1>1. ages \in SUBSET Nat /\ ages # {}
  BY <1>0
<1> HIDE DEF ages
<1>2. PICK least \in ages : \A age \in ages : least <= age
  BY <1>1, LeastNatural
<1>3. PICK newest \in events : \A f \in events : newest.stamp >= f.stamp
  <2>1. PICK newest \in events : least = LastTime - newest.stamp
    BY <1>2 DEF ages
  <2>2. \A f \in events : LastTime - newest.stamp <= LastTime - f.stamp
    BY <1>2, <2>1 DEF ages
  <2>3. \A f \in events : newest.stamp >= f.stamp
    BY <1>0, <2>2, AuditAssumption
  <2> QED BY <2>3
<1> DEFINE serials == {e.serial : e \in {f \in events : f.stamp = newest.stamp}}
<1>4. serials \in SUBSET Nat /\ serials # {}
  BY <1>0, <1>3
<1> HIDE DEF serials
<1>5. PICK first \in serials : \A serial \in serials : first <= serial
  BY <1>4, LeastNatural
<1>6. PICK e \in events : e.stamp = newest.stamp /\ e.serial = first
  BY <1>5 DEF serials
<1>7. \A f \in events \ {e} : Before(e, f)
  <2> SUFFICES ASSUME NEW f \in events \ {e} PROVE Before(e, f)
    OBVIOUS
  <2>1. e.serial # f.serial
    BY <1>6 DEF Apart
  <2>2. CASE f.stamp = newest.stamp
    <3>1. e.serial <= f.serial
      BY <1>5, <1>6, <2>2 DEF serials
    <3> QED BY <1>0, <1>6, <2>1, <2>2, <3>1 DEF Before
  <2>3. CASE f.stamp # newest.stamp
    BY <1>0, <1>3, <1>6, <2>3 DEF Before
  <2> QED BY <2>2, <2>3
<1> QED BY <1>7

Orders(order, events) ==
  /\ order \in [1..Cardinality(events) -> events]
  /\ \A i, j \in 1..Cardinality(events) : i < j => Before(order[i], order[j])

\* The events of a list can be put in order: by the number of events, the
\* first one before the others.
LEMMA OrderExists ==
  ASSUME NEW all \in SUBSET AuditEvents, IsFiniteSet(all), Apart(all)
  PROVE  \A events \in SUBSET all : \E order : Orders(order, events)
<1> DEFINE Unordered == {events \in SUBSET all : ~\E order : Orders(order, events)}
           sizes == {Cardinality(events) : events \in Unordered}
<1>0. \A events \in SUBSET all : IsFiniteSet(events) /\ Cardinality(events) \in Nat
  BY FS_Subset, FS_CardinalityType
<1> SUFFICES ASSUME Unordered # {} PROVE FALSE
  OBVIOUS
<1>1. sizes \in SUBSET Nat /\ sizes # {}
  BY <1>0
<1> HIDE DEF sizes
<1>2. PICK least \in sizes : \A size \in sizes : least <= size
  BY <1>1, LeastNatural
<1>3. PICK events \in Unordered : Cardinality(events) = least
  BY <1>2 DEF sizes
<1> DEFINE n == Cardinality(events)
<1>4. events \in SUBSET AuditEvents /\ Apart(events) /\ n \in Nat /\ IsFiniteSet(events)
  BY <1>0 DEF Apart
<1>5. CASE events = {}
  <2>1. n = 0
    BY <1>5, FS_EmptySet
  <2>2. Orders([i \in 1..n |-> 0], events)
    BY <2>1 DEF Orders
  <2> QED BY <2>2
<1>6. CASE events # {}
  <2>1. PICK e \in events : \A f \in events \ {e} : Before(e, f)
    BY <1>4, <1>6, OneIsFirst
  <2> DEFINE rest == events \ {e}
             m == Cardinality(rest)
  <2>2. rest \in SUBSET all /\ m = n - 1 /\ m \in Nat
    BY <1>0, <1>4, FS_RemoveElement
  <2>3. rest \notin Unordered
    <3>1. ASSUME rest \in Unordered PROVE least <= m
      BY <1>2, <3>1 DEF sizes
    <3> QED BY <1>3, <1>4, <2>2, <3>1
  <2>4. PICK tail : Orders(tail, rest)
    BY <2>2, <2>3
  <2> DEFINE order == [i \in 1..n |-> IF i = 1 THEN e ELSE tail[i - 1]]
  <2> HIDE DEF n, m
  <2>5. \A i \in 1..n : i # 1 => i - 1 \in 1..m
    BY <1>4, <2>2
  <2>6. tail \in [1..m -> rest] /\ \A i, j \in 1..m : i < j => Before(tail[i], tail[j])
    BY <2>4 DEF Orders, m
  <2> HIDE DEF rest
  <2>7. \A i \in 1..m : tail[i] \in rest
    BY <2>6
  <2>8. order \in [1..n -> events]
    BY <2>5, <2>7 DEF rest
  <2>9. ASSUME NEW i \in 1..n, NEW j \in 1..n, i < j PROVE Before(order[i], order[j])
    <3>1. j # 1 /\ j - 1 \in 1..m /\ order[j] = tail[j - 1]
      BY <1>4, <2>5, <2>9
    <3>2. CASE i = 1
      BY <2>1, <2>7, <3>1, <3>2 DEF rest
    <3>3. CASE i # 1
      <4>1. i - 1 \in 1..m /\ order[i] = tail[i - 1] /\ i - 1 < j - 1
        BY <1>4, <2>5, <2>9, <3>3
      <4> QED BY <2>6, <3>1, <4>1
    <3> QED BY <3>2, <3>3
  <2>10. Orders(order, events)
    BY <2>8, <2>9 DEF Orders, n
  <2> QED BY <2>10
<1> QED BY <1>5, <1>6

\* What QueryEvents and PrepareRollback sort has every event they found, at
\* one place, none before one that began later.
LEMMA NewestFirstOrders ==
  ASSUME NEW all \in SUBSET AuditEvents, IsFiniteSet(all), Apart(all), NEW events \in SUBSET all
  PROVE  /\ Cardinality(events) \in Nat
         /\ NewestFirst(events) \in [1..Cardinality(events) -> events]
         /\ \A i, j \in 1..Cardinality(events) : i < j =>
              /\ NewestFirst(events)[i].stamp >= NewestFirst(events)[j].stamp
              /\ NewestFirst(events)[i].serial # NewestFirst(events)[j].serial
         /\ \A e \in events : \E i \in 1..Cardinality(events) : NewestFirst(events)[i] = e
<1> DEFINE n == Cardinality(events)
           order == NewestFirst(events)
<1>1. IsFiniteSet(events) /\ n \in Nat
  BY FS_Subset, FS_CardinalityType
<1>2. \E o : Orders(o, events)
  BY OrderExists
<1>3. order \in [1..n -> events] /\ \A i, j \in 1..n : i < j => Before(order[i], order[j])
  BY <1>2 DEF Orders, NewestFirst
<1> HIDE DEF n, order
<1>4. \A i \in 1..n : order[i] \in events /\ order[i].stamp \in Int /\ order[i].serial \in Int
  BY <1>3 DEF AuditEvents
<1>5. ASSUME NEW i \in 1..n, NEW j \in 1..n, i < j
      PROVE  order[i].stamp >= order[j].stamp /\ order[i].serial # order[j].serial
  BY <1>3, <1>4, <1>5 DEF Before, Apart
<1>6. \A i, j \in 1..n : order[i] = order[j] => i = j
  BY <1>1, <1>5
<1>7. order \in Injection(1..n, events)
  BY <1>3, <1>6 DEF Injection, IsInjective
<1>8. Cardinality(1..n) = n
  BY <1>1, FS_Interval
<1>9. order \in Surjection(1..n, events)
  BY <1>1, <1>7, <1>8, FS_Injection DEF n
<1>10. \A e \in events : \E i \in 1..n : order[i] = e
  BY <1>9 DEF Surjection
<1> QED BY <1>1, <1>3, <1>5, <1>10 DEF n, order

LEMMA PagedUnfolds ==
  ASSUME NEW q, NEW limit
  PROVE  Paged(q, limit) = [k \in 0..MaxEvents |->
           IF k = 0 THEN <<>> ELSE Paged(q, limit)[k - 1] \o QueryEvents(q, (k - 1) * limit, limit)]
<1> DEFINE Page(k) == QueryEvents(q, k * limit, limit)
           Joins(f, m) == f = [k \in 0..m |-> IF k = 0 THEN <<>> ELSE f[k - 1] \o Page(k - 1)]
           unjoined == {m \in 0..MaxEvents : ~\E f : Joins(f, m)}
<1>0. Paged(q, limit) = CHOOSE f : Joins(f, MaxEvents)
  BY DEF Paged
<1> HIDE DEF Page, Joins
<1>1. unjoined = {}
  <2> SUFFICES ASSUME unjoined # {} PROVE FALSE
    OBVIOUS
  <2>1. unjoined \in SUBSET Nat
    BY AuditAssumption
  <2>4. PICK m \in unjoined : \A o \in unjoined : m <= o
    <3> HIDE DEF unjoined
    <3> QED BY <2>1, LeastNatural
  <2>5. m \in 0..MaxEvents /\ m \in Nat
    BY AuditAssumption
  <2>2. CASE m = 0
    <3>1. Joins([k \in 0..0 |-> <<>>], 0)
      BY DEF Joins
    <3> QED BY <2>2, <3>1
  <2>3. CASE m # 0
    <3>1. m - 1 \in 0..MaxEvents /\ m - 1 \notin unjoined
      BY <2>3, <2>4, <2>5, AuditAssumption
    <3>2. PICK f : Joins(f, m - 1)
      BY <3>1
    <3> DEFINE g == [k \in 0..m |-> IF k = m THEN f[m - 1] \o Page(m - 1) ELSE f[k]]
    <3>3. \A k \in 0..m : g[k] = IF k = 0 THEN <<>> ELSE g[k - 1] \o Page(k - 1)
      <4> SUFFICES ASSUME NEW k \in 0..m PROVE g[k] = IF k = 0 THEN <<>> ELSE g[k - 1] \o Page(k - 1)
        OBVIOUS
      <4>1. CASE k = m
        <5>1. m \in 0..m /\ m - 1 \in 0..m /\ m - 1 # m
          BY <2>3, <2>5
        <5>2. g[k] = f[m - 1] \o Page(m - 1) /\ g[m - 1] = f[m - 1]
          BY <4>1, <5>1
        <5> QED BY <2>3, <4>1, <5>2
      <4>2. CASE k # m
        <5>1. k \in 0..(m - 1) /\ k - 1 # m /\ (k # 0 => k - 1 \in 0..m)
          BY <2>5, <4>2
        <5>2. f[k] = IF k = 0 THEN <<>> ELSE f[k - 1] \o Page(k - 1)
          BY <3>2, <5>1 DEF Joins
        <5>3. g[k] = f[k] /\ (k # 0 => g[k - 1] = f[k - 1])
          BY <4>2, <5>1
        <5> QED BY <5>2, <5>3
      <4> QED BY <4>1, <4>2
    <3> HIDE DEF g
    <3>4. DOMAIN g = 0..m /\ g = [k \in 0..m |-> g[k]]
      BY DEF g
    <3>5. Joins(g, m)
      BY <3>3, <3>4 DEF Joins
    <3> QED BY <3>5
  <2> QED BY <2>2, <2>3
<1>2. \E f : Joins(f, MaxEvents)
  BY <1>1, AuditAssumption
<1> QED BY <1>0, <1>2 DEF Page, Joins

Shorter(a, b) == IF a < b THEN a ELSE b

\* The sequence has m elements, those of order after an offset.
Piece(page, m, order, offset) ==
  Len(page) = m /\ \A i \in 1..m : page[i] = order[offset + i]

\* A page from an offset within the matches has the matches from there on; an
\* offset beyond them is not applied.
LEMMA OnePage ==
  ASSUME NEW q, NEW S, NEW n \in Nat, NEW order \in [1..n -> S], NewestFirst(Matching(q)) = order,
         NEW offset \in Nat, NEW limit \in Nat \ {0}
  PROVE  /\ offset = 0 \/ offset < n =>
              /\ QueryEvents(q, offset, limit) \in Seq(S)
              /\ Piece(QueryEvents(q, offset, limit), Shorter(limit, n - offset), order, offset)
         /\ offset >= n => QueryEvents(q, offset, limit) = QueryEvents(q, 0, limit)
         /\ QueryEvents(q, 0, 0) = order
<1>1. order \in Seq(S) /\ Len(order) = n
  OBVIOUS
<1>2. QueryEvents(q, 0, 0) = order
  BY DEF QueryEvents
<1>3. offset >= n => QueryEvents(q, offset, limit) = QueryEvents(q, 0, limit)
  BY <1>1 DEF QueryEvents
<1>4. ASSUME offset = 0 \/ offset < n
      PROVE  /\ QueryEvents(q, offset, limit) \in Seq(S)
             /\ Piece(QueryEvents(q, offset, limit), Shorter(limit, n - offset), order, offset)
  <2> DEFINE rest == IF 0 < offset /\ offset < Len(order) THEN SubSeq(order, offset + 1, Len(order)) ELSE order
  <2>1. QueryEvents(q, offset, limit) = IF 0 < limit /\ limit < Len(rest) THEN SubSeq(rest, 1, limit) ELSE rest
    BY DEF QueryEvents
  <2>2. rest \in Seq(S) /\ Len(rest) = n - offset /\ \A i \in 1..(n - offset) : rest[i] = order[offset + i]
    <3>1. CASE offset = 0
      BY <1>1, <3>1
    <3>2. CASE offset # 0
      <4>1. rest = SubSeq(order, offset + 1, n)
        BY <1>1, <1>4, <3>2
      <4> QED BY <1>1, <1>4, <3>2, <4>1
    <3> QED BY <3>1, <3>2
  <2> HIDE DEF rest
  <2>3. CASE limit < n - offset
    <3>1. QueryEvents(q, offset, limit) = SubSeq(rest, 1, limit)
      BY <2>1, <2>2, <2>3
    <3>2. SubSeq(rest, 1, limit) \in Seq(S) /\ Len(SubSeq(rest, 1, limit)) = limit
      BY <2>2, <2>3
    <3>3. \A i \in 1..limit : SubSeq(rest, 1, limit)[i] = rest[i]
      BY <2>2, <2>3
    <3> QED BY <2>2, <2>3, <3>1, <3>2, <3>3 DEF Shorter, Piece
  <2>4. CASE ~(limit < n - offset)
    BY <2>1, <2>2, <2>4 DEF Shorter, Piece
  <2> QED BY <2>3, <2>4
<1> QED BY <1>2, <1>3, <1>4

LEMMA PiecesJoin ==
  ASSUME NEW S, NEW one \in Seq(S), NEW two \in Seq(S), NEW order, NEW m \in Nat, NEW k \in Nat,
         Piece(one, m, order, 0), Piece(two, k, order, m)
  PROVE  one \o two \in Seq(S) /\ Piece(one \o two, m + k, order, 0)
<1>1. one \o two \in Seq(S) /\ Len(one \o two) = m + k
  BY DEF Piece
<1>2. ASSUME NEW i \in 1..(m + k) PROVE (one \o two)[i] = order[0 + i]
  <2>1. CASE i <= m
    BY <2>1 DEF Piece
  <2>2. CASE ~(i <= m)
    <3>1. i - m \in 1..k /\ m + (i - m) = i
      BY <2>2
    <3>2. (one \o two)[i] = two[i - m]
      BY <2>2, <3>1 DEF Piece
    <3> QED BY <3>1, <3>2 DEF Piece
  <2> QED BY <2>1, <2>2
<1> QED BY <1>1, <1>2 DEF Piece

\* What the first k pages have together.
LEMMA FirstPages ==
  ASSUME NEW q, NEW S, NEW n \in 0..MaxEvents, NEW order \in [1..n -> S], NewestFirst(Matching(q)) = order,
         NEW limit \in 1..2
  PROVE  \A k \in 0..MaxEvents : k = 0 \/ (k - 1) * limit < n =>
           /\ Paged(q, limit)[k] \in Seq(S)
           /\ Piece(Paged(q, limit)[k], Shorter(k * limit, n), order, 0)
<1> DEFINE Told(k) == /\ Paged(q, limit)[k] \in Seq(S)
                      /\ Piece(Paged(q, limit)[k], Shorter(k * limit, n), order, 0)
           untold == {k \in 0..MaxEvents : (k = 0 \/ (k - 1) * limit < n) /\ ~Told(k)}
<1>0. n \in Nat /\ limit \in Nat \ {0} /\ MaxEvents \in Nat
  BY AuditAssumption
<1> HIDE DEF Told
<1> SUFFICES ASSUME untold # {} PROVE FALSE
  BY DEF Told
<1>1. PICK k \in untold : \A o \in untold : k <= o
  <2>1. untold \in SUBSET Nat
    BY <1>0
  <2> HIDE DEF untold
  <2> QED BY <2>1, LeastNatural
<1>2. k \in 0..MaxEvents /\ k \in Nat
  BY <1>0
<1>3. Paged(q, limit)[k] = IF k = 0 THEN <<>> ELSE Paged(q, limit)[k - 1] \o QueryEvents(q, (k - 1) * limit, limit)
  <2> DEFINE f == Paged(q, limit)
  <2>1. f = [j \in 0..MaxEvents |-> IF j = 0 THEN <<>> ELSE f[j - 1] \o QueryEvents(q, (j - 1) * limit, limit)]
    BY PagedUnfolds, Zenon
  <2> HIDE DEF f
  <2>2. f[k] = IF k = 0 THEN <<>> ELSE f[k - 1] \o QueryEvents(q, (k - 1) * limit, limit)
    BY <1>2, <2>1, Zenon
  <2> QED BY <2>2 DEF f
<1>4. CASE k = 0
  <2>1. Shorter(k * limit, n) = 0
    BY <1>0, <1>4 DEF Shorter
  <2>2. Told(k)
    BY <1>3, <1>4, <2>1 DEF Told, Piece
  <2> QED BY <2>2
<1>5. CASE k # 0
  <2> DEFINE done == (k - 1) * limit
             more == Shorter(limit, n - done)
  <2>1. /\ k - 1 \in 0..MaxEvents /\ done \in Nat /\ done < n
        /\ k - 1 = 0 \/ (k - 1 - 1) * limit < n
        /\ k * limit = done + limit
    <3>1. CASE limit = 1
      BY <1>0, <1>1, <1>2, <1>5, <3>1
    <3>2. CASE limit = 2
      BY <1>0, <1>1, <1>2, <1>5, <3>2
    <3> QED BY <3>1, <3>2
  <2>2. Told(k - 1)
    BY <1>0, <1>1, <1>2, <1>5, <2>1
  <2> DEFINE one == Paged(q, limit)[k - 1]
             two == QueryEvents(q, done, limit)
  <2>3. Paged(q, limit)[k] = one \o two
    BY <1>3, <1>5, Zenon
  <2>4. one \in Seq(S) /\ Piece(one, done, order, 0)
    <3>1. Shorter((k - 1) * limit, n) = done
      BY <1>0, <2>1 DEF Shorter
    <3> QED BY <2>2, <3>1, Zenon DEF Told
  <2> HIDE DEF done
  <2>5. two \in Seq(S) /\ Piece(two, more, order, done)
    BY <1>0, <2>1, OnePage
  <2>6. more \in Nat /\ done + more <= n /\ Shorter(k * limit, n) = done + more
    BY <1>0, <2>1 DEF Shorter
  <2> HIDE DEF more, one, two
  <2>7. one \o two \in Seq(S) /\ Piece(one \o two, done + more, order, 0)
    BY <2>1, <2>4, <2>5, <2>6, PiecesJoin
  <2>8. Told(k)
    BY <2>3, <2>6, <2>7 DEF Told
  <2> QED BY <2>8
<1> QED BY <1>4, <1>5

\* Page by page a reader sees what a query without limit finds.
LEMMA PagesAdd ==
  ASSUME AuditTypeOK, IsFiniteSet(trail), Apart(trail), Cardinality(trail) <= MaxEvents
  PROVE  PagesPartition
<1> SUFFICES ASSUME NEW issue \in AuditedIssues \cup {AnyIssue}, NEW ok \in {{}, {TRUE}}, NEW limit \in 1..2
    PROVE LET q == [issue |-> issue, ok |-> ok]
              all == QueryEvents(q, 0, 0)
              pages == IF Len(all) = 0 THEN 0 ELSE (Len(all) - 1) \div limit + 1
          IN /\ Paged(q, limit)[pages] = all
             /\ \A i, j \in DOMAIN all : i < j => all[i].stamp >= all[j].stamp /\ all[i].serial # all[j].serial
             /\ \A k \in pages..MaxEvents : k > 0 /\ pages > 0 =>
                  QueryEvents(q, k * limit, limit) = QueryEvents(q, 0, limit)
  BY DEF PagesPartition
<1> DEFINE q == [issue |-> issue, ok |-> ok]
           matches == Matching(q)
           order == NewestFirst(matches)
           n == Cardinality(matches)
           all == QueryEvents(q, 0, 0)
           pages == IF Len(all) = 0 THEN 0 ELSE (Len(all) - 1) \div limit + 1
<1>1. matches \in SUBSET trail /\ trail \in SUBSET AuditEvents
  BY DEF Matching, AuditTypeOK, AuditEvents
<1>2. n \in Nat /\ n <= Cardinality(trail) /\ Cardinality(trail) \in Nat
  BY <1>1, FS_Subset, FS_CardinalityType
<1>3. n \in 0..MaxEvents /\ limit \in Nat \ {0} /\ MaxEvents \in Nat
  BY <1>2, AuditAssumption
<1> HIDE DEF q, matches
<1>4. /\ order \in [1..n -> matches]
      /\ \A i, j \in 1..n : i < j => order[i].stamp >= order[j].stamp /\ order[i].serial # order[j].serial
  BY <1>1, NewestFirstOrders
<1> HIDE DEF order, n
<1>5. NewestFirst(Matching(q)) = order
  BY DEF order, matches
<1>6. all = order
  BY <1>5 DEF QueryEvents
<1> HIDE DEF all
<1>7. Len(all) = n /\ DOMAIN all = 1..n
  BY <1>3, <1>4, <1>6
<1>8. /\ pages \in 0..MaxEvents /\ pages * limit >= n /\ (n = 0 <=> pages = 0)
      /\ pages = 0 \/ (pages - 1) * limit < n
      /\ \A k \in pages..MaxEvents : k * limit >= n /\ k * limit \in Nat
  <2>1. CASE limit = 1
    BY <1>3, <1>7, <2>1
  <2>2. CASE limit = 2
    BY <1>3, <1>7, <2>2
  <2> QED BY <2>1, <2>2
<1> HIDE DEF pages
<1>9. Paged(q, limit)[pages] \in Seq(matches) /\ Piece(Paged(q, limit)[pages], n, order, 0)
  <2>1. Shorter(pages * limit, n) = n
    BY <1>3, <1>8 DEF Shorter
  <2>2. order \in [1..n -> matches]
    BY <1>4
  <2>3. \A k \in 0..MaxEvents : k = 0 \/ (k - 1) * limit < n =>
           /\ Paged(q, limit)[k] \in Seq(matches)
           /\ Piece(Paged(q, limit)[k], Shorter(k * limit, n), order, 0)
    BY <1>3, <1>5, <2>2, FirstPages
  <2>4. Paged(q, limit)[pages] \in Seq(matches) /\ Piece(Paged(q, limit)[pages], Shorter(pages * limit, n), order, 0)
    BY <1>8, <2>3
  <2> QED BY <2>1, <2>4, Zenon
<1>10. Paged(q, limit)[pages] = all
  <2> DEFINE joined == Paged(q, limit)[pages]
  <2>1. joined \in Seq(matches) /\ Len(joined) = n /\ \A i \in 1..n : joined[i] = order[0 + i]
    BY <1>9, Zenon DEF Piece
  <2> HIDE DEF joined
  <2>2. joined \in [1..n -> matches] /\ \A i \in 1..n : joined[i] = order[i]
    BY <1>3, <2>1
  <2>3. joined = order
    <3>1. order \in [1..n -> matches]
      BY <1>4
    <3>2. joined = [i \in 1..n |-> joined[i]] /\ order = [i \in 1..n |-> order[i]]
      BY <2>2, <3>1
    <3> QED BY <2>2, <3>2, Zenon
  <2> QED BY <1>6, <2>3 DEF joined
<1>11. \A i, j \in DOMAIN all : i < j => all[i].stamp >= all[j].stamp /\ all[i].serial # all[j].serial
  BY <1>4, <1>6, <1>7
<1>12. ASSUME NEW k \in pages..MaxEvents PROVE QueryEvents(q, k * limit, limit) = QueryEvents(q, 0, limit)
  <2> DEFINE offset == k * limit
  <2>1. offset \in Nat /\ offset >= n
    BY <1>8
  <2> HIDE DEF offset
  <2>2. QueryEvents(q, offset, limit) = QueryEvents(q, 0, limit)
    <3>1. n \in Nat /\ limit \in Nat \ {0} /\ order \in [1..n -> matches]
      BY <1>3, <1>4
    <3> QED BY <1>5, <2>1, <3>1, OnePage
  <2> QED BY <2>2 DEF offset
<1> QED BY <1>10, <1>11, <1>12 DEF q, all, pages

\* A rollback undoes what a query would have shown, the last first.
LEMMA RollbackAgrees ==
  ASSUME AuditTypeOK, IsFiniteSet(trail), Apart(trail)
  PROVE  RollbackShown
<1> SUFFICES ASSUME NEW issue \in AuditedIssues \cup {AnyIssue}, NEW to \in 0..LastTime
    PROVE LET plan == AffectedEvents(issue, to)
              shown == QueryEvents([issue |-> issue, ok |-> {TRUE}], 0, 0)
          IN /\ {plan[i].serial : i \in DOMAIN plan} =
                  {shown[i].serial : i \in {j \in DOMAIN shown : shown[j].stamp > to /\ shown[j].type = "sync"}}
             /\ \A i, j \in DOMAIN plan : i < j => plan[i].stamp >= plan[j].stamp /\ plan[i].serial # plan[j].serial
  BY DEF RollbackShown
<1> DEFINE q == [issue |-> issue, ok |-> {TRUE}]
           matches == Matching(q)
           undone == {e \in trail : /\ e.stamp > to
                                    /\ issue = AnyIssue \/ e.issue = issue
                                    /\ e.ok /\ e.type = "sync"}
           plan == AffectedEvents(issue, to)
           shown == QueryEvents(q, 0, 0)
<1>1. trail \in SUBSET AuditEvents /\ matches \in SUBSET trail /\ undone \in SUBSET trail
  BY DEF Matching, AuditTypeOK, AuditEvents
<1>2. plan = NewestFirst(undone)
  BY DEF AffectedEvents
<1>3. shown = NewestFirst(matches)
  BY DEF QueryEvents
<1>4. undone = {e \in matches : e.stamp > to /\ e.type = "sync"}
  BY <1>1 DEF Matching, AuditEvents
<1> HIDE DEF q, matches, undone, plan, shown
<1>5. /\ plan \in [1..Cardinality(undone) -> undone]
      /\ \A i, j \in 1..Cardinality(undone) : i < j => plan[i].stamp >= plan[j].stamp /\ plan[i].serial # plan[j].serial
      /\ \A e \in undone : \E i \in 1..Cardinality(undone) : plan[i] = e
  BY <1>1, <1>2, NewestFirstOrders
<1>6. /\ shown \in [1..Cardinality(matches) -> matches]
      /\ \A e \in matches : \E i \in 1..Cardinality(matches) : shown[i] = e
  BY <1>1, <1>3, NewestFirstOrders
<1>7. DOMAIN plan = 1..Cardinality(undone) /\ DOMAIN shown = 1..Cardinality(matches)
  BY <1>5, <1>6
<1>8. {plan[i].serial : i \in DOMAIN plan} = {e.serial : e \in undone}
  BY <1>5, <1>7
<1>9. {shown[i].serial : i \in {j \in DOMAIN shown : shown[j].stamp > to /\ shown[j].type = "sync"}}
        = {e.serial : e \in undone}
  BY <1>4, <1>6, <1>7
<1>10. \A i, j \in DOMAIN plan : i < j => plan[i].stamp >= plan[j].stamp /\ plan[i].serial # plan[j].serial
  BY <1>5, <1>7
<1> QED BY <1>8, <1>9, <1>10, Zenon DEF plan, shown, q

LEMMA QueriesTell == AuditInv => QueriesAgree
BY PagesAdd, RollbackAgrees DEF AuditInv, AuditIndexed, QueriesAgree

-----------------------------------------------------------------------------
(* Two levels of cache                                                     *)

OpType == [pc : {"idle", "hit1", "second", "hit2", "set2", "delete2", "clear2"},
           key : CacheKeys, clean : BOOLEAN]

\* A level that keeps its limit.
Sound(l, lv) ==
  /\ lv = [data |-> lv.data, size |-> lv.size]
  /\ lv.data \subseteq CacheKeys /\ lv.size \in Nat
  /\ IsFiniteSet(lv.data)
  /\ Cardinality(lv.data) <= lv.size /\ lv.size <= LevelSize[l]

LevelsSound == DOMAIN level = 1..2 /\ level = [l \in 1..2 |-> level[l]] /\ \A l \in 1..2 : Sound(l, level[l])

\* k is deleted from L1, and no Set of it has begun since.
Deleting(k) == \E u \in CacheUsers : cacheOp[u].pc = "delete2" /\ cacheOp[u].key = k /\ cacheOp[u].clean

\* From the deletion in L1 on, until a Set of the key, nobody is about to set
\* it in L2, and in L1 it is only where it was put back.
StaysGone(k) ==
  /\ k \in gone \/ Deleting(k) => ~Setting(k) /\ (k \in level[1].data => k \in revived)
  /\ k \in gone => k \notin level[2].data

LayeredInv ==
  /\ LevelsSound
  /\ cacheOp \in [CacheUsers -> OpType] /\ gone \subseteq CacheKeys /\ revived \subseteq CacheKeys
  /\ \A k \in CacheKeys : StaysGone(k)

LEMMA NoOpIsOp == NoOp \in OpType /\ NoOp.pc = "idle" /\ ~NoOp.clean
<1>1. (CHOOSE k \in CacheKeys : TRUE) \in CacheKeys
  BY LayeredAssumption
<1> QED BY <1>1 DEF NoOp, OpType

\* A level is replaced by a sound one.
LEMMA Replaced ==
  ASSUME LevelsSound, NEW l \in 1..2, NEW lv, Sound(l, lv), level' = [level EXCEPT ![l] = lv]
  PROVE  LevelsSound' /\ level'[l] = lv /\ \A m \in 1..2 : m # l => level'[m] = level[m]
BY DEF LevelsSound, Sound

LEMMA StoredSound ==
  ASSUME NEW l \in 1..2, NEW data \in SUBSET CacheKeys, IsFiniteSet(data), Cardinality(data) <= LevelSize[l]
  PROVE  Sound(l, Stored(data)) /\ Stored(data).data = data
BY FS_CardinalityType DEF Sound, Stored

\* Set in one level: it has the key afterwards, no other key more, and as
\* many entries as before at the limit.
LEMMA PutEffect ==
  ASSUME LevelsSound, NEW l \in 1..2, NEW k \in CacheKeys, Put(l, k)
  PROVE  /\ LevelsSound' /\ level'[l].data \subseteq level[l].data \cup {k}
         /\ \A m \in 1..2 : m # l => level'[m] = level[m]
<1> DEFINE D == level[l].data
<1>1. /\ D \subseteq CacheKeys /\ IsFiniteSet(D) /\ Cardinality(D) \in Nat
      /\ Cardinality(D) <= LevelSize[l] /\ LevelSize[l] \in Nat \ {0}
  BY FS_CardinalityType, LayeredAssumption DEF LevelsSound, Sound
<1>2. CASE Cardinality(D) >= LevelSize[l]
  <2>1. PICK victim \in D : level' = [level EXCEPT ![l] = Stored((@.data \ {victim}) \cup {k})]
    BY <1>2 DEF Put
  <2> DEFINE E == (D \ {victim}) \cup {k}
  <2>2. IsFiniteSet(D \ {victim}) /\ Cardinality(D \ {victim}) = Cardinality(D) - 1
    BY <1>1, FS_RemoveElement
  <2>3. IsFiniteSet(E) /\ Cardinality(E) <= Cardinality(D)
    <3> HIDE DEF D
    <3> DEFINE F == D \ {victim}
    <3>1. IsFiniteSet(F) /\ Cardinality(F) = Cardinality(D) - 1
      BY <2>2
    <3> HIDE DEF F
    <3>2. /\ IsFiniteSet(F \cup {k})
          /\ Cardinality(F \cup {k}) \in {Cardinality(F), Cardinality(F) + 1}
      BY <3>1, FS_AddElement
    <3>3. IsFiniteSet(F \cup {k}) /\ Cardinality(F \cup {k}) <= Cardinality(D)
      BY <1>1, <3>1, <3>2
    <3> QED BY <3>3 DEF F
  <2>4. Sound(l, Stored(E)) /\ Stored(E).data = E
    <3>1. E \in SUBSET CacheKeys /\ Cardinality(E) <= LevelSize[l]
      <4>1. Cardinality(E) \in Nat
        BY <2>3, FS_CardinalityType
      <4>2. E \in SUBSET CacheKeys
        BY <1>1
      <4> HIDE DEF D, E
      <4> QED BY <1>1, <2>3, <4>1, <4>2
    <3> HIDE DEF E
    <3> QED BY <2>3, <3>1, StoredSound
  <2>5. level' = [level EXCEPT ![l] = Stored(E)]
    BY <2>1 DEF LevelsSound
  <2> HIDE DEF E
  <2>6. LevelsSound' /\ level'[l] = Stored(E) /\ \A m \in 1..2 : m # l => level'[m] = level[m]
    BY <2>4, <2>5, Replaced
  <2> QED BY <2>4, <2>6 DEF E
<1>3. CASE ~(Cardinality(D) >= LevelSize[l])
  <2> DEFINE E == D \cup {k}
  <2>1. level' = [level EXCEPT ![l] = Stored(E)]
    BY <1>3 DEF Put, LevelsSound
  <2>2. IsFiniteSet(E) /\ Cardinality(E) <= LevelSize[l]
    BY <1>1, <1>3, FS_AddElement
  <2>3. Sound(l, Stored(E)) /\ Stored(E).data = E
    BY <1>1, <2>2, StoredSound
  <2> HIDE DEF E
  <2>4. LevelsSound' /\ level'[l] = Stored(E) /\ \A m \in 1..2 : m # l => level'[m] = level[m]
    BY <2>1, <2>3, Replaced
  <2> QED BY <2>3, <2>4 DEF E
<1> QED BY <1>2, <1>3

\* A level that loses entries keeps its limit, whether or not its size is
\* brought up to date.
LEMMA LessEffect ==
  ASSUME LevelsSound, NEW l \in 1..2, NEW data \in SUBSET level[l].data,
         level' \in {[level EXCEPT ![l] = Stored(data)], [level EXCEPT ![l].data = data]}
  PROVE  /\ LevelsSound' /\ level'[l].data = data
         /\ \A m \in 1..2 : m # l => level'[m] = level[m]
<1> DEFINE D == level[l].data
           lv == [data |-> data, size |-> level[l].size]
<1>1. /\ D \subseteq CacheKeys /\ IsFiniteSet(D) /\ Cardinality(D) \in Nat /\ level[l].size \in Nat
      /\ Cardinality(D) <= level[l].size /\ level[l].size <= LevelSize[l] /\ LevelSize[l] \in Nat
      /\ level[l] = [data |-> D, size |-> level[l].size]
  BY FS_CardinalityType, LayeredAssumption DEF LevelsSound, Sound
<1>2. IsFiniteSet(data) /\ Cardinality(data) <= Cardinality(D) /\ Cardinality(data) \in Nat
  BY <1>1, FS_Subset, FS_CardinalityType
<1>3. Sound(l, Stored(data)) /\ Stored(data).data = data
  BY <1>1, <1>2, StoredSound
<1>4. Sound(l, lv) /\ lv.data = data
  BY <1>1, <1>2 DEF Sound
<1>5. CASE level' = [level EXCEPT ![l] = Stored(data)]
  BY <1>3, <1>5, Replaced
<1>6. CASE level' = [level EXCEPT ![l].data = data]
  <2>1. [level[l] EXCEPT !.data = data] = lv
    BY <1>1
  <2>2. level' = [level EXCEPT ![l] = lv]
    BY <1>6, <2>1 DEF LevelsSound
  <2> QED BY <1>4, <2>2, Replaced
<1> QED BY <1>5, <1>6

LEMMA LayeredInvInit == LayeredInit => LayeredInv
<1> SUFFICES ASSUME LayeredInit PROVE LayeredInv
  OBVIOUS
<1>1. LevelsSound
  BY FS_EmptySet, LayeredAssumption DEF LayeredInit, LevelsSound, Sound
<1>2. cacheOp \in [CacheUsers -> OpType] /\ \A u \in CacheUsers : cacheOp[u].pc = "idle"
  BY NoOpIsOp DEF LayeredInit
<1> QED BY <1>1, <1>2 DEF LayeredInit, LayeredInv, StaysGone, Deleting

\* A goroutine goes on with neither a Set nor a Delete, and no level gains.
LEMMA NothingGained ==
  ASSUME LayeredInv, LevelsSound', \A l \in 1..2 : level'[l].data \subseteq level[l].data,
         gone' = gone, revived' = revived, NEW u \in CacheUsers, NEW op \in OpType,
         cacheOp' = [cacheOp EXCEPT ![u] = op], op.pc \notin {"set2", "delete2"}
  PROVE  LayeredInv'
<1>1. cacheOp' \in [CacheUsers -> OpType]
  BY DEF LayeredInv
<1>2. ASSUME NEW k \in CacheKeys PROVE StaysGone(k)'
  <2>1. Setting(k)' => Setting(k)
    BY DEF LayeredInv, Setting
  <2>2. Deleting(k)' => Deleting(k)
    BY DEF LayeredInv, Deleting
  <2>3. StaysGone(k)
    BY DEF LayeredInv
  <2> QED BY <2>1, <2>2, <2>3 DEF StaysGone
<1> QED BY <1>1, <1>2 DEF LayeredInv

LEMMA GetKeeps ==
  ASSUME LayeredInv, NEW u \in CacheUsers, NEW l \in 1..2, NEW k \in CacheKeys,
         LookUp(u, l, k) \/ Expire(u, l) \/ ServeFirst(u)
  PROVE  LayeredInv'
<1>0. LevelsSound /\ cacheOp \in [CacheUsers -> OpType] /\ cacheOp[u] \in OpType
  BY DEF LayeredInv
<1>1. CASE LookUp(u, l, k)
  <2>1. \E op \in OpType : cacheOp' = [cacheOp EXCEPT ![u] = op] /\ op.pc \notin {"set2", "delete2"}
    <3>1. CASE k \in level[l].data
      <4> DEFINE p == IF l = 1 THEN "hit1" ELSE "hit2"
                 op == [NoOp EXCEPT !.pc = p, !.key = k]
      <4>1. op \in OpType /\ op.pc = p /\ p \in {"hit1", "hit2"}
        BY NoOpIsOp DEF OpType
      <4>2. cacheOp' = [cacheOp EXCEPT ![u] = op]
        BY <1>1, <3>1 DEF LookUp
      <4> HIDE DEF op
      <4> QED BY <4>1, <4>2
    <3>2. CASE k \notin level[l].data /\ l = 1
      <4> DEFINE op == [NoOp EXCEPT !.pc = "second", !.key = k]
      <4>1. op \in OpType /\ op.pc = "second"
        BY NoOpIsOp DEF OpType
      <4>2. cacheOp' = [cacheOp EXCEPT ![u] = op]
        BY <1>1, <3>2 DEF LookUp
      <4> HIDE DEF op
      <4> QED BY <4>1, <4>2
    <3>3. CASE k \notin level[l].data /\ l = 2
      <4>1. cacheOp' = [cacheOp EXCEPT ![u] = NoOp]
        BY <1>1, <3>3 DEF LookUp
      <4> QED BY <4>1, NoOpIsOp
    <3> QED BY <3>1, <3>2, <3>3
  <2>2. LevelsSound' /\ \A m \in 1..2 : level'[m].data \subseteq level[m].data
    BY <1>0, <1>1 DEF LookUp, LevelsSound, Sound
  <2>3. gone' = gone /\ revived' = revived
    BY <1>1 DEF LookUp
  <2> QED BY <2>1, <2>2, <2>3, NothingGained
<1>2. CASE Expire(u, l)
  <2>1. \E op \in OpType : cacheOp' = [cacheOp EXCEPT ![u] = op] /\ op.pc \notin {"set2", "delete2"}
    <3>1. CASE l = 1
      <4> DEFINE op == [cacheOp[u] EXCEPT !.pc = "second"]
      <4>1. op \in OpType /\ op.pc = "second"
        BY <1>0 DEF OpType
      <4>2. cacheOp' = [cacheOp EXCEPT ![u] = op]
        BY <1>0, <1>2, <3>1 DEF Expire, Goes
      <4> HIDE DEF op
      <4> QED BY <4>1, <4>2
    <3>2. CASE l # 1
      BY <1>2, <3>2, NoOpIsOp DEF Expire, Ends
    <3> QED BY <3>1, <3>2
  <2>2. PICK data \in SUBSET level[l].data : level' = [level EXCEPT ![l].data = data]
    <3>1. level' = [level EXCEPT ![l].data = level[l].data \ {cacheOp[u].key}]
      BY <1>2 DEF Expire
    <3> QED BY <3>1
  <2>3. LevelsSound' /\ level'[l].data = data /\ \A m \in 1..2 : m # l => level'[m] = level[m]
    BY <1>0, <2>2, LessEffect
  <2>4. gone' = gone /\ revived' = revived
    BY <1>2 DEF Expire
  <2> QED BY <2>1, <2>3, <2>4, NothingGained
<1>3. CASE ServeFirst(u)
  <2>1. /\ cacheOp' = [cacheOp EXCEPT ![u] = NoOp] /\ gone' = gone /\ revived' = revived
        /\ LevelsSound' /\ \A m \in 1..2 : level'[m].data \subseteq level[m].data
    BY <1>0, <1>3 DEF ServeFirst, Ends, LevelsSound, Sound
  <2> QED BY <2>1, NoOpIsOp, NothingGained
<1> QED BY <1>1, <1>2, <1>3

LEMMA ClearKeeps ==
  ASSUME LayeredInv, NEW u \in CacheUsers, ClearFirst(u) \/ ClearSecond(u)
  PROVE  LayeredInv'
<1>0. /\ LevelsSound /\ cacheOp \in [CacheUsers -> OpType] /\ cacheOp[u] \in OpType
      /\ gone' = gone /\ revived' = revived
  BY DEF LayeredInv, ClearFirst, ClearSecond
<1>1. \E l \in 1..2 : level' = [level EXCEPT ![l] = Stored({})]
  BY DEF ClearFirst, ClearSecond
<1>2. LevelsSound' /\ \A m \in 1..2 : level'[m].data \subseteq level[m].data
  <2>1. PICK l \in 1..2 : level' = [level EXCEPT ![l] = Stored({})]
    BY <1>1
  <2>2. {} \in SUBSET level[l].data
    OBVIOUS
  <2>3. /\ LevelsSound' /\ level'[l].data = {}
        /\ \A m \in 1..2 : m # l => level'[m] = level[m]
    BY <1>0, <2>1, <2>2, LessEffect
  <2> QED BY <2>3
<1>3. CASE ClearFirst(u)
  <2> DEFINE op == [cacheOp[u] EXCEPT !.pc = "clear2"]
  <2>1. op \in OpType /\ op.pc = "clear2"
    BY <1>0 DEF OpType
  <2>2. cacheOp' = [cacheOp EXCEPT ![u] = op]
    BY <1>0, <1>3 DEF ClearFirst, Goes
  <2> HIDE DEF op
  <2> QED BY <1>0, <1>2, <2>1, <2>2, NothingGained
<1>4. CASE ClearSecond(u)
  BY <1>0, <1>2, <1>4, NoOpIsOp, NothingGained DEF ClearSecond, Ends
<1> QED BY <1>3, <1>4

\* The look-up that began before a deletion: the history marks its key.
LEMMA PromoteKeeps == ASSUME LayeredInv, NEW u \in CacheUsers, Promote(u) PROVE LayeredInv'
<1> DEFINE p == cacheOp[u].key
<1>0. /\ LevelsSound /\ cacheOp \in [CacheUsers -> OpType] /\ p \in CacheKeys
      /\ gone \subseteq CacheKeys /\ revived \subseteq CacheKeys
  BY DEF LayeredInv, OpType
<1>1. /\ Put(1, p) /\ gone' = gone /\ cacheOp' = [cacheOp EXCEPT ![u] = NoOp]
      /\ revived' = IF p \in gone \/ HalfDeleted(p) THEN revived \cup {p} ELSE revived
  BY DEF Promote, Ends
<1>2. /\ LevelsSound' /\ level'[1].data \subseteq level[1].data \cup {p}
      /\ level'[2] = level[2]
  BY <1>0, <1>1, PutEffect
<1> HIDE DEF p
<1>3. ASSUME NEW k \in CacheKeys PROVE StaysGone(k)'
  <2>1. Setting(k)' => Setting(k)
    BY <1>0, <1>1, NoOpIsOp DEF Setting
  <2>2. Deleting(k)' => Deleting(k)
    BY <1>0, <1>1, NoOpIsOp DEF Deleting
  <2>3. Deleting(k) => HalfDeleted(k)
    BY DEF Deleting, HalfDeleted
  <2>4. StaysGone(k)
    BY DEF LayeredInv
  <2> QED BY <1>1, <1>2, <2>1, <2>2, <2>3, <2>4 DEF StaysGone
<1>4. cacheOp' \in [CacheUsers -> OpType] /\ gone' \subseteq CacheKeys /\ revived' \subseteq CacheKeys
  BY <1>0, <1>1, NoOpIsOp
<1> QED BY <1>2, <1>3, <1>4 DEF LayeredInv

LEMMA SetKeeps ==
  ASSUME LayeredInv, NEW u \in CacheUsers, NEW p \in CacheKeys, SetFirst(u, p)
  PROVE  LayeredInv'
<1> DEFINE op == [NoOp EXCEPT !.pc = "set2", !.key = p]
<1>0. LevelsSound /\ cacheOp \in [CacheUsers -> OpType] /\ gone \subseteq CacheKeys /\ revived \subseteq CacheKeys
  BY DEF LayeredInv
<1>1. op \in OpType /\ op.pc = "set2" /\ op.key = p
  BY NoOpIsOp DEF OpType
<1>2. /\ Put(1, p) /\ gone' = gone \ {p} /\ revived' = revived \ {p}
      /\ cacheOp' = [v \in CacheUsers |->
           IF v = u THEN op
           ELSE IF cacheOp[v].key = p THEN [cacheOp[v] EXCEPT !.clean = FALSE] ELSE cacheOp[v]]
  BY DEF SetFirst
<1> HIDE DEF op
<1>3. /\ LevelsSound' /\ level'[1].data \subseteq level[1].data \cup {p}
      /\ level'[2] = level[2]
  BY <1>0, <1>2, PutEffect
<1>4. ASSUME NEW v \in CacheUsers
      PROVE  /\ cacheOp'[v] \in OpType
             /\ v # u => /\ cacheOp'[v].pc = cacheOp[v].pc /\ cacheOp'[v].key = cacheOp[v].key
                         /\ cacheOp'[v].clean => cacheOp[v].clean /\ cacheOp[v].key # p
  <2>1. CASE v = u
    BY <1>1, <1>2, <2>1
  <2>2. CASE v # u /\ cacheOp[v].key = p
    <3>1. cacheOp'[v] = [cacheOp[v] EXCEPT !.clean = FALSE] /\ cacheOp[v] \in OpType
      BY <1>0, <1>2, <2>2
    <3> QED BY <3>1, <2>2 DEF OpType
  <2>3. CASE v # u /\ cacheOp[v].key # p
    BY <1>0, <1>2, <2>3
  <2> QED BY <2>1, <2>2, <2>3
<1>5. ASSUME NEW k \in CacheKeys PROVE StaysGone(k)'
  <2>1. Deleting(k)' => Deleting(k) /\ k # p
    BY <1>1, <1>2, <1>4 DEF Deleting
  <2>2. k # p /\ Setting(k)' => Setting(k)
    BY <1>1, <1>2, <1>4 DEF Setting
  <2>3. StaysGone(k)
    BY DEF LayeredInv
  <2> QED BY <1>2, <1>3, <2>1, <2>2, <2>3 DEF StaysGone
<1>6. cacheOp' \in [CacheUsers -> OpType] /\ gone' \subseteq CacheKeys /\ revived' \subseteq CacheKeys
  BY <1>0, <1>2, <1>4
<1> QED BY <1>3, <1>5, <1>6 DEF LayeredInv

LEMMA SetSecondKeeps == ASSUME LayeredInv, NEW u \in CacheUsers, SetSecond(u) PROVE LayeredInv'
<1> DEFINE p == cacheOp[u].key
<1>0. /\ LevelsSound /\ cacheOp \in [CacheUsers -> OpType] /\ p \in CacheKeys
      /\ gone \subseteq CacheKeys /\ revived \subseteq CacheKeys
  BY DEF LayeredInv, OpType
<1>1. /\ Put(2, p) /\ gone' = gone /\ revived' = revived /\ cacheOp' = [cacheOp EXCEPT ![u] = NoOp]
      /\ Setting(p)
  BY DEF SetSecond, Ends, Setting
<1>2. /\ LevelsSound' /\ level'[2].data \subseteq level[2].data \cup {p}
      /\ level'[1] = level[1]
  BY <1>0, <1>1, PutEffect
<1> HIDE DEF p
<1>3. ASSUME NEW k \in CacheKeys PROVE StaysGone(k)'
  <2>1. Setting(k)' => Setting(k)
    BY <1>0, <1>1, NoOpIsOp DEF Setting
  <2>2. Deleting(k)' => Deleting(k)
    BY <1>0, <1>1, NoOpIsOp DEF Deleting
  <2>3. StaysGone(k)
    BY DEF LayeredInv
  <2> QED BY <1>1, <1>2, <2>1, <2>2, <2>3 DEF StaysGone
<1>4. cacheOp' \in [CacheUsers -> OpType] /\ gone' \subseteq CacheKeys /\ revived' \subseteq CacheKeys
  BY <1>0, <1>1, NoOpIsOp
<1> QED BY <1>2, <1>3, <1>4 DEF LayeredInv

LEMMA RemoveEffect ==
  ASSUME LevelsSound, NEW l \in 1..2, NEW k \in CacheKeys, Remove(l, k)
  PROVE  /\ LevelsSound' /\ level'[l].data = level[l].data \ {k}
         /\ \A m \in 1..2 : m # l => level'[m] = level[m]
<1>1. CASE k \in level[l].data
  <2>1. level' = [level EXCEPT ![l] = Stored(level[l].data \ {k})]
    BY <1>1 DEF Remove
  <2> DEFINE data == level[l].data \ {k}
  <2>2. data \in SUBSET level[l].data /\ level' = [level EXCEPT ![l] = Stored(data)]
    BY <2>1
  <2> HIDE DEF data
  <2>3. /\ LevelsSound' /\ level'[l].data = data
        /\ \A m \in 1..2 : m # l => level'[m] = level[m]
    BY <2>2, LessEffect
  <2> QED BY <2>3 DEF data
<1>2. CASE k \notin level[l].data
  BY <1>2 DEF Remove, LevelsSound, Sound
<1> QED BY <1>1, <1>2

LEMMA DeleteKeeps ==
  ASSUME LayeredInv, NEW u \in CacheUsers, NEW p \in CacheKeys, DeleteFirst(u, p)
  PROVE  LayeredInv'
<1> DEFINE op == [pc |-> "delete2", key |-> p, clean |-> ~Setting(p)]
<1>0. LevelsSound /\ cacheOp \in [CacheUsers -> OpType] /\ gone \subseteq CacheKeys /\ revived \subseteq CacheKeys
  BY DEF LayeredInv
<1>1. op \in OpType /\ op.pc = "delete2" /\ op.key = p /\ (op.clean <=> ~Setting(p))
  BY DEF OpType
<1>2. /\ Remove(1, p) /\ gone' = gone /\ revived' = revived \ {p}
      /\ cacheOp' = [cacheOp EXCEPT ![u] = op]
  BY DEF DeleteFirst
<1> HIDE DEF op
<1>3. LevelsSound' /\ level'[1].data = level[1].data \ {p} /\ level'[2] = level[2]
  BY <1>0, <1>2, RemoveEffect
<1>4. ASSUME NEW k \in CacheKeys PROVE StaysGone(k)'
  <2>1. Setting(k)' => Setting(k)
    BY <1>0, <1>1, <1>2 DEF Setting
  <2>2. Deleting(k)' => Deleting(k) \/ (k = p /\ ~Setting(k))
    BY <1>0, <1>1, <1>2 DEF Deleting
  <2>3. StaysGone(k)
    BY DEF LayeredInv
  <2> QED BY <1>2, <1>3, <2>1, <2>2, <2>3 DEF StaysGone
<1>5. cacheOp' \in [CacheUsers -> OpType] /\ gone' \subseteq CacheKeys /\ revived' \subseteq CacheKeys
  BY <1>0, <1>1, <1>2
<1> QED BY <1>3, <1>4, <1>5 DEF LayeredInv

LEMMA DeleteSecondKeeps == ASSUME LayeredInv, NEW u \in CacheUsers, DeleteSecond(u) PROVE LayeredInv'
<1> DEFINE p == cacheOp[u].key
<1>0. /\ LevelsSound /\ cacheOp \in [CacheUsers -> OpType] /\ p \in CacheKeys
      /\ gone \subseteq CacheKeys /\ revived \subseteq CacheKeys
  BY DEF LayeredInv, OpType
<1>1. /\ Remove(2, p) /\ revived' = revived /\ cacheOp' = [cacheOp EXCEPT ![u] = NoOp]
      /\ gone' = IF cacheOp[u].clean THEN gone \cup {p} ELSE gone
      /\ cacheOp[u].clean => Deleting(p)
  BY DEF DeleteSecond, Ends, Deleting
<1>2. LevelsSound' /\ level'[2].data = level[2].data \ {p} /\ level'[1] = level[1]
  BY <1>0, <1>1, RemoveEffect
<1> HIDE DEF p
<1>3. ASSUME NEW k \in CacheKeys PROVE StaysGone(k)'
  <2>1. Setting(k)' => Setting(k)
    BY <1>0, <1>1, NoOpIsOp DEF Setting
  <2>2. Deleting(k)' => Deleting(k)
    BY <1>0, <1>1, NoOpIsOp DEF Deleting
  <2>3. StaysGone(k)
    BY DEF LayeredInv
  <2>4. k \in gone' => k \in gone \/ (k = p /\ Deleting(k))
    BY <1>1
  <2> QED BY <1>1, <1>2, <2>1, <2>2, <2>3, <2>4 DEF StaysGone
<1>4. cacheOp' \in [CacheUsers -> OpType] /\ gone' \subseteq CacheKeys /\ revived' \subseteq CacheKeys
  BY <1>0, <1>1, NoOpIsOp
<1> QED BY <1>2, <1>3, <1>4 DEF LayeredInv

LEMMA LayeredInvStep == LayeredInv /\ [LayeredNext]_layeredVars => LayeredInv'
<1> SUFFICES ASSUME LayeredInv, [LayeredNext]_layeredVars PROVE LayeredInv'
  OBVIOUS
<1>1. CASE \E u \in CacheUsers, k \in CacheKeys : SetFirst(u, k) \/ DeleteFirst(u, k)
  BY <1>1, SetKeeps, DeleteKeeps
<1>2. CASE \E u \in CacheUsers, l \in 1..2, k \in CacheKeys : LookUp(u, l, k)
  BY <1>2, GetKeeps
<1>3. CASE \E u \in CacheUsers, l \in 1..2 : Expire(u, l)
  BY <1>3, GetKeeps, LayeredAssumption
<1>4. CASE \E u \in CacheUsers : \/ ServeFirst(u) \/ Promote(u) \/ SetSecond(u) \/ DeleteSecond(u)
                                \/ ClearFirst(u) \/ ClearSecond(u)
  BY <1>4, GetKeeps, PromoteKeeps, SetSecondKeeps, DeleteSecondKeeps, ClearKeeps, LayeredAssumption
<1>5. CASE \E l \in 1..2 : Cleanup(l)
  <2>0. PICK l \in 1..2 : Cleanup(l)
    BY <1>5
  <2>1. PICK data \in SUBSET level[l].data : level' = [level EXCEPT ![l] = Stored(data)]
    BY <2>0 DEF Cleanup
  <2>2. LevelsSound' /\ \A m \in 1..2 : level'[m].data \subseteq level[m].data
    BY <2>1, LessEffect, ZenonT(60) DEF LayeredInv
  <2>3. cacheOp' = cacheOp /\ gone' = gone /\ revived' = revived
    BY <1>5 DEF Cleanup
  <2> QED BY <2>2, <2>3 DEF LayeredInv, StaysGone, Setting, Deleting
<1>6. CASE UNCHANGED layeredVars
  BY <1>6 DEF layeredVars, LayeredInv, LevelsSound, Sound, StaysGone, Setting, Deleting
<1> QED BY <1>1, <1>2, <1>3, <1>4, <1>5, <1>6 DEF LayeredNext

LEMMA LayeredInvTells == LayeredInv => LayeredTypeOK /\ LayeredBounded /\ DeletedStaysGone
<1> SUFFICES ASSUME LayeredInv PROVE LayeredTypeOK /\ LayeredBounded /\ DeletedStaysGone
  OBVIOUS
<1>1. LayeredBounded
  BY DEF LayeredInv, LevelsSound, Sound, LayeredBounded
<1>2. DeletedStaysGone
  BY DEF LayeredInv, StaysGone, DeletedStaysGone
<1>3. LayeredTypeOK
  BY DEF LayeredInv, LevelsSound, Sound, LayeredTypeOK, OpType
<1> QED BY <1>1, <1>2, <1>3

\* No level of the cache outgrows its limit, for any goroutines, keys and
\* sizes, whatever look-ups, promotions and evictions run at once.
THEOREM LevelsKeepLimits == LayeredSpec => []LayeredBounded
BY LayeredInvTells, LayeredInvInit, LayeredInvStep, PTL DEF LayeredSpec

\* A key deleted from both levels comes back without a Set only by a look-up
\* that found it in L2 before the deletion and promotes it to L1 after.
THEOREM OnlyPromotionRevives == LayeredSpec => []DeletedStaysGone
BY LayeredInvTells, LayeredInvInit, LayeredInvStep, PTL DEF LayeredSpec

-----------------------------------------------------------------------------
(* The advanced cache                                                      *)

Contents == [ItemKeys -> {0} \cup ItemSizes]
Units(m, keys) == UNION {{k} \X (1..m[k]) : k \in keys}

LEMMA ItemSize ==
  ASSUME NEW m \in Contents, NEW k \in ItemKeys
  PROVE  m[k] \in Nat /\ (m[k] > 0 <=> m[k] # 0)
<1>1. m[k] = 0 \/ m[k] \in ItemSizes
  BY Zenon DEF Contents
<1>2. \A size \in ItemSizes : size \in Nat
  BY AdvancedAssumption
<1>3. m[k] \in Nat
  <2>1. CASE m[k] = 0
    BY <2>1
  <2>2. CASE m[k] \in ItemSizes
    BY <1>2, <2>2, Zenon
  <2> QED BY <1>1, <2>1, <2>2
<1> QED BY <1>3

\* The units up to a number are that many.
LEMMA UpTo ==
  ASSUME NEW most \in Nat
  PROVE  IsFiniteSet(1..most) /\ Cardinality(1..most) = most
<1>1. 1 \in Int /\ most \in Int
  OBVIOUS
<1>2. IsFiniteSet(1..most) /\ Cardinality(1..most) = IF 1 > most THEN 0 ELSE most - 1 + 1
  BY <1>1, FS_Interval
<1> QED BY <1>2

LEMMA UnitsFinite ==
  ASSUME NEW m \in Contents, NEW keys \in SUBSET ItemKeys
  PROVE  IsFiniteSet(Units(m, keys)) /\ Taken(m, keys) = Cardinality(Units(m, keys)) /\ Taken(m, keys) \in Nat
<1> DEFINE Blocks == {{k} \X (1..m[k]) : k \in keys}
           block == [k \in keys |-> {k} \X (1..m[k])]
<1>1. IsFiniteSet(keys)
  BY FS_Subset, AdvancedAssumption
<1>2. block \in Surjection(keys, Blocks)
  BY DEF Surjection
<1>3. IsFiniteSet(Blocks)
  <2> HIDE DEF Blocks, block
  <2> QED BY <1>1, <1>2, FS_Surjection
<1>4. ASSUME NEW k \in keys
      PROVE  IsFiniteSet({k} \X (1..m[k]))
  <2>1. m[k] \in Nat
    BY ItemSize
  <2>2. IsFiniteSet({k}) /\ IsFiniteSet(1..m[k])
    BY <2>1, UpTo, FS_Singleton
  <2> QED BY <2>2, FS_Product
<1>5. IsFiniteSet(UNION Blocks)
  <2>1. \A block1 \in Blocks : IsFiniteSet(block1)
    BY <1>4
  <2> HIDE DEF Blocks
  <2> QED BY <1>3, <2>1, FS_UNION
<1>6. IsFiniteSet(Units(m, keys)) /\ Taken(m, keys) = Cardinality(Units(m, keys))
  BY <1>5 DEF Units, Taken
<1> QED BY <1>6, FS_CardinalityType

\* What two disjoint sets of keys take adds up.
LEMMA TakenAdds ==
  ASSUME NEW m \in Contents, NEW a \in SUBSET ItemKeys, NEW b \in SUBSET ItemKeys, a \cap b = {}
  PROVE  Taken(m, a \cup b) = Taken(m, a) + Taken(m, b)
<1>1. Units(m, a \cup b) = Units(m, a) \cup Units(m, b)
  BY DEF Units
<1>2. Units(m, a) \cap Units(m, b) = {}
  BY DEF Units
<1>3. a \cup b \in SUBSET ItemKeys
  OBVIOUS
<1>4. /\ IsFiniteSet(Units(m, a)) /\ Taken(m, a) = Cardinality(Units(m, a)) /\ Taken(m, a) \in Nat
      /\ IsFiniteSet(Units(m, b)) /\ Taken(m, b) = Cardinality(Units(m, b)) /\ Taken(m, b) \in Nat
      /\ Taken(m, a \cup b) = Cardinality(Units(m, a \cup b))
  BY <1>3, UnitsFinite
<1>5. Cardinality(Units(m, a) \cup Units(m, b)) =
        Cardinality(Units(m, a)) + Cardinality(Units(m, b)) - Cardinality(Units(m, a) \cap Units(m, b))
  BY <1>4, FS_Union
<1>6. Cardinality({}) = 0
  BY FS_EmptySet
<1>7. Cardinality(Units(m, a) \cap Units(m, b)) = 0
  BY <1>2, <1>6
<1>8. Taken(m, a \cup b) = Cardinality(Units(m, a) \cup Units(m, b))
  BY <1>1, <1>4
<1> HIDE DEF Taken, Units
<1> QED BY <1>4, <1>5, <1>7, <1>8

LEMMA TakenOfOne ==
  ASSUME NEW m \in Contents, NEW k \in ItemKeys
  PROVE  Taken(m, {k}) = m[k]
<1>1. m[k] \in Nat
  BY ItemSize
<1>2. Units(m, {k}) = {k} \X (1..m[k])
  BY DEF Units
<1>3. IsFiniteSet({k}) /\ Cardinality({k}) = 1 /\ IsFiniteSet(1..m[k]) /\ Cardinality(1..m[k]) = m[k]
  BY <1>1, UpTo, FS_Singleton
<1>4. Cardinality({k} \X (1..m[k])) = Cardinality({k}) * Cardinality(1..m[k])
  BY <1>3, FS_Product
<1>5. Taken(m, {k}) = Cardinality(Units(m, {k}))
  BY UnitsFinite
<1>6. \A many \in Nat : 1 * many = many
  OBVIOUS
<1> QED BY <1>1, <1>2, <1>3, <1>4, <1>5, <1>6

LEMMA TakenSame ==
  ASSUME NEW m \in Contents, NEW l \in Contents, NEW keys \in SUBSET ItemKeys, \A k \in keys : m[k] = l[k]
  PROVE  Taken(m, keys) = Taken(l, keys)
<1>1. {{k} \X (1..m[k]) : k \in keys} = {{k} \X (1..l[k]) : k \in keys}
  OBVIOUS
<1> QED BY <1>1 DEF Taken

LEMMA TakenOfNone ==
  ASSUME NEW m \in Contents, NEW keys \in SUBSET ItemKeys, \A k \in keys : m[k] = 0
  PROVE  Taken(m, keys) = 0
<1>1. Units(m, keys) = {}
  BY DEF Units
<1> QED BY <1>1, UnitsFinite, FS_EmptySet

\* The counters of a state agree with its entries, up to the phantoms.
Counted(s) ==
  /\ s \in [m : Contents, count : Int, usage : Int]
  /\ s.count = Cardinality(Present(s.m)) - phantoms
  /\ s.usage >= Taken(s.m, ItemKeys)

LEMMA PresentFinite ==
  ASSUME NEW m
  PROVE  IsFiniteSet(Present(m)) /\ Cardinality(Present(m)) \in Nat
BY FS_Subset, FS_CardinalityType, AdvancedAssumption DEF Present

LEMMA WithoutCounted ==
  ASSUME NEW s, Counted(s), NEW keys \in SUBSET ItemKeys, phantoms \in Nat
  PROVE  /\ Counted(Without(s, keys))
         /\ Without(s, keys).count = s.count - Cardinality(keys \cap Present(s.m))
         /\ Cardinality(keys \cap Present(s.m)) \in Nat
<1> DEFINE m == s.m
           rest == [k \in ItemKeys |-> IF k \in keys THEN 0 ELSE m[k]]
           t == Without(s, keys)
<1>1. /\ m \in Contents /\ s.count \in Int /\ s.usage \in Int /\ rest \in Contents
      /\ s.count = Cardinality(Present(m)) - phantoms /\ s.usage >= Taken(m, ItemKeys)
  BY DEF Counted, Contents
<1>2. t = [m |-> rest, count |-> s.count - Cardinality(keys \cap Present(m)), usage |-> s.usage - Taken(m, keys)]
  BY DEF Without
<1>3. keys \cap Present(m) = Present(m) \cap keys
  OBVIOUS
<1>4. /\ IsFiniteSet(Present(m)) /\ Cardinality(Present(m)) \in Nat
      /\ IsFiniteSet(Present(m) \cap keys) /\ Cardinality(Present(m) \cap keys) \in Nat
  BY PresentFinite, FS_Intersection, FS_CardinalityType
<1>5. Cardinality(Present(rest)) = Cardinality(Present(m)) - Cardinality(keys \cap Present(m))
  <2>1. Present(rest) = Present(m) \ keys
    BY DEF Present
  <2>2. Cardinality(Present(m) \ keys) = Cardinality(Present(m)) - Cardinality(Present(m) \cap keys)
    BY <1>4, FS_Difference
  <2> QED BY <2>1, <2>2, <1>3, Zenon
<1>6. /\ Taken(m, ItemKeys) = Taken(m, keys) + Taken(m, ItemKeys \ keys)
      /\ Taken(rest, ItemKeys) = Taken(rest, keys) + Taken(rest, ItemKeys \ keys)
  <2>1. keys \cup (ItemKeys \ keys) = ItemKeys /\ keys \cap (ItemKeys \ keys) = {}
        /\ ItemKeys \ keys \in SUBSET ItemKeys
    OBVIOUS
  <2> HIDE DEF rest, m
  <2> QED BY <2>1, <1>1, TakenAdds
<1>7. Taken(rest, keys) = 0
  BY <1>1, TakenOfNone
<1>8. Taken(rest, ItemKeys \ keys) = Taken(m, ItemKeys \ keys)
  BY <1>1, TakenSame
<1>9. Taken(m, keys) \in Nat /\ Taken(m, ItemKeys \ keys) \in Nat
  BY <1>1, UnitsFinite
<1>10. /\ t.m = rest /\ t.count = s.count - Cardinality(keys \cap Present(m)) /\ t.usage = s.usage - Taken(m, keys)
       /\ t \in [m : Contents, count : Int, usage : Int]
  <2> HIDE DEF rest, m
  <2>1. s.count - Cardinality(keys \cap Present(m)) \in Int /\ s.usage - Taken(m, keys) \in Int
    BY <1>1, <1>3, <1>4, <1>9
  <2> QED BY <1>1, <1>2, <2>1
<1> HIDE DEF rest, m, t
<1>11. t.usage >= Taken(t.m, ItemKeys)
  BY <1>1, <1>6, <1>7, <1>8, <1>9, <1>10
<1>12. t.count = Cardinality(Present(t.m)) - phantoms
  <2>1. Cardinality(Present(t.m)) = Cardinality(Present(m)) - Cardinality(keys \cap Present(m))
    BY <1>5, <1>10
  <2>2. Cardinality(keys \cap Present(m)) \in Nat
    BY <1>3, <1>4
  <2> QED BY <1>1, <1>4, <1>10, <2>1, <2>2
<1> QED BY <1>3, <1>4, <1>10, <1>11, <1>12 DEF Counted, t, m

LEMMA EvictionsCounted ==
  ASSUME NEW s, Counted(s), NEW t \in Evictions(s), phantoms \in Nat
  PROVE  /\ Counted(t) /\ t.count <= s.count
         /\ EvictsOne /\ Present(s.m) # {} => t.count = s.count - 1
<1>0. s.count \in Int
  BY DEF Counted
<1>1. CASE t = s /\ (EvictsOne => Present(s.m) = {})
  BY <1>0, <1>1
<1>2. ASSUME NEW k \in Present(s.m), t = Without(s, {k})
      PROVE  Counted(t) /\ t.count = s.count - 1
  <2>1. k \in ItemKeys /\ {k} \cap Present(s.m) = {k} /\ Cardinality({k}) = 1
    BY FS_Singleton DEF Present
  <2> QED BY <1>0, <1>2, <2>1, WithoutCounted
<1>3. ASSUME ~EvictsOne, NEW expired \in SUBSET Present(s.m), t = Without(s, expired)
      PROVE  Counted(t) /\ t.count <= s.count
  <2>1. expired \in SUBSET ItemKeys
    BY DEF Present
  <2> QED BY <1>0, <1>3, <2>1, WithoutCounted
<1>4. \/ t = s /\ (EvictsOne => Present(s.m) = {})
      \/ EvictsOne /\ \E k \in Present(s.m) : t = Without(s, {k})
      \/ ~EvictsOne /\ \E expired \in SUBSET Present(s.m) : t = Without(s, expired)
  BY DEF Evictions
<1>5. CASE \E k \in Present(s.m) : t = Without(s, {k})
  <2>1. Counted(t) /\ t.count = s.count - 1
    BY <1>2, <1>5
  <2> QED BY <1>0, <2>1
<1>6. CASE ~EvictsOne /\ \E expired \in SUBSET Present(s.m) : t = Without(s, expired)
  BY <1>3, <1>6
<1> QED BY <1>1, <1>4, <1>5, <1>6

LEMMA AddedCounted ==
  ASSUME NEW s, Counted(s), NEW k \in ItemKeys, NEW size \in ItemSizes, phantoms \in Nat
  PROVE  /\ Counted(Added(s, k, size))
         /\ Added(s, k, size).count <= s.count + 1
         /\ Present(Added(s, k, size).m) # {}
<1> DEFINE m == s.m
           more == [m EXCEPT ![k] = size]
           t == Added(s, k, size)
<1>1. /\ m \in Contents /\ s.count \in Int /\ s.usage \in Int /\ size \in Nat \ {0}
      /\ s.count = Cardinality(Present(m)) - phantoms /\ s.usage >= Taken(m, ItemKeys)
  BY AdvancedAssumption DEF Counted
<1>2. more \in Contents /\ more[k] = size /\ \A l \in ItemKeys \ {k} : more[l] = m[l]
  BY <1>1 DEF Contents
<1>3. t = [m |-> more, count |-> IF m[k] = 0 THEN s.count + 1 ELSE s.count, usage |-> s.usage + size]
  BY DEF Added
<1> DEFINE others == ItemKeys \ {k}
<1>4. /\ Taken(m, ItemKeys) = Taken(m, {k}) + Taken(m, others)
      /\ Taken(more, ItemKeys) = Taken(more, {k}) + Taken(more, others)
  <2>1. {k} \cup others = ItemKeys /\ {k} \cap others = {} /\ others \in SUBSET ItemKeys /\ {k} \in SUBSET ItemKeys
    OBVIOUS
  <2> HIDE DEF more, m, others
  <2> QED BY <2>1, <1>1, <1>2, TakenAdds
<1>5. Taken(more, {k}) = size /\ Taken(more, others) = Taken(m, others)
  <2>1. others \in SUBSET ItemKeys
    OBVIOUS
  <2> HIDE DEF more, m
  <2> QED BY <2>1, <1>1, <1>2, TakenOfOne, TakenSame
<1>6. Taken(m, {k}) \in Nat /\ Taken(m, others) \in Nat
  BY <1>1, UnitsFinite
<1>7. Present(more) = Present(m) \cup {k}
  BY <1>1, <1>2 DEF Present
<1>8. /\ Cardinality(Present(m)) \in Nat /\ IsFiniteSet(Present(m))
      /\ Cardinality(Present(more)) = IF k \in Present(m) THEN Cardinality(Present(m)) ELSE Cardinality(Present(m)) + 1
  <2> HIDE DEF m, more
  <2>1. Cardinality(Present(m)) \in Nat /\ IsFiniteSet(Present(m))
    BY PresentFinite
  <2> QED BY <2>1, <1>7, FS_AddElement
<1>9. m[k] = 0 <=> k \notin Present(m)
  <2> HIDE DEF m
  <2> QED BY <1>1, ItemSize DEF Present
<1> HIDE DEF m, more, t, others
<1>10. /\ t.m = more /\ t.count = (IF m[k] = 0 THEN s.count + 1 ELSE s.count) /\ t.usage = s.usage + size
       /\ t \in [m : Contents, count : Int, usage : Int]
  BY <1>1, <1>2, <1>3
<1>11. Counted(t)
  BY <1>1, <1>4, <1>5, <1>6, <1>8, <1>9, <1>10 DEF Counted
<1> QED BY <1>1, <1>7, <1>10, <1>11 DEF t

AdvancedInv ==
  /\ AdvancedTypeOK
  /\ Counted(Now)
  /\ EvictsOne => itemCount <= MaxItems

LEMMA AdvancedInvInit == AdvancedInit => AdvancedInv
<1> SUFFICES ASSUME AdvancedInit PROVE AdvancedInv
  OBVIOUS
<1>1. AdvancedTypeOK /\ items \in Contents /\ \A k \in ItemKeys : items[k] = 0
  BY DEF AdvancedInit, AdvancedTypeOK, Contents
<1>2. Taken(items, ItemKeys) = 0
  BY <1>1, TakenOfNone
<1>3. Present(items) = {} /\ Cardinality({}) = 0
  BY <1>1, FS_EmptySet DEF Present
<1>4. Counted(Now)
  BY <1>1, <1>2, <1>3 DEF AdvancedInit, Counted, Now
<1> QED BY <1>1, <1>4, AdvancedAssumption DEF AdvancedInit, AdvancedInv

\* What a step makes of a counted state is one.
LEMMA BecomesCounted ==
  ASSUME NEW s, Becomes(s), Counted(s), AdvancedTypeOK, phantoms' = phantoms,
         expiring' \subseteq Readers \X ItemKeys, EvictsOne => s.count <= MaxItems
  PROVE  AdvancedInv'
<1>1. /\ s.m \in Contents /\ s.count \in Int /\ s.usage \in Int
      /\ s.count = Cardinality(Present(s.m)) - phantoms /\ s.usage >= Taken(s.m, ItemKeys)
  BY DEF Counted
<1>2. items' = s.m /\ itemCount' = s.count /\ usage' = s.usage
  BY DEF Becomes
<1>3. Taken(s.m, ItemKeys) \in Nat
  BY <1>1, UnitsFinite
<1>4. AdvancedTypeOK'
  BY <1>1, <1>2, <1>3 DEF AdvancedTypeOK, Contents
<1>5. /\ Now'.m = s.m /\ Now'.count = s.count /\ Now'.usage = s.usage
      /\ Now' \in [m : Contents, count : Int, usage : Int]
  BY <1>1, <1>2 DEF Now
<1>6. Counted(Now)'
  BY <1>1, <1>5 DEF Counted
<1> QED BY <1>2, <1>4, <1>6 DEF AdvancedInv

LEMMA AdvancedInvStep == AdvancedInv /\ [AdvancedNext]_advancedVars => AdvancedInv'
<1> SUFFICES ASSUME AdvancedInv, [AdvancedNext]_advancedVars PROVE AdvancedInv'
  OBVIOUS
<1>0. AdvancedTypeOK /\ Counted(Now) /\ phantoms \in Nat /\ itemCount \in Int
      /\ (EvictsOne => itemCount <= MaxItems) /\ Now.count = itemCount /\ Now.m = items /\ Now.usage = usage
      /\ expiring \subseteq Readers \X ItemKeys /\ MaxItems \in Nat /\ EvictsOne \in BOOLEAN
  BY AdvancedAssumption DEF AdvancedInv, AdvancedTypeOK, Now
<1>1. ASSUME NEW k \in ItemKeys, NEW size \in ItemSizes, SetItem(k, size)
      PROVE  AdvancedInv'
  <2>1. PICK roomy \in (IF OverMemory(size) THEN Evictions(Now) ELSE {Now}) :
          \E s \in IF Added(roomy, k, size).count > MaxItems
                     THEN Evictions(Added(roomy, k, size)) ELSE {Added(roomy, k, size)} : Becomes(s)
    BY <1>1 DEF SetItem
  <2>2. Counted(roomy) /\ roomy.count <= itemCount /\ roomy.count \in Int
    <3>1. CASE roomy = Now
      BY <1>0, <3>1
    <3>2. CASE roomy \in Evictions(Now)
      BY <1>0, <3>2, EvictionsCounted DEF Counted
    <3> QED BY <2>1, <3>1, <3>2
  <2> DEFINE full == Added(roomy, k, size)
  <2>3. PICK s \in (IF full.count > MaxItems THEN Evictions(full) ELSE {full}) : Becomes(s)
    BY <2>1
  <2>4. Counted(full) /\ full.count <= roomy.count + 1 /\ Present(full.m) # {} /\ full.count \in Int
    BY <1>0, <2>2, AddedCounted DEF Counted
  <2> HIDE DEF full
  <2>5. Counted(s) /\ (EvictsOne => s.count <= MaxItems)
    <3>1. CASE full.count > MaxItems
      <4>1. Counted(s) /\ (EvictsOne => s.count = full.count - 1)
        BY <1>0, <2>3, <2>4, <3>1, EvictionsCounted
      <4> QED BY <1>0, <2>2, <2>4, <4>1
    <3>2. CASE ~(full.count > MaxItems)
      BY <1>0, <2>3, <2>4, <3>2
    <3> QED BY <3>1, <3>2
  <2> QED BY <1>0, <1>1, <2>3, <2>5, BecomesCounted DEF SetItem
<1>2. ASSUME NEW r \in Readers, NEW k \in ItemKeys, FindExpired(r, k)
      PROVE  AdvancedInv'
  <2>1. expiring' \subseteq Readers \X ItemKeys
    BY <1>0, <1>2 DEF FindExpired
  <2>2. Becomes(Now) /\ phantoms' = phantoms
    BY <1>2 DEF FindExpired, Becomes, Now
  <2> QED BY <1>0, <2>1, <2>2, BecomesCounted
<1>3. ASSUME NEW r \in Readers, NEW k \in ItemKeys, DropExpired(r, k)
      PROVE  AdvancedInv'
  <2> DEFINE rest == Without(Now, {k})
  <2>1. /\ Counted(rest) /\ rest.count = itemCount - Cardinality({k} \cap Present(items))
        /\ rest.m = [items EXCEPT ![k] = 0]
    <3>1. Without(Now, {k}).m = [l \in ItemKeys |-> IF l \in {k} THEN 0 ELSE items[l]]
      BY DEF Without, Now
    <3>2. items \in [ItemKeys -> {0} \cup ItemSizes]
      BY <1>0 DEF AdvancedTypeOK
    <3> QED BY <1>0, <3>1, <3>2, WithoutCounted
  <2>2. Cardinality({k} \cap Present(items)) = IF items[k] = 0 THEN 0 ELSE 1
    <3>1. CASE items[k] = 0
      <4>1. {k} \cap Present(items) = {}
        BY <3>1 DEF Present
      <4> QED BY <3>1, <4>1, FS_EmptySet
    <3>2. CASE items[k] # 0
      <4>1. {k} \cap Present(items) = {k}
        <5>1. items \in Contents
          BY <1>0 DEF AdvancedTypeOK, Contents
        <5> QED BY <5>1, <3>2, ItemSize DEF Present
      <4> QED BY <3>2, <4>1, FS_Singleton
    <3> QED BY <3>1, <3>2
  <2>3. /\ rest.m \in Contents /\ rest.count \in Int /\ rest.usage \in Int
        /\ rest.count = Cardinality(Present(rest.m)) - phantoms /\ rest.usage >= Taken(rest.m, ItemKeys)
        /\ rest.usage = usage - Taken(items, {k})
    BY <2>1 DEF Counted, Without, Now
  <2> HIDE DEF rest
  <2>4. /\ items' = rest.m /\ itemCount' = itemCount - 1 /\ usage' = usage
        /\ phantoms' = IF items[k] = 0 THEN phantoms + 1 ELSE phantoms
        /\ expiring' \subseteq expiring
    BY <1>3, <2>1 DEF DropExpired
  <2>5. Taken(rest.m, ItemKeys) \in Nat /\ Taken(items, {k}) \in Nat
    BY <1>0, <2>3, UnitsFinite DEF AdvancedTypeOK, Contents
  <2>6. usage \in Nat
    BY <1>0 DEF AdvancedTypeOK
  <2>7. AdvancedTypeOK'
    BY <1>0, <2>3, <2>4, <2>6 DEF AdvancedTypeOK, Contents
  <2>8. itemCount' = Cardinality(Present(items')) - phantoms' /\ usage' >= Taken(items', ItemKeys)
    <3>1. Cardinality(Present(rest.m)) \in Nat
      BY PresentFinite
    <3>2. usage' >= Taken(items', ItemKeys)
      BY <2>3, <2>4, <2>5, <2>6
    <3>3. CASE items[k] = 0
      <4>1. itemCount' = itemCount - 1 /\ phantoms' = phantoms + 1 /\ rest.count = itemCount - 0
        BY <2>1, <2>2, <2>4, <3>3
      <4>2. Cardinality(Present(items')) = Cardinality(Present(rest.m))
        BY <2>4
      <4> QED BY <1>0, <2>3, <3>1, <3>2, <4>1, <4>2
    <3>4. CASE items[k] # 0
      <4>1. itemCount' = itemCount - 1 /\ phantoms' = phantoms /\ rest.count = itemCount - 1
        BY <2>1, <2>2, <2>4, <3>4
      <4>2. Cardinality(Present(items')) = Cardinality(Present(rest.m))
        BY <2>4
      <4> QED BY <1>0, <2>3, <3>1, <3>2, <4>1, <4>2
    <3> QED BY <3>3, <3>4
  <2>9. /\ Now'.m = items' /\ Now'.count = itemCount' /\ Now'.usage = usage'
        /\ Now' \in [m : Contents, count : Int, usage : Int]
    BY <1>0, <2>3, <2>4, <2>6 DEF Now
  <2> QED BY <1>0, <2>4, <2>7, <2>8, <2>9 DEF AdvancedInv, Counted
<1>4. ASSUME NEW k \in ItemKeys, DeleteItem(k)
      PROVE  AdvancedInv'
  <2> DEFINE rest == Without(Now, {k})
  <2>1. Counted(rest) /\ rest.count <= itemCount /\ rest.count \in Int
    <3>1. /\ Counted(Without(Now, {k})) /\ Cardinality({k} \cap Present(items)) \in Nat
          /\ Without(Now, {k}).count = itemCount - Cardinality({k} \cap Present(items))
      BY <1>0, WithoutCounted
    <3> QED BY <1>0, <3>1
  <2>2. Becomes(rest) /\ phantoms' = phantoms /\ expiring' = expiring
    BY <1>4 DEF DeleteItem
  <2> HIDE DEF rest
  <2> QED BY <1>0, <2>1, <2>2, BecomesCounted
<1>5. CASE ClearItems
  <2>1. /\ items' \in Contents /\ (\A k \in ItemKeys : items'[k] = 0)
        /\ itemCount' = 0 /\ usage' = 0 /\ phantoms' = 0 /\ expiring' = expiring
    BY <1>5 DEF ClearItems, Contents
  <2>2. Taken(items', ItemKeys) = 0
    BY <2>1, TakenOfNone
  <2>3. Present(items') = {} /\ Cardinality({}) = 0
    BY <2>1, FS_EmptySet DEF Present
  <2>4. AdvancedTypeOK'
    BY <1>0, <2>1 DEF AdvancedTypeOK, Contents
  <2>5. /\ Now'.m = items' /\ Now'.count = 0 /\ Now'.usage = 0
        /\ Now' \in [m : Contents, count : Int, usage : Int]
    BY <2>1 DEF Now
  <2> QED BY <1>0, <2>1, <2>2, <2>3, <2>4, <2>5 DEF AdvancedInv, Counted
<1>6. CASE CleanupItems
  <2>1. PICK expired \in SUBSET Present(items) :
          \E s \in IF Without(Now, expired).count > MaxItems
                     THEN Evictions(Without(Now, expired)) ELSE {Without(Now, expired)} : Becomes(s)
    BY <1>6 DEF CleanupItems
  <2> DEFINE rest == Without(Now, expired)
  <2>2. PICK s \in (IF rest.count > MaxItems THEN Evictions(rest) ELSE {rest}) : Becomes(s)
    BY <2>1
  <2>3. expired \in SUBSET ItemKeys
    BY DEF Present
  <2>4. Counted(rest) /\ rest.count <= itemCount /\ rest.count \in Int
    <3>1. /\ Counted(Without(Now, expired)) /\ Cardinality(expired \cap Present(items)) \in Nat
          /\ Without(Now, expired).count = itemCount - Cardinality(expired \cap Present(items))
      BY <1>0, <2>3, WithoutCounted
    <3> QED BY <1>0, <3>1
  <2> HIDE DEF rest
  <2>5. Counted(s) /\ s.count <= rest.count /\ s.count \in Int
    <3>1. CASE s = rest
      BY <2>4, <3>1
    <3>2. CASE s \in Evictions(rest)
      BY <1>0, <2>4, <3>2, EvictionsCounted DEF Counted
    <3> QED BY <2>2, <3>1, <3>2
  <2>6. phantoms' = phantoms /\ expiring' = expiring
    BY <1>6 DEF CleanupItems
  <2> QED BY <1>0, <2>2, <2>4, <2>5, <2>6, BecomesCounted
<1>7. CASE UNCHANGED advancedVars
  <2>1. Becomes(Now) /\ phantoms' = phantoms /\ expiring' = expiring
    BY <1>7 DEF advancedVars, Becomes, Now
  <2> QED BY <1>0, <2>1, BecomesCounted
<1> QED BY <1>1, <1>2, <1>3, <1>4, <1>5, <1>6, <1>7 DEF AdvancedNext

LEMMA AdvancedInvTells == AdvancedInv => AdvancedTypeOK /\ CountExplained /\ UsageCovers
<1> SUFFICES ASSUME AdvancedInv PROVE AdvancedTypeOK /\ CountExplained /\ UsageCovers
  OBVIOUS
<1>1. /\ AdvancedTypeOK /\ itemCount = Cardinality(Present(items)) - phantoms
      /\ usage >= Taken(items, ItemKeys) /\ (EvictsOne => itemCount <= MaxItems)
  BY DEF AdvancedInv, Counted, Now
<1>2. Cardinality(Present(items)) \in Nat /\ phantoms \in Nat /\ MaxItems \in Nat
  BY <1>1, PresentFinite, AdvancedAssumption DEF AdvancedTypeOK
<1> QED BY <1>1, <1>2 DEF CountExplained, UsageCovers

\* For any keys, sizes, readers and limits: stats.Size is the number of entries
\* less the phantoms, and the cache is over its limit by no more than them
\* (Set, Get, Delete, Clear, cleanup).
THEOREM CountIsExplained == AdvancedSpec => []CountExplained
BY AdvancedInvTells, AdvancedInvInit, AdvancedInvStep, PTL DEF AdvancedSpec

\* stats.MemoryUsage never falls below what the entries take, though expired
\* entries and replaced ones leave theirs in it (Set, Get, deleteInternal).
THEOREM UsageAlwaysCovers == AdvancedSpec => []UsageCovers
BY AdvancedInvTells, AdvancedInvInit, AdvancedInvStep, PTL DEF AdvancedSpec

-----------------------------------------------------------------------------
(* The hash ring                                                           *)

LEMMA LeastIsIn ==
  ASSUME NEW S \in SUBSET Nat, S # {}
  PROVE  Least(S) \in S
BY LeastNatural DEF Least

\* The places that are looked at are those a node is at, and the node is there.
RingInv ==
  /\ RingTypeOK
  /\ sortedKeys = {p \in RingPlaces : ring[p] # Nobody}
  /\ \A p \in RingPlaces : ring[p] \in members \cup {Nobody}

LEMMA RingInvInit == RingInit => RingInv
BY RingAssumption DEF RingInit, RingInv, RingTypeOK

LEMMA RingInvStep == RingInv /\ [RingNext]_ringVars => RingInv'
<1> SUFFICES ASSUME RingInv, [RingNext]_ringVars PROVE RingInv'
  OBVIOUS
<1> USE DEF RingInv, RingTypeOK
<1>1. ASSUME NEW n \in RingNodes, NEW w \in Weights, AddNode(n, w)
      PROVE  RingInv'
  <2>1. VirtualPlaces(n, w) \subseteq RingPlaces
    BY RingAssumption DEF VirtualPlaces
  <2>2. n # Nobody
    BY RingAssumption
  <2> QED BY <1>1, <2>1, <2>2 DEF AddNode
<1>2. ASSUME NEW n \in RingNodes, RemoveNode(n)
      PROVE  RingInv'
  BY <1>2 DEF RemoveNode
<1>3. CASE UNCHANGED ringVars
  BY <1>3 DEF ringVars
<1> QED BY <1>1, <1>2, <1>3 DEF RingNext

LEMMA RingInvTells == RingInv => RingTypeOK /\ KeysLookedAfter
<1> SUFFICES ASSUME RingInv PROVE KeysLookedAfter
  BY DEF RingInv
<1>1. ASSUME NEW h \in RingPlaces, sortedKeys # {}
      PROVE  GetNode(h) \in members
  <2> DEFINE after == {p \in sortedKeys : p >= h}
             from == IF after = {} THEN sortedKeys ELSE after
  <2>1. from # {} /\ from \subseteq sortedKeys /\ from \in SUBSET Nat
    BY <1>1, RingAssumption DEF RingInv, RingTypeOK
  <2>2. GetNode(h) = ring[Least(from)]
    BY <1>1 DEF GetNode
  <2> HIDE DEF from
  <2>3. Least(from) \in sortedKeys
    BY <2>1, LeastIsIn
  <2> QED BY <2>2, <2>3 DEF RingInv, RingTypeOK
<1>2. ASSUME NEW h \in RingPlaces, sortedKeys = {}
      PROVE  GetNode(h) = Nobody
  BY <1>2 DEF GetNode
<1>3. Nobody \notin members
  BY RingAssumption DEF RingInv, RingTypeOK
<1>4. (\E p \in RingPlaces : ring[p] # Nobody) => sortedKeys # {}
  BY DEF RingInv
<1> QED BY <1>1, <1>2, <1>3, <1>4 DEF KeysLookedAfter

\* For any nodes, weights and hash, collisions included: a key is looked after
\* by a node of the table whenever the ring holds one, and never by a removed
\* one (AddNode, RemoveNode, GetNode).
THEOREM KeysAreLookedAfter == RingSpec => []KeysLookedAfter
BY RingInvTells, RingInvInit, RingInvStep, PTL DEF RingSpec

-----------------------------------------------------------------------------
(* Together                                                                *)

SyncSideInv ==
  /\ scene \in Scenes
  /\ QueueInv /\ AuditInv /\ LayeredInv /\ AdvancedInv /\ RingInv

LEMMA SyncSideInvInit == SyncSideInit => SyncSideInv
BY QueueInvInit, AuditInvInit, LayeredInvInit, AdvancedInvInit, RingInvInit DEF SyncSideInit, SyncSideInv

\* A step of one component is a step, or none, of each.
LEMMA SyncSideInvStep ==
  SyncSideInv /\ [SyncSideNext]_<<scene, vars, auditVars, layeredVars, advancedVars, ringVars>> => SyncSideInv'
<1> SUFFICES ASSUME SyncSideInv, [SyncSideNext]_<<scene, vars, auditVars, layeredVars, advancedVars, ringVars>>
             PROVE  SyncSideInv'
  OBVIOUS
<1>1. /\ scene' = scene /\ [Next]_vars /\ [AuditNext]_auditVars /\ [LayeredNext]_layeredVars
      /\ [AdvancedNext]_advancedVars /\ [RingNext]_ringVars
  BY DEF SyncSideNext, ManagerScene, AuditScene, LayersScene, CacheScene, RingScene, In
<1>2. QueueInv' /\ AuditInv' /\ LayeredInv'
  BY <1>1, NextQueue, AuditInvStep, LayeredInvStep DEF SyncSideInv
<1>3. AdvancedInv' /\ RingInv'
  BY <1>1, AdvancedInvStep, RingInvStep DEF SyncSideInv
<1> QED BY <1>1, <1>2, <1>3 DEF SyncSideInv

\* Every variable of every component has its type, for any constants.
THEOREM SyncSideTyped == SyncSideSpec => []Typed
<1>1. SyncSideInv => Typed
  BY AuditInvTells, LayeredInvTells, AdvancedInvTells, RingInvTells DEF SyncSideInv, QueueInv, Typed
<1> QED BY <1>1, SyncSideInvInit, SyncSideInvStep, PTL DEF SyncSideSpec

\* What is kept beside the data agrees with it, whatever the data: conflict
\* IDs, the audit index and its queries, the caches' sizes and memory, the
\* places on the ring (addToManualQueue, RecordSyncEvent, AdvancedCache.Set,
\* AddNode).
THEOREM BookkeepingIsTrue == SyncSideSpec => []BookkeepingAgrees
<1>1. SyncSideInv => BookkeepingAgrees
  BY QueriesTell, AuditInvTells, LayeredInvTells, AdvancedInvTells, RingInvTells
     DEF SyncSideInv, QueueInv, BookkeepingAgrees
<1> QED BY <1>1, SyncSideInvInit, SyncSideInvStep, PTL DEF SyncSideSpec

\* What is read from the audit trail agrees with what it holds, whatever was
\* recorded, cut and purged: pages add up to all that matches, and a rollback
\* undoes what a query shows, each once and the last first (QueryEvents,
\* PrepareRollback).
THEOREM QueriesHold == SyncSideSpec => []QueriesAgree
<1>1. SyncSideInv => QueriesAgree
  BY QueriesTell DEF SyncSideInv
<1> QED BY <1>1, SyncSideInvInit, SyncSideInvStep, PTL DEF SyncSideSpec
=============================================================================
