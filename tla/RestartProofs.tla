--------------------------- MODULE RestartProofs ---------------------------
(***************************************************************************)
(* Proofs about ExternalServicesRestart for every value of the constants:  *)
(* the controller with tombstone panics, crashes and restarts keeps its    *)
(* types, its settled route store and its caches right.                    *)
(*                                                                         *)
(* A tombstone is never handled: it reaches the head of its queue and the  *)
(* next delivery panics, and the restart replaces every queue by a resync. *)
(* So the per-key invariants of CacheTrackingProofs are only claimed while *)
(* the queue of their kind holds no tombstone; a restart establishes them  *)
(* afresh, because the resync lists every current object of a kind exactly *)
(* once (it is a bijection from 1..n onto the n objects) and the caches     *)
(* start empty.                                                            *)
(***************************************************************************)
EXTENDS ExternalServicesRestart, CacheTrackingProofs, FiniteSetTheorems

\* No tombstone is queued in q.
NoTomb(q) == \A i \in 1..Len(q) : q[i][2] # Tombstone

TombQueued == ~NoTomb(podQ) \/ ~NoTomb(serviceQ) \/ ~NoTomb(endpointsQ)

-----------------------------------------------------------------------------
(* Facts about queues that may hold tombstones.                            *)

LEMMA NoTombAppend ==
    ASSUME NEW S, NEW q \in Seq(S), NEW e \in S
    PROVE  NoTomb(Append(q, e)) <=> NoTomb(q) /\ e[2] # Tombstone
<1>1. /\ Len(Append(q, e)) = Len(q) + 1
      /\ Append(q, e)[Len(q) + 1] = e
      /\ \A m \in 1..Len(q) : Append(q, e)[m] = q[m]
  BY AppendShape
<1>2. QED
  BY <1>1 DEF NoTomb

LEMMA NoTombTail ==
    ASSUME NEW S, NEW q \in Seq(S), q # << >>
    PROVE  NoTomb(q) <=> NoTomb(Tail(q)) /\ Head(q)[2] # Tombstone
<1>1. /\ Len(Tail(q)) = Len(q) - 1
      /\ \A j \in 1..Len(q) - 1 : Tail(q)[j] = q[j + 1]
      /\ Head(q) = q[1]
  BY TailShift
<1>2. NoTomb(q) => NoTomb(Tail(q)) /\ Head(q)[2] # Tombstone
  BY <1>1 DEF NoTomb
<1>3. NoTomb(Tail(q)) /\ Head(q)[2] # Tombstone => NoTomb(q)
  <2> SUFFICES ASSUME NoTomb(Tail(q)), Head(q)[2] # Tombstone, NEW i \in 1..Len(q)
               PROVE  q[i][2] # Tombstone
    BY DEF NoTomb
  <2>1. CASE i = 1
    BY <1>1, <2>1
  <2>2. CASE i > 1
    <3>1. i - 1 \in 1..Len(Tail(q)) /\ Tail(q)[i - 1] = q[i]
      BY <1>1, <2>2
    <3>2. QED
      BY <3>1 DEF NoTomb
  <2>3. QED
    BY <2>1, <2>2
<1>4. QED
  BY <1>2, <1>3

\* A queue without tombstones has the type of the queues of ExternalServices.
LEMMA NoTombType ==
    ASSUME NEW K, NEW O, NEW q \in Seq(K \X (O \cup {Deleted, Tombstone})), NoTomb(q)
    PROVE  q \in Seq(K \X (O \cup {Deleted}))
<1>1. \A i \in 1..Len(q) : q[i] \in K \X (O \cup {Deleted})
  BY DEF NoTomb
<1>2. QED
  BY <1>1

-----------------------------------------------------------------------------
(* A resync is a bijection from 1..n onto the current objects of a kind:  *)
(* each entry carries its key's current object, and every key that has   *)
(* one has an entry.                                                       *)

ResyncShape(q, obj, K) ==
    /\ q \in Seq(K \X Range(obj))
    /\ \A i \in 1..Len(q) : q[i][2] = obj[q[i][1]] /\ obj[q[i][1]] # Absent
    /\ \A k \in K : obj[k] # Absent => \E i \in 1..Len(q) : q[i][1] = k
    /\ \A i, j \in 1..Len(q) : q[i][1] = q[j][1] => i = j

LEMMA ResyncEntries ==
    ASSUME NEW K, IsFiniteSet(K), NEW obj, K \subseteq DOMAIN obj, NEW q \in Resync(obj, K)
    PROVE  ResyncShape(q, obj, K)
<1> DEFINE Present == {j \in K : obj[j] # Absent}
           S == {<<k, obj[k]>> : k \in Present}
           n == Cardinality(S)
<1>1. IsFiniteSet(Present)
  <2>1. Present \in SUBSET K
    OBVIOUS
  <2>2. QED
    BY <2>1, FS_Subset
<1>2. IsFiniteSet(S) /\ n \in Nat
  <2> DEFINE g == [k \in Present |-> <<k, obj[k]>>]
  <2>1. g \in Surjection(Present, S)
    BY DEF Surjection
  <2>2. IsFiniteSet(S)
    BY <1>1, <2>1, FS_Surjection
  <2>3. QED
    BY <2>2, FS_CardinalityType
<1>3. q \in [1..n -> S] /\ \A i, j \in 1..n : i # j => q[i] # q[j]
  BY DEF Resync, SetToSeqs
<1>4. q \in Seq(S) /\ Len(q) = n
  BY <1>2, <1>3
<1>5. q \in Surjection(1..n, S)
  <2>1. q \in Injection(1..n, S)
    BY <1>3 DEF Injection, IsInjective
  <2>2. IsFiniteSet(1..n) /\ Cardinality(1..n) = n
    BY <1>2, FS_Interval
  <2>3. QED
    BY <1>2, <2>1, <2>2, FS_Injection
<1>6. \A k \in K : obj[k] # Absent => \E i \in 1..Len(q) : q[i] = <<k, obj[k]>>
  BY <1>4, <1>5 DEF Surjection
<1>7. S \subseteq K \X Range(obj)
  BY DEF Range
<1>8. \A i \in 1..Len(q) : q[i] \in S
  BY <1>4
<1>9. q \in Seq(K \X Range(obj))
  BY <1>4, <1>7
<1>10. \A i \in 1..Len(q) : q[i][2] = obj[q[i][1]] /\ obj[q[i][1]] # Absent
  BY <1>8
<1>11. \A i, j \in 1..Len(q) : q[i][1] = q[j][1] => i = j
  <2> SUFFICES ASSUME NEW i \in 1..Len(q), NEW j \in 1..Len(q), q[i][1] = q[j][1]
               PROVE  i = j
    OBVIOUS
  <2>1. q[i] = q[j]
    BY <1>8
  <2>2. QED
    BY <2>1, <1>3, <1>4
<1>12. QED
  BY <1>6, <1>9, <1>10, <1>11 DEF ResyncShape

\* A resync of objects of type O is a queue of typed objects.
LEMMA ResyncQueue ==
    ASSUME NEW K, NEW O, IsFiniteSet(K), NEW obj \in [K -> O \cup {Absent}],
           NEW q \in Resync(obj, K)
    PROVE  q \in Seq(K \X O)
<1>1. /\ q \in Seq(K \X Range(obj))
      /\ \A i \in 1..Len(q) : q[i][2] = obj[q[i][1]] /\ obj[q[i][1]] # Absent
  <2>1. ResyncShape(q, obj, K)
    BY ResyncEntries
  <2>2. QED
    BY <2>1 DEF ResyncShape
<1>2. \A i \in 1..Len(q) : q[i] \in K \X O
  BY <1>1
<1>3. Len(q) \in Nat /\ q \in [1..Len(q) -> K \X O]
  BY <1>1, <1>2
<1>4. QED
  BY <1>3

\* A queue of typed objects holds no tombstone.
LEMMA TypedNoTomb ==
    ASSUME NEW S, NEW q \in Seq(S), \A x \in S : x[2] # Tombstone
    PROVE  NoTomb(q)
BY DEF NoTomb

-----------------------------------------------------------------------------
(* The steps of RNext, grouped.                                            *)

\* The steps of ExternalServices, with the handlers on typed objects only.
ControllerStep ==
    /\ \/ Cluster
       \/ HandlePodTyped \/ HandleServiceTyped \/ HandleEndpointsTyped
       \/ \E k \in Kinds : Dirty(k)
       \/ Reconciler
    /\ UNCHANGED faults

Vanish == \/ \E p \in Pods : PodVanish(p)
          \/ \E s \in Svcs : ServiceVanish(s)
          \/ \E s \in Svcs : EndpointsVanish(s)

Reset == PodPanic \/ ServicePanic \/ EndpointsPanic \/ Crash

LEMMA RNextCases == RNext <=> ControllerStep \/ Vanish \/ Reset
BY Zenon DEF RNext, ControllerStep, Vanish, Reset

LEMMA ControllerIsNext == ControllerStep => Next
BY Zenon DEF ControllerStep, Next, Handlers, HandlePodTyped, HandleServiceTyped,
   HandleEndpointsTyped

\* Every reset step is a restart.
LEMMA ResetRestarts == Reset => Restart
BY DEF Reset, PodPanic, ServicePanic, EndpointsPanic, Crash

-----------------------------------------------------------------------------
(* The type invariant.                                                     *)

\* The queues of the restart model: typed notifications and tombstones.
RQueueType ==
    /\ podQ \in Seq(Pods \X (PodObjects \cup {Deleted, Tombstone}))
    /\ serviceQ \in Seq(Svcs \X (ServiceObjects \cup {Deleted, Tombstone}))
    /\ endpointsQ \in Seq(Svcs \X (EndpointsObjects \cup {Deleted, Tombstone}))

\* A panic consumes a tombstone, which was queued by one cluster change.
FaultCount ==
    /\ crashes \in 0..MaxCrashes /\ panics \in 0..sent
    /\ TombQueued => panics < sent

RTypeInv == TypeBool /\ StoreType /\ RunShape /\ RQueueType /\ FaultCount

LEMMA RTypeInvTypeOK == RTypeInv => RTypeOK
BY DEF RTypeInv, RTypeOK, StoreType, RQueueType, FaultCount

LEMMA RTypeInit == RInit => RTypeInv
<1> SUFFICES ASSUME RInit PROVE RTypeInv
  OBVIOUS
<1>1. TypeBool /\ StoreType /\ RunShape
  BY InitTypeInv, TypeSplit DEF RInit, TypeInv, TypeRest
<1>2. RQueueType
  BY DEF RInit, Init, RQueueType
<1>3. FaultCount
  BY RestartAssumption DEF RInit, Init, FaultCount, TombQueued, NoTomb
<1>4. QED
  BY <1>1, <1>2, <1>3 DEF RTypeInv

\* A cluster change appends a typed object or a delete: the queue keeps its
\* type, and holds a tombstone after the step exactly when it held one before.
LEMMA QueueAppendKeep ==
    ASSUME NEW K, NEW O, NEW q \in Seq(K \X (O \cup {Deleted, Tombstone})),
           NEW k \in K, NEW o \in O \cup {Deleted}, Tombstone \notin O \cup {Deleted}
    PROVE  /\ Append(q, <<k, o>>) \in Seq(K \X (O \cup {Deleted, Tombstone}))
           /\ NoTomb(Append(q, <<k, o>>)) <=> NoTomb(q)
<1>1. <<k, o>> \in K \X (O \cup {Deleted, Tombstone}) /\ <<k, o>>[2] # Tombstone
  OBVIOUS
<1>2. QED
  BY <1>1, AppendType, NoTombAppend

\* A typed handler pops a head that is no tombstone.
LEMMA QueueTailKeep ==
    ASSUME NEW S, NEW q \in Seq(S), q # << >>, Head(q)[2] # Tombstone
    PROVE  Tail(q) \in Seq(S) /\ (NoTomb(Tail(q)) <=> NoTomb(q))
BY TailType, NoTombTail

\* A step adds no tombstone to a queue and removes none.
SameTombs ==
    /\ NoTomb(podQ') <=> NoTomb(podQ)
    /\ NoTomb(serviceQ') <=> NoTomb(serviceQ)
    /\ NoTomb(endpointsQ') <=> NoTomb(endpointsQ)

\* The controller's steps keep the queue types and add or remove no tombstone.
LEMMA ControllerQueues ==
    ASSUME RQueueType, ControllerStep
    PROVE  RQueueType' /\ SameTombs
<1> USE RestartAssumption DEF RQueueType, SameTombs
<1>1. CASE Cluster
  <2>1. ASSUME NEW p \in Pods, NEW o \in PodObjects, PodChange(p, o) PROVE RQueueType' /\ SameTombs
    BY <2>1, QueueAppendKeep DEF PodChange
  <2>2. ASSUME NEW p \in Pods, PodRemove(p) PROVE RQueueType' /\ SameTombs
    BY <2>2, QueueAppendKeep DEF PodRemove
  <2>3. ASSUME NEW r \in Svcs, NEW o \in ServiceObjects, ServiceChange(r, o) PROVE RQueueType' /\ SameTombs
    BY <2>3, QueueAppendKeep DEF ServiceChange
  <2>4. ASSUME NEW r \in Svcs, ServiceRemove(r) PROVE RQueueType' /\ SameTombs
    BY <2>4, QueueAppendKeep DEF ServiceRemove
  <2>5. ASSUME NEW r \in Svcs, NEW o \in EndpointsObjects, EndpointsChange(r, o)
        PROVE RQueueType' /\ SameTombs
    BY <2>5, QueueAppendKeep DEF EndpointsChange
  <2>6. ASSUME NEW r \in Svcs, EndpointsRemove(r) PROVE RQueueType' /\ SameTombs
    BY <2>6, QueueAppendKeep DEF EndpointsRemove
  <2>7. CASE Stop
    BY <2>7 DEF Stop, clusterVars
  <2>8. QED
    BY <1>1, <2>1, <2>2, <2>3, <2>4, <2>5, <2>6, <2>7 DEF Cluster
<1>2. CASE HandlePodTyped
  BY <1>2, QueueTailKeep DEF HandlePodTyped, HandlePod
<1>3. CASE HandleServiceTyped
  BY <1>3, QueueTailKeep DEF HandleServiceTyped, HandleService
<1>4. CASE HandleEndpointsTyped
  BY <1>4, QueueTailKeep DEF HandleEndpointsTyped, HandleEndpoints
<1>5. ASSUME NEW k \in Kinds, Dirty(k) PROVE RQueueType' /\ SameTombs
  BY <1>5 DEF Dirty, clusterVars
<1>6. CASE Reconciler
  <2>1. UNCHANGED clusterVars
    BY <1>6, Zenon DEF Reconciler, StartRun, NextRoute, CacheGet, RouteDelete, BeginConverge, NextProxy,
       ConvergeService, FinishRun
  <2>2. QED
    BY <2>1 DEF clusterVars
<1>7. QED
  BY <1>1, <1>2, <1>3, <1>4, <1>5, <1>6 DEF ControllerStep

\* A queued notification that is no tombstone is one the handlers accept.
LEMMA HeadNote ==
    ASSUME NEW K, NEW O, NEW q \in Seq(K \X (O \cup {Deleted, Tombstone})), q # << >>,
           Head(q)[2] # Tombstone
    PROVE  Head(q) \in K \X (O \cup {Deleted})
OBVIOUS

\* The controller's steps keep the types of the objects, caches and loops.
LEMMA ControllerStoreType ==
    ASSUME StoreType, RunShape, RQueueType, ControllerStep PROVE (StoreType /\ RunShape)'
<1>1. CASE Cluster
  BY <1>1, ClusterStoreType
<1>2. CASE HandlePodTyped
  BY <1>2, HeadNote, HandlePodStoreType DEF HandlePodTyped, RQueueType, PodNote
<1>3. CASE HandleServiceTyped
  BY <1>3, HeadNote, HandleServiceStoreType DEF HandleServiceTyped, RQueueType, ServiceNote
<1>4. CASE HandleEndpointsTyped
  BY <1>4, HeadNote, HandleEndpointsStoreType
     DEF HandleEndpointsTyped, RQueueType, EndpointsNote
<1>5. ASSUME NEW k \in Kinds, Dirty(k) PROVE (StoreType /\ RunShape)'
  BY <1>5, DirtyStoreType
<1>6. CASE Reconciler
  BY <1>6, ReconcilerStoreType
<1>7. QED
  BY <1>1, <1>2, <1>3, <1>4, <1>5, <1>6 DEF ControllerStep

\* A restart resets caches and loops to their initial values, and its
\* resyncs are typed queues without tombstones.
LEMMA RestartType ==
    ASSUME StoreType, Restart
    PROVE  /\ TypeBool' /\ (StoreType /\ RunShape)' /\ RQueueType'
           /\ NoTomb(podQ') /\ NoTomb(serviceQ') /\ NoTomb(endpointsQ')
<1> USE FiniteKeysAssumption, RestartAssumption
<1>1. podQ' \in Seq(Pods \X PodObjects)
  BY ResyncQueue DEF StoreType, Restart
<1>2. serviceQ' \in Seq(Svcs \X ServiceObjects)
  BY ResyncQueue DEF StoreType, Restart
<1>3. endpointsQ' \in Seq(Svcs \X EndpointsObjects)
  BY ResyncQueue DEF StoreType, Restart
<1>4. NoTomb(podQ') /\ NoTomb(serviceQ') /\ NoTomb(endpointsQ')
  BY <1>1, <1>2, <1>3, TypedNoTomb
<1>5. RQueueType'
  BY <1>1, <1>2, <1>3 DEF RQueueType
<1>6. TypeBool'
  BY DEF Restart, TypeBool
<1>7. (StoreType /\ RunShape)'
  BY MarkerAssumption DEF Restart, StoreType, RunShape, Kinds
<1>8. QED
  BY <1>4, <1>5, <1>6, <1>7

\* A queue whose head is a tombstone holds one.
LEMMA HeadTomb ==
    ASSUME NEW S, NEW q \in Seq(S), q # << >>, Head(q)[2] = Tombstone
    PROVE  ~NoTomb(q)
BY DEF NoTomb

\* The controller's steps count at most one cluster change.
LEMMA ControllerSent ==
    ASSUME ControllerStep PROVE sent' = sent \/ sent' = sent + 1
<1>1. CASE Cluster
  BY <1>1, Zenon DEF Cluster, PodChange, PodRemove, ServiceChange, ServiceRemove,
     EndpointsChange, EndpointsRemove, Stop, clusterVars
<1>2. CASE HandlePodTyped \/ HandleServiceTyped \/ HandleEndpointsTyped
  BY <1>2 DEF HandlePodTyped, HandleServiceTyped, HandleEndpointsTyped, HandlePod,
     HandleService, HandleEndpoints
<1>3. ASSUME NEW k \in Kinds, Dirty(k) PROVE sent' = sent
  BY <1>3 DEF Dirty, clusterVars
<1>4. CASE Reconciler
  BY <1>4, Zenon DEF Reconciler, StartRun, NextRoute, CacheGet, RouteDelete, BeginConverge, NextProxy,
     ConvergeService, FinishRun, clusterVars
<1>5. QED
  BY <1>1, <1>2, <1>3, <1>4 DEF ControllerStep

LEMMA ControllerTypeStep == RTypeInv /\ ControllerStep => RTypeInv'
<1> SUFFICES ASSUME RTypeInv, ControllerStep PROVE RTypeInv'
  OBVIOUS
<1>1. TypeBool'
  BY ControllerIsNext, NextTypeBool DEF RTypeInv
<1>2. (StoreType /\ RunShape)'
  BY ControllerStoreType DEF RTypeInv
<1>3. RQueueType' /\ SameTombs
  BY ControllerQueues DEF RTypeInv
<1>4. FaultCount'
  <2>1. UNCHANGED faults /\ (sent' = sent \/ sent' = sent + 1)
    BY ControllerSent DEF ControllerStep
  <2>2. TombQueued' => TombQueued
    BY <1>3, Zenon DEF TombQueued, SameTombs
  <2>3. sent \in Nat
    BY DEF RTypeInv, StoreType
  <2>4. QED
    BY <2>1, <2>2, <2>3 DEF RTypeInv, FaultCount, faults
<1>5. QED
  BY <1>1, <1>2, <1>3, <1>4 DEF RTypeInv

LEMMA VanishTypeStep == RTypeInv /\ Vanish => RTypeInv'
<1> SUFFICES ASSUME RTypeInv, Vanish PROVE RTypeInv'
  OBVIOUS
<1> USE RestartAssumption, MarkerAssumption DEF RTypeInv, TypeBool, StoreType, RunShape,
        RQueueType, FaultCount, cacheVars, recVars, faults
<1>1. ASSUME NEW p \in Pods, PodVanish(p) PROVE RTypeInv'
  <2>1. podQ' \in Seq(Pods \X (PodObjects \cup {Deleted, Tombstone}))
    BY <1>1, AppendType DEF PodVanish
  <2>2. QED
    BY <1>1, <2>1 DEF PodVanish
<1>2. ASSUME NEW r \in Svcs, ServiceVanish(r) PROVE RTypeInv'
  <2>1. serviceQ' \in Seq(Svcs \X (ServiceObjects \cup {Deleted, Tombstone}))
    BY <1>2, AppendType DEF ServiceVanish
  <2>2. QED
    BY <1>2, <2>1 DEF ServiceVanish
<1>3. ASSUME NEW r \in Svcs, EndpointsVanish(r) PROVE RTypeInv'
  <2>1. endpointsQ' \in Seq(Svcs \X (EndpointsObjects \cup {Deleted, Tombstone}))
    BY <1>3, AppendType DEF EndpointsVanish
  <2>2. QED
    BY <1>3, <2>1 DEF EndpointsVanish
<1>4. QED
  BY <1>1, <1>2, <1>3 DEF Vanish

LEMMA ResetTypeStep == RTypeInv /\ Reset => RTypeInv'
<1> SUFFICES ASSUME RTypeInv, Reset PROVE RTypeInv'
  OBVIOUS
<1>1. TypeBool' /\ (StoreType /\ RunShape)' /\ RQueueType' /\ ~TombQueued'
  BY ResetRestarts, RestartType, Zenon DEF RTypeInv, TombQueued
<1>2. sent' = sent /\ sent \in Nat
  BY ResetRestarts DEF Restart, RTypeInv, StoreType
<1>3. CASE Crash
  <2>1. FaultCount'
    BY <1>1, <1>2, <1>3, RestartAssumption DEF Crash, RTypeInv, FaultCount
  <2>2. QED
    BY <1>1, <2>1 DEF RTypeInv
<1>4. CASE PodPanic \/ ServicePanic \/ EndpointsPanic
  <2>1. TombQueued
    BY <1>4, HeadTomb, Zenon DEF PodPanic, ServicePanic, EndpointsPanic, TombQueued,
       RTypeInv, RQueueType
  <2>2. panics' = panics + 1 /\ crashes' = crashes
    BY <1>4 DEF PodPanic, ServicePanic, EndpointsPanic
  <2>3. QED
    BY <1>1, <1>2, <2>1, <2>2 DEF RTypeInv, FaultCount
<1>5. QED
  BY <1>1, <1>3, <1>4 DEF Reset, RTypeInv

LEMMA RTypeStep == RTypeInv /\ [RNext]_rvars => RTypeInv'
<1> SUFFICES ASSUME RTypeInv, [RNext]_rvars PROVE RTypeInv'
  OBVIOUS
<1>1. CASE UNCHANGED rvars
  BY <1>1 DEF rvars, vars, faults, clusterVars, cacheVars, recVars, RTypeInv, TypeBool,
     StoreType, RunShape, RQueueType, FaultCount, TombQueued
<1>2. QED
  BY <1>1, RNextCases, ControllerTypeStep, VanishTypeStep, ResetTypeStep

\* Type correctness of the controller with tombstones, crashes and restarts:
\* queues hold typed objects, deletes or tombstones (a resync never lists an
\* object the cluster no longer holds), the route store only (service,
\* proxy) pairs, and every panic was caused by a queued tombstone.
THEOREM RTypeCorrect == RSpec => []RTypeOK
<1>1. RSpec => []RTypeInv
  BY RTypeInit, RTypeStep, PTL DEF RSpec
<1>2. QED
  BY <1>1, RTypeInvTypeOK, PTL

-----------------------------------------------------------------------------
(* A restart establishes the per-key invariants and the settled routes.    *)

\* The new process starts clean: no flag, no Dirty() call due, an idle
\* reconciler, and a route store as empty as the routes the caches call for.
LEMMA RestartClean == Restart => Clean' /\ CleanInv'
<1> SUFFICES ASSUME Restart PROVE Clean' /\ CleanInv'
  OBVIOUS
<1>1. Clean'
  BY Zenon DEF Restart, Clean, Kinds
<1>2. DesiredRoutes' = {} /\ routes' = {} /\ rstate' = "idle"
  BY DEF Restart, DesiredRoutes
<1>3. QED
  BY <1>1, <1>2 DEF CleanInv

\* After a restart the pod queue is a resync and the proxies cache is empty:
\* each pod is queued at most once, with its current object, and a pod that
\* is not queued has none.
LEMMA RestartPodQueue == ASSUME StoreType, Restart PROVE PodQueueInv'
<1> USE FiniteKeysAssumption
<1>1. /\ podQ' \in Seq(Pods \X PodObjects)
      /\ \A i \in 1..Len(podQ') : podQ'[i][2] = pod[podQ'[i][1]] /\ pod[podQ'[i][1]] # Absent
      /\ \A k \in Pods : pod[k] # Absent => \E i \in 1..Len(podQ') : podQ'[i][1] = k
      /\ \A i, j \in 1..Len(podQ') : podQ'[i][1] = podQ'[j][1] => i = j
  <2>1. pod \in [Pods -> PodObjects \cup {Absent}] /\ podQ' \in Resync(pod, Pods)
    BY DEF StoreType, Restart
  <2>0. Pods \subseteq DOMAIN pod /\ IsFiniteSet(Pods) /\ podQ' \in Resync(pod, Pods)
    BY <2>1
  <2>2. podQ' \in Seq(Pods \X PodObjects)
    BY <2>1, ResyncQueue
  <2>3. ResyncShape(podQ', pod, Pods)
    BY <2>0, ResyncEntries
  <2>6. QED
    BY <2>2, <2>3 DEF ResyncShape
<1>2. pod' = pod /\ proxies' = {}
  BY DEF Restart
<1> SUFFICES ASSUME NEW p \in Pods PROVE PodKeyInv(p)'
  BY DEF PodQueueInv
<1>3. \A i \in 1..Len(podQ') : podQ'[i][2] # Deleted
  BY <1>1, MarkerAssumption
<1>4. LastMatches(podQ, p, pod[p])'
  BY <1>1, <1>2, <1>3 DEF LastMatches, LastFor, Matches
<1>5. HostChain(podQ, p)'
  BY <1>1 DEF HostChain, Scheduled
<1>6. HostLast(podQ, p, pod[p])'
  <2> SUFFICES ASSUME NEW i \in 1..Len(podQ'), Scheduled(podQ', p, i)
               PROVE  pod[p] # Absent /\ pod[p].hostIP = podQ'[i][2].hostIP
    BY <1>2 DEF HostLast
  <2>1. podQ'[i][1] = p
    BY DEF Scheduled
  <2>2. QED
    BY <1>1, <2>1
<1>7. CachedHost(podQ, p, pod[p])'
  BY <1>2 DEF CachedHost
<1>8. ProxyTracks(p)'
  <2>1. ~HasKey(podQ', p) => pod[p] = Absent
    BY <1>1 DEF HasKey
  <2>2. QED
    BY <1>2, <2>1 DEF ProxyTracks, HasKey, EligibleProxies
<1>9. QED
  BY <1>4, <1>5, <1>6, <1>7, <1>8 DEF PodKeyInv

\* The same for the endpoints queue and cache.
LEMMA RestartEndpointsQueue == ASSUME StoreType, Restart PROVE EndpointsQueueInv'
<1> USE FiniteKeysAssumption
<1>1. /\ endpointsQ' \in Seq(Svcs \X EndpointsObjects)
      /\ \A i \in 1..Len(endpointsQ') :
            endpointsQ'[i][2] = endpointsObj[endpointsQ'[i][1]]
      /\ \A k \in Svcs : endpointsObj[k] # Absent =>
            \E i \in 1..Len(endpointsQ') : endpointsQ'[i][1] = k
  <2>1. /\ endpointsObj \in [Svcs -> EndpointsObjects \cup {Absent}]
        /\ endpointsQ' \in Resync(endpointsObj, Svcs)
    BY DEF StoreType, Restart
  <2>0. /\ Svcs \subseteq DOMAIN endpointsObj /\ IsFiniteSet(Svcs)
        /\ endpointsQ' \in Resync(endpointsObj, Svcs)
    BY <2>1
  <2>2. endpointsQ' \in Seq(Svcs \X EndpointsObjects)
    BY <2>1, ResyncQueue
  <2>3. ResyncShape(endpointsQ', endpointsObj, Svcs)
    BY <2>0, ResyncEntries
  <2>5. QED
    BY <2>2, <2>3 DEF ResyncShape
<1>2. endpointsObj' = endpointsObj /\ endpoints' = {}
  BY DEF Restart
<1> SUFFICES ASSUME NEW s \in Svcs PROVE EndpointsKeyInv(s)'
  BY DEF EndpointsQueueInv
<1>3. \A i \in 1..Len(endpointsQ') : endpointsQ'[i][2] # Deleted
  BY <1>1, MarkerAssumption
<1>4. LastMatches(endpointsQ, s, endpointsObj[s])'
  BY <1>1, <1>2, <1>3 DEF LastMatches, LastFor, Matches
<1>5. EndpointsTracks(s)'
  <2>1. ~HasKey(endpointsQ', s) => endpointsObj[s] = Absent
    BY <1>1 DEF HasKey
  <2>2. QED
    BY <1>2, <2>1 DEF EndpointsTracks, HasKey, EligibleEndpoints
<1>6. QED
  BY <1>4, <1>5 DEF EndpointsKeyInv

-----------------------------------------------------------------------------
(* The route store under restarts.                                         *)

\* The inductive invariant of ExternalServicesProofs, over the restart model.
RSettledInv == RTypeInv /\ (Clean => CleanInv)

LEMMA RTypeCleanType == RTypeInv => CleanType
BY DEF RTypeInv, StoreType, CleanType

LEMMA RSettledStep == RSettledInv /\ [RNext]_rvars => RSettledInv'
<1> SUFFICES ASSUME RSettledInv, [RNext]_rvars PROVE RSettledInv'
  OBVIOUS
<1>1. RTypeInv'
  BY RTypeStep DEF RSettledInv
<1>2. CASE ControllerStep
  BY <1>1, <1>2, ControllerIsNext, NextCleanInv, RTypeCleanType DEF RSettledInv
<1>3. CASE Vanish \/ UNCHANGED rvars
  <2>1. UNCHANGED <<dirty, hpc, proxies, services, endpoints, rstate, toPrune, prVars,
                    cvProxies, cvProxy, cvSvcs, routes>>
    BY <1>3, Zenon DEF Vanish, PodVanish, ServiceVanish, EndpointsVanish, cacheVars,
       recVars, rvars, vars, prVars
  <2>2. (Clean => CleanInv)'
    BY <2>1, CleanBefore, CleanInvFrame DEF RSettledInv
  <2>3. QED
    BY <1>1, <2>2 DEF RSettledInv
<1>4. CASE Reset
  BY <1>1, <1>4, ResetRestarts, RestartClean DEF RSettledInv
<1>5. QED
  BY <1>2, <1>3, <1>4, RNextCases

\* The dirty-flag protocol survives restarts: whenever the reconciler is
\* idle with no pending flag and no Dirty() call due, the route store
\* equals the routes the caches call for, also after any number of
\* tombstone panics and crashes (the new process starts clean with an empty
\* route store and empty caches).
THEOREM RSettledRoutesCorrect == RSpec => []RoutesMatchCachesWhenSettled
<1>1. RInit => RSettledInv
  <2>1. Init => (Clean => CleanInv)
    BY InitIInv DEF IInv
  <2>2. QED
    BY <2>1, RTypeInit DEF RInit, RSettledInv
<1>2. RSettledInv => RoutesMatchCachesWhenSettled
  BY DEF RSettledInv, Clean, Settled, CleanInv, RoutesMatchCachesWhenSettled
<1>3. QED
  BY <1>1, <1>2, RSettledStep, PTL DEF RSpec

-----------------------------------------------------------------------------
(* The caches under restarts.                                              *)

\* The pod invariant reads only the pods, their queue and the proxies cache.
LEMMA PodInvFrame ==
    ASSUME PodQueueInv, UNCHANGED <<pod, podQ, proxies>> PROVE PodQueueInv'
<1> SUFFICES ASSUME NEW p \in Pods PROVE PodKeyInv(p)'
  BY DEF PodQueueInv
<1>1. PodKeyInv(p)
  BY DEF PodQueueInv
<1>2. LastMatches(podQ, p, pod[p])'
  BY <1>1 DEF PodKeyInv, LastMatches, LastFor, Matches
<1>3. HostChain(podQ, p)'
  BY <1>1 DEF PodKeyInv, HostChain, Scheduled, Clear, DelAt
<1>4. HostLast(podQ, p, pod[p])'
  BY <1>1 DEF PodKeyInv, HostLast, Scheduled, Clear, DelAt
<1>5. CachedHost(podQ, p, pod[p])' /\ ProxyTracks(p)'
  BY <1>1 DEF PodKeyInv, CachedHost, Clear, DelAt, ProxyTracks, HasKey, EligibleProxies
<1>6. QED
  BY <1>2, <1>3, <1>4, <1>5 DEF PodKeyInv

\* The endpoints invariant reads only the endpoints, their queue and cache.
LEMMA EndpointsInvFrame ==
    ASSUME EndpointsQueueInv, UNCHANGED <<endpointsObj, endpointsQ, endpoints>>
    PROVE  EndpointsQueueInv'
BY DEF EndpointsQueueInv, EndpointsKeyInv, LastMatches, LastFor, Matches,
   EndpointsTracks, HasKey, EligibleEndpoints

\* The per-key invariants of CacheTrackingProofs, claimed for a kind while
\* its queue holds no tombstone.
RCacheInv ==
    /\ RTypeInv
    /\ NoTomb(podQ) => PodQueueInv
    /\ NoTomb(endpointsQ) => EndpointsQueueInv

LEMMA RCacheStep ==
    ASSUME NodeIsIPv4 PROVE RCacheInv /\ [RNext]_rvars => RCacheInv'
<1> SUFFICES ASSUME RCacheInv, [RNext]_rvars PROVE RCacheInv'
  OBVIOUS
<1>1. RTypeInv'
  BY RTypeStep DEF RCacheInv
<1>2. CASE ControllerStep
  <2>1. SameTombs /\ [Next]_vars
    BY <1>2, ControllerQueues, ControllerIsNext DEF RCacheInv, RTypeInv
  <2>2. (NoTomb(podQ) => PodQueueInv)'
    <3> SUFFICES ASSUME NoTomb(podQ') PROVE PodQueueInv'
      OBVIOUS
    <3>1. NoTomb(podQ) /\ PodQueueInv
      BY <2>1 DEF SameTombs, RCacheInv
    <3>2. PodType
      BY <3>1, NoTombType DEF RCacheInv, RTypeInv, RQueueType, StoreType, PodType, PodNote
    <3>3. QED
      BY <2>1, <3>1, <3>2, PodQueueStep
  <2>3. (NoTomb(endpointsQ) => EndpointsQueueInv)'
    <3> SUFFICES ASSUME NoTomb(endpointsQ') PROVE EndpointsQueueInv'
      OBVIOUS
    <3>1. NoTomb(endpointsQ) /\ EndpointsQueueInv
      BY <2>1 DEF SameTombs, RCacheInv
    <3>2. EndpointsType
      BY <3>1, NoTombType DEF RCacheInv, RTypeInv, RQueueType, StoreType, EndpointsType,
         EndpointsNote
    <3>3. QED
      BY <2>1, <3>1, <3>2, EndpointsQueueStep
  <2>4. QED
    BY <1>1, <2>2, <2>3 DEF RCacheInv
<1>3. ASSUME NEW p \in Pods, PodVanish(p) PROVE RCacheInv'
  <2>1. ~NoTomb(podQ')
    BY <1>3, NoTombAppend DEF PodVanish, RCacheInv, RTypeInv, RQueueType
  <2>2. (NoTomb(endpointsQ) => EndpointsQueueInv)'
    BY <1>3, EndpointsInvFrame DEF PodVanish, RCacheInv, cacheVars
  <2>3. QED
    BY <1>1, <2>1, <2>2 DEF RCacheInv
<1>4. ASSUME NEW r \in Svcs, ServiceVanish(r) PROVE RCacheInv'
  <2>1. (NoTomb(podQ) => PodQueueInv)' /\ (NoTomb(endpointsQ) => EndpointsQueueInv)'
    BY <1>4, PodInvFrame, EndpointsInvFrame DEF ServiceVanish, RCacheInv, cacheVars
  <2>2. QED
    BY <1>1, <2>1 DEF RCacheInv
<1>5. ASSUME NEW r \in Svcs, EndpointsVanish(r) PROVE RCacheInv'
  <2>1. ~NoTomb(endpointsQ')
    BY <1>5, NoTombAppend DEF EndpointsVanish, RCacheInv, RTypeInv, RQueueType
  <2>2. (NoTomb(podQ) => PodQueueInv)'
    BY <1>5, PodInvFrame DEF EndpointsVanish, RCacheInv, cacheVars
  <2>3. QED
    BY <1>1, <2>1, <2>2 DEF RCacheInv
<1>6. CASE Reset
  <2>1. StoreType /\ Restart
    BY <1>6, ResetRestarts DEF RCacheInv, RTypeInv
  <2>2. QED
    BY <1>1, <2>1, RestartPodQueue, RestartEndpointsQueue DEF RCacheInv
<1>7. CASE UNCHANGED rvars
  BY <1>1, <1>7, PodInvFrame, EndpointsInvFrame DEF RCacheInv, rvars, vars, clusterVars,
     cacheVars, NoTomb
<1>8. QED
  BY <1>2, <1>3, <1>4, <1>5, <1>6, <1>7, RNextCases DEF Vanish

\* On an IPv4 node, the proxies and endpoints caches equal the readiness
\* filters of the cluster whenever their informer is drained, also across
\* tombstone panics, crashes and the resyncs that follow them: a drained
\* queue holds no tombstone, and a restart lists every current object.
THEOREM RCachesTracked ==
    ASSUME NodeIsIPv4 PROVE RSpec => []CachesTrackCluster
<1>1. RInit => RCacheInv
  BY RTypeInit, PodQueueInit, EndpointsQueueInit DEF RInit, RCacheInv
<1>2. RCacheInv => CachesTrackCluster
  <2> SUFFICES ASSUME RCacheInv PROVE CachesTrackCluster
    OBVIOUS
  <2>1. proxies \subseteq Pods /\ endpoints \subseteq Svcs
    BY DEF RCacheInv, RTypeInv, StoreType
  <2>2. podQ = << >> => PodQueueInv
    BY DEF RCacheInv, NoTomb
  <2>3. endpointsQ = << >> => EndpointsQueueInv
    BY DEF RCacheInv, NoTomb
  <2>4. QED
    BY <2>1, <2>2, <2>3, ProxiesDrained, EndpointsDrained DEF CachesTrackCluster
<1>3. QED
  BY <1>1, <1>2, RCacheStep, PTL DEF RSpec

=============================================================================
