--------------------- MODULE ExternalServicesProofs ---------------------
(***************************************************************************)
(* Proofs about ExternalServices for every value of the constants.        *)
(***************************************************************************)
EXTENDS ExternalServices, TLAPS

\* The shape of the reconciler's loop variables that the type of routes
\* rests on: an inner-loop service is only pending under a current proxy,
\* and only while the converge loop runs; the prune loop body is only on a
\* route while the prune loop runs.
RunShape ==
    /\ cvSvcs # {} => cvProxy \in Pods
    /\ rstate # "converge" => cvSvcs = {}
    /\ rstate # "prune" => prRoute = NoRoute
    /\ prRoute = NoRoute => prStage = "get"

TypeInv == TypeOK /\ RunShape

\* Informer queues keep their element type under Append and Tail.
LEMMA AppendType ==
    ASSUME NEW S, NEW q \in Seq(S), NEW e \in S
    PROVE  Append(q, e) \in Seq(S)
OBVIOUS

LEMMA TailType ==
    ASSUME NEW S, NEW q \in Seq(S), q # << >>
    PROVE  Tail(q) \in Seq(S) /\ Head(q) \in S
OBVIOUS

LEMMA InitTypeInv == Init => TypeInv
<1> SUFFICES ASSUME Init PROVE TypeInv
  OBVIOUS
<1>1. TypeOK
  <2>1. dirty \in BOOLEAN /\ stopped \in BOOLEAN
    BY DEF Init
  <2>2. /\ pod \in [Pods -> PodObjects \cup {Absent}]
        /\ service \in [Svcs -> ServiceObjects \cup {Absent}]
        /\ endpointsObj \in [Svcs -> EndpointsObjects \cup {Absent}]
        /\ podQ \in Seq(Pods \X (PodObjects \cup {Deleted}))
        /\ serviceQ \in Seq(Svcs \X (ServiceObjects \cup {Deleted}))
        /\ endpointsQ \in Seq(Svcs \X (EndpointsObjects \cup {Deleted}))
    BY DEF Init
  <2>3. /\ sent \in Nat
        /\ proxies \subseteq Pods /\ services \subseteq Svcs /\ endpoints \subseteq Svcs
        /\ svcObj \in [Svcs -> ServiceObjects \cup {Absent}]
        /\ hpc \in [Kinds -> {"idle", "dirty"}]
        /\ rstate \in {"idle", "prune", "converge"}
        /\ toPrune \subseteq Routes
        /\ prRoute \in Routes \cup {NoRoute}
        /\ prCheck \in 1..3
        /\ prStage \in {"get", "delete"}
        /\ cvProxies \subseteq Pods
        /\ cvProxy \in Pods \cup {NoPod}
        /\ cvSvcs \subseteq Svcs
        /\ routes \subseteq Routes
        /\ failures \in 0..MaxFailures
    BY BoundsAssumption DEF Init
  <2>4. QED
    BY <2>1, <2>2, <2>3, Zenon DEF TypeOK
<1>2. RunShape
  BY DEF Init, RunShape
<1>3. QED
  BY <1>1, <1>2 DEF TypeInv

\* Every step of Next keeps TypeOK and RunShape.
\* TypeOK split into its Boolean-valued part, which Zenon handles, the
\* informer queues, and the rest, which needs SMT's arithmetic and sets.
TypeBool == dirty \in BOOLEAN /\ stopped \in BOOLEAN

\* The notifications an informer delivers to the handlers of its kind.
PodNote == Pods \X (PodObjects \cup {Deleted})
ServiceNote == Svcs \X (ServiceObjects \cup {Deleted})
EndpointsNote == Svcs \X (EndpointsObjects \cup {Deleted})

QueueType ==
    /\ podQ \in Seq(PodNote)
    /\ serviceQ \in Seq(ServiceNote)
    /\ endpointsQ \in Seq(EndpointsNote)

StoreType ==
    /\ pod \in [Pods -> PodObjects \cup {Absent}]
    /\ service \in [Svcs -> ServiceObjects \cup {Absent}]
    /\ endpointsObj \in [Svcs -> EndpointsObjects \cup {Absent}]
    /\ sent \in Nat
    /\ proxies \subseteq Pods /\ services \subseteq Svcs /\ endpoints \subseteq Svcs
    /\ svcObj \in [Svcs -> ServiceObjects \cup {Absent}]
    /\ hpc \in [Kinds -> {"idle", "dirty"}]
    /\ rstate \in {"idle", "prune", "converge"}
    /\ toPrune \subseteq Routes
    /\ prRoute \in Routes \cup {NoRoute}
    /\ prCheck \in 1..3
    /\ prStage \in {"get", "delete"}
    /\ cvProxies \subseteq Pods
    /\ cvProxy \in Pods \cup {NoPod}
    /\ cvSvcs \subseteq Svcs
    /\ routes \subseteq Routes
    /\ failures \in 0..MaxFailures

TypeRest == QueueType /\ StoreType

LEMMA TypeSplit == TypeOK <=> TypeBool /\ TypeRest
BY Zenon DEF TypeOK, TypeBool, TypeRest, QueueType, StoreType, PodNote, ServiceNote,
   EndpointsNote

LEMMA TypeSplitNext == TypeOK' <=> TypeBool' /\ TypeRest'
BY Zenon DEF TypeOK, TypeBool, TypeRest, QueueType, StoreType, PodNote, ServiceNote,
   EndpointsNote

\* No step makes dirty or stopped non-Boolean.
LEMMA NextTypeBool == TypeBool /\ [Next]_vars => TypeBool'
BY Zenon DEF TypeBool, Next, vars, recVars, Cluster, Handlers, Reconciler,
   PodChange, PodRemove, ServiceChange, ServiceRemove, EndpointsChange,
   EndpointsRemove, Stop, HandlePod, HandleService, HandleEndpoints, Dirty,
   StartRun, NextRoute, CacheGet, RouteDelete, NextCheck, BeginConverge, NextProxy,
   ConvergeService, FinishRun, Abort

\* A cluster change stores a well-typed object.
LEMMA ClusterStoreType ==
    ASSUME StoreType, RunShape, Cluster PROVE (StoreType /\ RunShape)'
<1> USE BoundsAssumption DEF StoreType, RunShape, clusterVars, cacheVars, recVars
<1>1. ASSUME NEW p \in Pods, NEW o \in PodObjects, PodChange(p, o) PROVE (StoreType /\ RunShape)'
  <2>1. pod' = [pod EXCEPT ![p] = o]
    BY <1>1 DEF PodChange
  <2>2. pod' \in [Pods -> PodObjects \cup {Absent}]
    BY <2>1
  <2>3. /\ sent' = sent + 1
        /\ UNCHANGED <<service, endpointsObj, cacheVars, recVars>>
    BY <1>1, Zenon DEF PodChange
  <2>4. QED
    BY <2>2, <2>3
<1>2. ASSUME NEW p \in Pods, PodRemove(p) PROVE (StoreType /\ RunShape)'
  BY <1>2 DEF PodRemove
<1>3. ASSUME NEW s \in Svcs, NEW o \in ServiceObjects, ServiceChange(s, o)
      PROVE (StoreType /\ RunShape)'
  BY <1>3 DEF ServiceChange
<1>4. ASSUME NEW s \in Svcs, ServiceRemove(s) PROVE (StoreType /\ RunShape)'
  BY <1>4 DEF ServiceRemove
<1>5. ASSUME NEW s \in Svcs, NEW o \in EndpointsObjects, EndpointsChange(s, o)
      PROVE (StoreType /\ RunShape)'
  BY <1>5 DEF EndpointsChange
<1>6. ASSUME NEW s \in Svcs, EndpointsRemove(s) PROVE (StoreType /\ RunShape)'
  BY <1>6 DEF EndpointsRemove
<1>7. CASE Stop
  BY <1>7 DEF Stop
<1>8. QED
  BY <1>1, <1>2, <1>3, <1>4, <1>5, <1>6, <1>7 DEF Cluster

\* A handler that is handed a well-typed notification keeps the types.
LEMMA HandlePodStoreType ==
    ASSUME StoreType, RunShape, HandlePod, Head(podQ) \in PodNote
    PROVE  (StoreType /\ RunShape)'
BY DEF StoreType, RunShape, HandlePod, podAdd, podDelete, Raise, recVars, PodNote, Kinds

LEMMA HandleServiceStoreType ==
    ASSUME StoreType, RunShape, HandleService, Head(serviceQ) \in ServiceNote
    PROVE  (StoreType /\ RunShape)'
<1> USE DEF StoreType, RunShape, recVars, Kinds
<1> DEFINE e == Head(serviceQ)
<1>1. UNCHANGED <<pod, service, endpointsObj, sent, proxies, endpoints, recVars>>
  BY DEF HandleService
<1>2. hpc' \in [Kinds -> {"idle", "dirty"}]
  <2>1. \E b : Raise("service", b)
    BY Zenon DEF HandleService, serviceAdd, serviceDelete
  <2>2. QED
    BY <2>1 DEF Raise
<1>3. CASE e[2] = Deleted
  <2>1. serviceDelete(e[1])
    BY <1>3 DEF HandleService
  <2>2. QED
    BY <1>1, <1>2, <2>1 DEF serviceDelete, ServiceNote
<1>4. CASE e[2] # Deleted /\ e[2].externalIPs = {}
  <2>1. UNCHANGED <<services, svcObj>>
    BY <1>4, Zenon DEF HandleService, serviceAdd
  <2>2. QED
    BY <1>1, <1>2, <2>1
<1>5. CASE e[2] # Deleted /\ e[2].externalIPs # {}
  <2>1. /\ services' = services \cup {e[1]}
        /\ svcObj' = IF e[1] \in services THEN svcObj ELSE [svcObj EXCEPT ![e[1]] = e[2]]
    BY <1>5, Zenon DEF HandleService, serviceAdd
  <2>2. e[1] \in Svcs /\ e[2] \in ServiceObjects
    BY <1>5 DEF ServiceNote
  <2>3. QED
    BY <1>1, <1>2, <2>1, <2>2
<1>6. QED
  BY <1>3, <1>4, <1>5

LEMMA HandleEndpointsStoreType ==
    ASSUME StoreType, RunShape, HandleEndpoints, Head(endpointsQ) \in EndpointsNote
    PROVE  (StoreType /\ RunShape)'
BY DEF StoreType, RunShape, HandleEndpoints, endpointsAdd, endpointsDelete, Raise, recVars,
   EndpointsNote, Kinds

LEMMA DirtyStoreType ==
    ASSUME StoreType, RunShape, NEW k \in Kinds, Dirty(k) PROVE (StoreType /\ RunShape)'
BY DEF StoreType, RunShape, Dirty, clusterVars, prVars

\* The reconciler's steps keep the types of the route store and its loops.
LEMMA ReconcilerStoreType ==
    ASSUME StoreType, RunShape, Reconciler PROVE (StoreType /\ RunShape)'
<1> USE BoundsAssumption DEF StoreType, RunShape, clusterVars, cacheVars, Routes, prVars
<1>1. CASE StartRun
  BY <1>1 DEF StartRun
<1>2. ASSUME NEW r \in Routes, NextRoute(r) PROVE (StoreType /\ RunShape)'
  BY <1>2 DEF NextRoute
<1>8. CASE CacheGet
  BY <1>8 DEF CacheGet, NextCheck
<1>9. CASE RouteDelete
  <2>1. CASE Fail /\ UNCHANGED routes /\ Abort
    BY <1>9, <2>1 DEF RouteDelete, Abort, Fail
  <2>2. CASE /\ routes' = routes \ {prRoute}
             /\ NextCheck
             /\ UNCHANGED <<dirty, rstate, toPrune, cvProxies, cvProxy, cvSvcs, failures>>
    BY <1>9, <2>2 DEF RouteDelete, NextCheck
  <2>3. QED
    BY <1>9, <2>1, <2>2 DEF RouteDelete
<1>3. CASE BeginConverge
  BY <1>3 DEF BeginConverge
<1>4. ASSUME NEW p \in Pods, NextProxy(p) PROVE (StoreType /\ RunShape)'
  BY <1>4 DEF NextProxy
<1>5. ASSUME NEW s \in Svcs, ConvergeService(s) PROVE (StoreType /\ RunShape)'
  BY <1>5 DEF ConvergeService, Abort, Fail
<1>6. CASE FinishRun
  BY <1>6 DEF FinishRun
<1>7. QED
  BY <1>1, <1>2, <1>3, <1>4, <1>5, <1>6, <1>8, <1>9 DEF Reconciler

\* Every step of Next keeps the rest of TypeOK and RunShape: the queues
\* grow by typed notifications and shrink by their head.
LEMMA NextTypeRest == TypeRest /\ RunShape /\ [Next]_vars => (TypeRest /\ RunShape)'
<1> SUFFICES ASSUME QueueType, StoreType, RunShape, [Next]_vars
             PROVE  QueueType' /\ (StoreType /\ RunShape)'
  BY DEF TypeRest
<1>1. CASE Cluster
  <2>1. QueueType'
    <3> USE DEF QueueType, PodNote, ServiceNote, EndpointsNote
    <3>1. ASSUME NEW p \in Pods, NEW o \in PodObjects, PodChange(p, o) PROVE QueueType'
      BY <3>1, AppendType DEF PodChange
    <3>2. ASSUME NEW p \in Pods, PodRemove(p) PROVE QueueType'
      BY <3>2, AppendType DEF PodRemove
    <3>3. ASSUME NEW r \in Svcs, NEW o \in ServiceObjects, ServiceChange(r, o) PROVE QueueType'
      BY <3>3, AppendType DEF ServiceChange
    <3>4. ASSUME NEW r \in Svcs, ServiceRemove(r) PROVE QueueType'
      BY <3>4, AppendType DEF ServiceRemove
    <3>5. ASSUME NEW r \in Svcs, NEW o \in EndpointsObjects, EndpointsChange(r, o)
          PROVE QueueType'
      BY <3>5, AppendType DEF EndpointsChange
    <3>6. ASSUME NEW r \in Svcs, EndpointsRemove(r) PROVE QueueType'
      BY <3>6, AppendType DEF EndpointsRemove
    <3>7. CASE Stop
      BY <3>7 DEF Stop, clusterVars
    <3>8. QED
      BY <1>1, <3>1, <3>2, <3>3, <3>4, <3>5, <3>6, <3>7 DEF Cluster
  <2>2. QED
    BY <1>1, <2>1, ClusterStoreType
<1>2. CASE HandlePod
  BY <1>2, TailType, HandlePodStoreType DEF QueueType, HandlePod
<1>3. CASE HandleService
  BY <1>3, TailType, HandleServiceStoreType DEF QueueType, HandleService
<1>4. CASE HandleEndpoints
  BY <1>4, TailType, HandleEndpointsStoreType DEF QueueType, HandleEndpoints
<1>5. ASSUME NEW k \in Kinds, Dirty(k) PROVE QueueType' /\ (StoreType /\ RunShape)'
  BY <1>5, DirtyStoreType DEF QueueType, Dirty, clusterVars
<1>6. CASE Reconciler
  <2>1. UNCHANGED clusterVars
    BY <1>6, Zenon DEF Reconciler, StartRun, NextRoute, CacheGet, RouteDelete, BeginConverge,
       NextProxy, ConvergeService, FinishRun
  <2>2. QED
    BY <1>6, <2>1, ReconcilerStoreType DEF QueueType, clusterVars
<1>7. CASE UNCHANGED vars
  BY <1>7 DEF vars, clusterVars, cacheVars, recVars, QueueType, StoreType, RunShape
<1>8. QED
  BY <1>1, <1>2, <1>3, <1>4, <1>5, <1>6, <1>7 DEF Next, Handlers

LEMMA NextTypeInv == TypeInv /\ [Next]_vars => TypeInv'
BY NextTypeBool, NextTypeRest, TypeSplit, TypeSplitNext, Zenon DEF TypeInv

\* Type correctness of every reachable state: object values, informer
\* queues, caches, reconciler loop variables and the route store.
THEOREM TypeCorrect == Spec => []TypeOK
<1>1. Spec => []TypeInv
  BY InitTypeInv, NextTypeInv, PTL DEF Spec
<1>2. QED
  BY <1>1, PTL DEF TypeInv

-----------------------------------------------------------------------------
(* The settled-routes invariant.  It is not inductive by itself: while a   *)
(* run is in flight, the routes it has already visited must be right for   *)
(* the caches as long as no handler has changed one since the run cleared  *)
(* the flag ("Clean"); a handler that does change one leaves a Dirty()     *)
(* call due, after which the flag forces another run.                      *)

\* No cache change has happened since the current run (if any) started.
Clean == ~dirty /\ \A k \in Kinds : hpc[k] = "idle"

\* Every desired route is in the store or still ahead of the converge loop.
ConvergeCover ==
    \A r \in DesiredRoutes :
        \/ r \in routes
        \/ r[2] \in cvProxies
        \/ r[2] = cvProxy /\ r[1] \in cvSvcs

\* The route the prune loop body is on: every lookup before the current
\* one hit, and after a miss routes.Delete is next.  Routes it is done with
\* and those not in routes.List() are desired.
PruneShape ==
    /\ (routes \ toPrune) \ {prRoute} \subseteq DesiredRoutes
    /\ prRoute \in routes => \A c \in 1..(prCheck - 1) : ~Missing(prRoute, c)
    /\ prStage = "delete" => Missing(prRoute, prCheck)

CleanInv ==
    /\ rstate = "idle" => routes = DesiredRoutes
    /\ rstate = "prune" => PruneShape
    /\ rstate = "converge" =>
          /\ routes \subseteq DesiredRoutes
          /\ cvProxies \subseteq proxies
          /\ cvSvcs \subseteq services
          /\ cvSvcs # {} => cvProxy \in proxies
          /\ ConvergeCover

IInv == TypeInv /\ (Clean => CleanInv)

\* A handler that leaves no Dirty() call due has not changed its cache.
LEMMA PodHandlerQuiet ==
    ASSUME hpc \in [Kinds -> {"idle", "dirty"}], HandlePod, hpc'["pod"] = "idle"
    PROVE  proxies' = proxies
<1> DEFINE e == Head(podQ)
<1>1. CASE e[2] = Deleted
  <2>1. podDelete(e[1])
    BY <1>1 DEF HandlePod
  <2>2. QED
    BY <2>1 DEF podDelete, Raise, Kinds
<1>2. CASE e[2] # Deleted
  <2>1. podAdd(e[1], e[2])
    BY <1>2 DEF HandlePod
  <2>2. CASE e[1] \notin ProxyPods \/ e[2].hostIP # HostIPString
    BY <2>1, <2>2 DEF podAdd, Raise, Kinds
  <2>3. CASE ~(e[1] \notin ProxyPods \/ e[2].hostIP # HostIPString) /\ IsPodReady(e[2])
    <3>1. proxies' = proxies \cup {e[1]} /\ Raise("pod", e[1] \notin proxies)
      BY <2>1, <2>3, Zenon DEF podAdd
    <3>2. QED
      BY <3>1 DEF Raise, Kinds
  <2>4. CASE ~(e[1] \notin ProxyPods \/ e[2].hostIP # HostIPString) /\ ~IsPodReady(e[2])
    <3>1. proxies' = proxies \ {e[1]} /\ Raise("pod", e[1] \in proxies)
      BY <2>1, <2>4, Zenon DEF podAdd
    <3>2. QED
      BY <3>1 DEF Raise, Kinds
  <2>5. QED
    BY <2>2, <2>3, <2>4
<1>3. QED
  BY <1>1, <1>2

LEMMA ServiceHandlerQuiet ==
    ASSUME hpc \in [Kinds -> {"idle", "dirty"}], HandleService, hpc'["service"] = "idle"
    PROVE  services' = services
<1> DEFINE e == Head(serviceQ)
<1>1. CASE e[2] = Deleted
  <2>1. serviceDelete(e[1])
    BY <1>1 DEF HandleService
  <2>2. QED
    BY <2>1 DEF serviceDelete, Raise, Kinds
<1>2. CASE e[2] # Deleted
  <2>1. serviceAdd(e[1], e[2])
    BY <1>2 DEF HandleService
  <2>2. CASE e[2].externalIPs = {}
    BY <2>1, <2>2 DEF serviceAdd, Raise, Kinds
  <2>3. CASE e[2].externalIPs # {}
    <3>1. services' = services \cup {e[1]} /\ Raise("service", e[1] \notin services)
      BY <2>1, <2>3, Zenon DEF serviceAdd
    <3>2. QED
      BY <3>1 DEF Raise, Kinds
  <2>4. QED
    BY <2>2, <2>3
<1>3. QED
  BY <1>1, <1>2

LEMMA EndpointsHandlerQuiet ==
    ASSUME hpc \in [Kinds -> {"idle", "dirty"}], HandleEndpoints, hpc'["endpoints"] = "idle"
    PROVE  endpoints' = endpoints
<1> DEFINE e == Head(endpointsQ)
<1>1. CASE e[2] = Deleted
  <2>1. endpointsDelete(e[1])
    BY <1>1 DEF HandleEndpoints
  <2>2. QED
    BY <2>1 DEF endpointsDelete, Raise, Kinds
<1>2. CASE e[2] # Deleted
  <2>1. endpointsAdd(e[1], e[2])
    BY <1>2 DEF HandleEndpoints
  <2>2. CASE EndpointsReady(e[2])
    <3>1. endpoints' = endpoints \cup {e[1]} /\ Raise("endpoints", e[1] \notin endpoints)
      BY <2>1, <2>2, Zenon DEF endpointsAdd
    <3>2. QED
      BY <3>1 DEF Raise, Kinds
  <2>3. CASE ~EndpointsReady(e[2])
    <3>1. endpoints' = endpoints \ {e[1]} /\ Raise("endpoints", e[1] \in endpoints)
      BY <2>1, <2>3, Zenon DEF endpointsAdd
    <3>2. QED
      BY <3>1 DEF Raise, Kinds
  <2>4. QED
    BY <2>2, <2>3
<1>3. QED
  BY <1>1, <1>2

\* The conjuncts of CleanInv depend only on the caches, the route store and
\* the reconciler's loop variables: steps that change none of them keep it.
LEMMA CleanInvFrame ==
    ASSUME CleanInv,
           UNCHANGED <<proxies, services, endpoints, rstate, toPrune, prVars,
                       cvProxies, cvProxy, cvSvcs, routes>>
    PROVE  CleanInv'
BY DEF CleanInv, PruneShape, Missing, ConvergeCover, DesiredRoutes, prVars

\* A step that leaves the flag and the handlers' state alone and ends clean
\* started clean, so CleanInv held before it.
LEMMA CleanBefore ==
    ASSUME Clean => CleanInv, Clean', dirty' = dirty, hpc' = hpc
    PROVE  Clean /\ CleanInv
BY Zenon DEF Clean

\* The part of the type invariant the settled-routes argument rests on.
CleanType ==
    /\ hpc \in [Kinds -> {"idle", "dirty"}] /\ proxies \subseteq Pods /\ RunShape
    /\ routes \subseteq Routes /\ prCheck \in 1..3 /\ prRoute \in Routes \cup {NoRoute}

\* NoRoute is no route: NoPod is no pod.
LEMMA NoRouteNotRoute == NoRoute \notin Routes
BY MarkerAssumption DEF NoRoute, Routes

\* A route is desired exactly when none of the three lookups misses.
LEMMA DesiredNoMiss ==
    ASSUME NEW r \in Routes
    PROVE  r \in DesiredRoutes <=> \A c \in 1..3 : ~Missing(r, c)
BY DEF DesiredRoutes, Missing

LEMMA TypeCleanType == TypeInv => CleanType
BY DEF TypeInv, TypeOK, CleanType

\* Every step keeps CleanInv whenever it ends in a clean state.
LEMMA NextCleanInv ==
    ASSUME CleanType, Clean => CleanInv, [Next]_vars
    PROVE  (Clean => CleanInv)'
<1> SUFFICES ASSUME Clean' PROVE CleanInv'
  OBVIOUS
<1>0. /\ hpc \in [Kinds -> {"idle", "dirty"}] /\ proxies \subseteq Pods /\ RunShape
      /\ routes \subseteq Routes /\ prCheck \in 1..3 /\ prRoute \in Routes \cup {NoRoute}
  BY DEF CleanType
<1>a. CASE Cluster
  <2>1. Clean /\ CleanInv
    <3>1. dirty' = dirty /\ hpc' = hpc
      BY <1>a DEF Cluster, PodChange, PodRemove, ServiceChange, ServiceRemove,
         EndpointsChange, EndpointsRemove, Stop, cacheVars, recVars
    <3>2. QED
      BY <3>1, CleanBefore
  <2>2. UNCHANGED <<proxies, services, endpoints, rstate, toPrune, prVars,
                    cvProxies, cvProxy, cvSvcs, routes>>
    BY <1>a DEF Cluster, PodChange, PodRemove, ServiceChange, ServiceRemove,
       EndpointsChange, EndpointsRemove, Stop, cacheVars, recVars, prVars
  <2>3. QED
    BY <2>1, <2>2, CleanInvFrame
<1>b. CASE HandlePod
  <2>1. Clean /\ CleanInv
    <3>1. hpc'["pod"] = "idle"
      BY DEF Clean, Kinds
    <3>2. hpc' = hpc
      <4>1. \E b : Raise("pod", b)
        BY <1>b, Zenon DEF HandlePod, podAdd, podDelete
      <4>2. hpc["pod"] = "idle"
        BY <1>b DEF HandlePod
      <4>3. QED
        BY <4>1, <4>2, <3>1, <1>0 DEF Raise, Kinds
    <3>3. dirty' = dirty
      BY <1>b DEF HandlePod, recVars
    <3>4. QED
      BY <3>2, <3>3, CleanBefore
  <2>2. proxies' = proxies
    BY <1>b, <1>0, PodHandlerQuiet DEF Clean, Kinds
  <2>3. QED
    BY <2>1, <2>2, <1>b, CleanInvFrame DEF HandlePod, recVars, prVars
<1>c. CASE HandleService
  <2>1. Clean /\ CleanInv
    <3>1. hpc'["service"] = "idle"
      BY DEF Clean, Kinds
    <3>2. hpc' = hpc
      <4>1. \E b : Raise("service", b)
        BY <1>c, Zenon DEF HandleService, serviceAdd, serviceDelete
      <4>2. hpc["service"] = "idle"
        BY <1>c DEF HandleService
      <4>3. QED
        BY <4>1, <4>2, <3>1, <1>0 DEF Raise, Kinds
    <3>3. dirty' = dirty
      BY <1>c DEF HandleService, recVars
    <3>4. QED
      BY <3>2, <3>3, CleanBefore
  <2>2. services' = services
    BY <1>c, <1>0, ServiceHandlerQuiet DEF Clean, Kinds
  <2>3. QED
    BY <2>1, <2>2, <1>c, CleanInvFrame DEF HandleService, recVars, prVars
<1>d. CASE HandleEndpoints
  <2>1. Clean /\ CleanInv
    <3>1. hpc'["endpoints"] = "idle"
      BY DEF Clean, Kinds
    <3>2. hpc' = hpc
      <4>1. \E b : Raise("endpoints", b)
        BY <1>d, Zenon DEF HandleEndpoints, endpointsAdd, endpointsDelete
      <4>2. hpc["endpoints"] = "idle"
        BY <1>d DEF HandleEndpoints
      <4>3. QED
        BY <4>1, <4>2, <3>1, <1>0 DEF Raise, Kinds
    <3>3. dirty' = dirty
      BY <1>d DEF HandleEndpoints, recVars
    <3>4. QED
      BY <3>2, <3>3, CleanBefore
  <2>2. endpoints' = endpoints
    BY <1>d, <1>0, EndpointsHandlerQuiet DEF Clean, Kinds
  <2>3. QED
    BY <2>1, <2>2, <1>d, CleanInvFrame DEF HandleEndpoints, recVars, prVars
<1>e. ASSUME NEW k \in Kinds, Dirty(k) PROVE CleanInv'
  BY <1>e DEF Dirty, Clean
<1>f. CASE StartRun
  <2>1. prRoute = NoRoute /\ prStage = "get"
    BY <1>f, <1>0 DEF StartRun, RunShape
  <2>2. QED
    BY <1>f, <2>1, <1>0, NoRouteNotRoute DEF StartRun, CleanInv, PruneShape, prVars,
       cacheVars
<1>g. ASSUME NEW r \in Routes, NextRoute(r) PROVE CleanInv'
  <2>1. Clean /\ CleanInv
    BY <1>g, CleanBefore DEF NextRoute, cacheVars
  <2>2. PruneShape /\ prRoute = NoRoute
    BY <1>g, <2>1 DEF NextRoute, CleanInv
  <2>3. DesiredRoutes' = DesiredRoutes
    BY <1>g DEF NextRoute, DesiredRoutes, cacheVars
  <2>4. /\ prRoute' = r /\ toPrune' = toPrune \ {r} /\ prCheck' = 1 /\ prStage' = "get"
        /\ routes' = routes /\ rstate' = "prune"
    BY <1>g DEF NextRoute
  <2>5. (routes' \ toPrune') \ {prRoute'} \subseteq DesiredRoutes'
    BY <2>2, <2>3, <2>4, <1>0, NoRouteNotRoute DEF PruneShape
  <2>6. QED
    BY <2>4, <2>5 DEF CleanInv, PruneShape
<1>n. CASE CacheGet
  <2>1. Clean /\ CleanInv
    BY <1>n, CleanBefore DEF CacheGet, cacheVars
  <2>2. PruneShape /\ rstate = "prune" /\ rstate' = "prune" /\ prRoute # NoRoute
    BY <1>n, <2>1 DEF CacheGet, CleanInv
  <2>3. UNCHANGED <<proxies, services, endpoints, routes, toPrune>>
    BY <1>n DEF CacheGet, cacheVars
  <2>4. PruneShape'
    <3>1. CASE Missing(prRoute, prCheck) /\ prStage' = "delete"
                 /\ UNCHANGED <<prRoute, prCheck>>
      <4>1. Missing(prRoute, prCheck)'
        BY <2>3, <3>1 DEF Missing
      <4>2. QED
        BY <2>2, <2>3, <3>1, <4>1 DEF PruneShape, Missing, DesiredRoutes
    <3>2. CASE ~Missing(prRoute, prCheck) /\ NextCheck
      <4>1. prRoute \in Routes
        BY <1>0, <2>2, NoRouteNotRoute
      <4>2. prRoute \in routes => \A c \in 1..prCheck : ~Missing(prRoute, c)
        BY <2>2, <3>2, <1>0 DEF PruneShape
      <4>3. CASE prCheck = 3
        <5>1. prRoute \in routes => prRoute \in DesiredRoutes
          BY <4>1, <4>2, <4>3, DesiredNoMiss
        <5>2. QED
          BY <2>2, <2>3, <3>2, <4>3, <5>1 DEF PruneShape, NextCheck, DesiredRoutes, Missing
      <4>4. CASE prCheck # 3
        BY <2>2, <2>3, <3>2, <4>2, <4>4, <1>0 DEF PruneShape, NextCheck, DesiredRoutes, Missing
      <4>5. QED
        BY <4>3, <4>4
    <3>3. QED
      BY <1>n, <3>1, <3>2 DEF CacheGet
  <2>5. QED
    BY <2>2, <2>4 DEF CleanInv
<1>o. CASE RouteDelete
  <2>1. CASE Abort
    BY <2>1 DEF Abort, Clean
  <2>2. CASE ~Abort
    <3>1. /\ routes' = routes \ {prRoute}
          /\ NextCheck
          /\ UNCHANGED <<dirty, rstate, toPrune, cvProxies, cvProxy, cvSvcs, failures>>
          /\ UNCHANGED <<clusterVars, cacheVars, stopped>>
          /\ rstate = "prune"
      BY <1>o, <2>2 DEF RouteDelete
    <3>2. Clean /\ CleanInv
      BY <3>1, CleanBefore DEF cacheVars
    <3>3. PruneShape
      BY <3>1, <3>2 DEF CleanInv
    <3>4. PruneShape'
      BY <3>1, <3>3 DEF PruneShape, NextCheck, DesiredRoutes, Missing, cacheVars
    <3>5. QED
      BY <3>1, <3>4 DEF CleanInv
  <2>3. QED
    BY <2>1, <2>2
<1>h. CASE BeginConverge
  <2>1. Clean /\ CleanInv
    BY <1>h, CleanBefore DEF BeginConverge, cacheVars
  <2>2. cvSvcs = {}
    BY <1>h, <1>0 DEF BeginConverge, RunShape
  <2>3. routes \subseteq DesiredRoutes
    BY <1>h, <2>1, <1>0, NoRouteNotRoute DEF BeginConverge, CleanInv, PruneShape
  <2>4. QED
    BY <1>h, <2>1, <2>2, <2>3 DEF BeginConverge, CleanInv, ConvergeCover, DesiredRoutes,
       cacheVars
<1>i. ASSUME NEW p \in Pods, NextProxy(p) PROVE CleanInv'
  <2>1. Clean /\ CleanInv
    BY <1>i, CleanBefore DEF NextProxy, cacheVars
  <2>2. QED
    BY <1>i, <2>1 DEF NextProxy, CleanInv, ConvergeCover, DesiredRoutes, cacheVars
<1>j. ASSUME NEW s \in Svcs, ConvergeService(s) PROVE CleanInv'
  <2>1. CASE Abort
    BY <2>1 DEF Abort, Clean
  <2>2. CASE ~Abort
    <3>3. /\ routes' = IF s \in endpoints THEN routes \cup {<<s, cvProxy>>} ELSE routes
          /\ cvSvcs' = cvSvcs \ {s}
          /\ UNCHANGED <<dirty, rstate, toPrune, cvProxies, cvProxy, failures>>
          /\ UNCHANGED <<clusterVars, cacheVars, stopped>>
          /\ rstate = "converge" /\ s \in cvSvcs
      BY <1>j, <2>2 DEF ConvergeService
    <3>4. Clean /\ CleanInv
      BY <3>3, CleanBefore DEF cacheVars
    <3>5. QED
      BY <3>3, <3>4, <1>0 DEF CleanInv, ConvergeCover, DesiredRoutes, cacheVars, Routes
  <2>6. QED
    BY <2>1, <2>2
<1>k. CASE FinishRun
  <2>1. Clean /\ CleanInv
    BY <1>k, CleanBefore DEF FinishRun, cacheVars
  <2>2. QED
    BY <1>k, <2>1 DEF FinishRun, CleanInv, ConvergeCover, DesiredRoutes, cacheVars
<1>l. CASE UNCHANGED vars
  <2>1. Clean /\ CleanInv
    BY <1>l, CleanBefore DEF vars, cacheVars, recVars
  <2>2. QED
    BY <1>l, <2>1, CleanInvFrame DEF vars, cacheVars, recVars, prVars
<1>m. QED
  BY <1>a, <1>b, <1>c, <1>d, <1>e, <1>f, <1>g, <1>h, <1>i, <1>j, <1>k, <1>l, <1>n, <1>o
  DEF Next, Handlers, Reconciler

\* Init establishes the strengthened invariant: no route, no cache entry.
LEMMA InitIInv == Init => IInv
<1> SUFFICES ASSUME Init PROVE IInv
  OBVIOUS
<1>1. TypeInv
  BY InitTypeInv
<1>2. CleanInv
  BY DEF Init, CleanInv, PruneShape, DesiredRoutes
<1>3. QED
  BY <1>1, <1>2 DEF IInv

LEMMA NextIInv == IInv /\ [Next]_vars => IInv'
BY NextTypeInv, NextCleanInv, TypeCleanType DEF IInv

\* The dirty-flag protocol of DirtyReconciler and the handlers loses no
\* cache change, for any numbers of pods and services and any bounds:
\* whenever the reconciler is idle with no pending flag and no handler owes a
\* Dirty() call, the route store equals the routes computed from the caches.
THEOREM SettledRoutesCorrect == Spec => []RoutesMatchCachesWhenSettled
<1>1. IInv => RoutesMatchCachesWhenSettled
  BY DEF IInv, Clean, Settled, CleanInv, RoutesMatchCachesWhenSettled
<1>2. QED
  BY InitIInv, NextIInv, <1>1, PTL DEF Spec

=============================================================================
