------------------------ MODULE RouteSyncRefinement ------------------------
(***************************************************************************)
(* Proof that ExternalServices implements RouteSync under the mapping      *)
(* announced <- routes, wanted <- DesiredRoutes, owed <- ~Settled,         *)
(* rerun <- RerunDue.  It rests on the inductive invariant IInv of         *)
(* ExternalServicesProofs.  A handler that changes a cache leaves a        *)
(* Dirty() call due, so every change of the wanted routes is an Observe    *)
(* that makes a rerun due.  While none is due the state is Clean and       *)
(* CleanInv holds: a routes.Delete follows a lookup that missed on the     *)
(* current caches (PruneShape), so it withdraws an unwanted route, and a   *)
(* routes.Add adds a pair of cached objects.  Only FinishRun can discharge *)
(* the debt, and when it leaves the reconciler settled the converge clause *)
(* of CleanInv makes the store equal to the desired routes.                *)
(***************************************************************************)
EXTENDS ExternalServicesProofs

\* A step that changes none of the mapped state is a RouteSync stutter.
LEMMA StutterStep ==
    ASSUME routes' = routes, DesiredRoutes' = DesiredRoutes, Settled' <=> Settled,
           RerunDue' <=> RerunDue
    PROVE  [Abs!Next]_Abs!vars
BY Zenon DEF Abs!vars

\* A step that changes a cache and leaves a Dirty() call due is an Observe.
LEMMA ObserveStep ==
    ASSUME routes' = routes, ~Settled', RerunDue'
    PROVE  [Abs!Next]_Abs!vars
<1>1. DesiredRoutes' \in SUBSET Routes
  BY DEF DesiredRoutes
<1>2. Abs!Observe
  BY <1>1, Zenon DEF Abs!Observe
<1>3. QED
  BY <1>2 DEF Abs!Next

\* Steps of a run that touch neither the store, the caches, the flag nor
\* the handlers' Dirty() calls keep a reconcile owed and are stutters.
LEMMA BusyStutter ==
    ASSUME UNCHANGED <<routes, proxies, services, endpoints, dirty, hpc>>,
           ~Settled, ~Settled'
    PROVE  [Abs!Next]_Abs!vars
<1>1. DesiredRoutes' = DesiredRoutes /\ (RerunDue' <=> RerunDue)
  BY DEF DesiredRoutes, RerunDue
<1>2. QED
  BY <1>1, StutterStep, Zenon

\* A failed route-store call: the run is aborted with the flag set again.
LEMMA RetryStep ==
    ASSUME UNCHANGED <<routes, proxies, services, endpoints>>, ~Settled, dirty'
    PROVE  [Abs!Next]_Abs!vars
<1>1. DesiredRoutes' = DesiredRoutes /\ ~Settled' /\ RerunDue'
  BY DEF DesiredRoutes, Settled, RerunDue
<1>2. Abs!Retry
  BY <1>1, Zenon DEF Abs!Retry
<1>3. QED
  BY <1>2 DEF Abs!Next

\* No flag set and no Dirty() call due is the Clean of CleanInv.
LEMMA CleanNoRerun ==
    ASSUME hpc \in [Kinds -> {"idle", "dirty"}]
    PROVE  Clean <=> ~RerunDue
BY DEF Clean, RerunDue

\* Each handler step is an Observe or a stutter: when it leaves no Dirty()
\* call due, its cache is unchanged (the *HandlerQuiet lemmas).
LEMMA HandlerStep ==
    ASSUME TypeOK, TypeOK', HandlePod \/ HandleService \/ HandleEndpoints
    PROVE  [Abs!Next]_Abs!vars
<1>0. hpc \in [Kinds -> {"idle", "dirty"}]
  BY DEF TypeOK
<1>1. routes' = routes /\ dirty' = dirty /\ rstate' = rstate
  BY Zenon DEF HandlePod, HandleService, HandleEndpoints, recVars
<1>2. CASE RerunDue'
  <2>1. ~Settled'
    BY <1>2 DEF Settled, RerunDue
  <2>2. QED
    BY <1>1, <1>2, <2>1, ObserveStep
<1>3. CASE ~RerunDue'
  <2>0. hpc' \in [Kinds -> {"idle", "dirty"}]
    BY DEF TypeOK
  <2>1. \A k \in Kinds : hpc'[k] = "idle"
    BY <1>3, <2>0 DEF RerunDue
  <2>2. CASE HandlePod
    <3>1. proxies' = proxies
      BY <1>0, <2>1, <2>2, PodHandlerQuiet DEF Kinds
    <3>2. hpc' = hpc
      <4>1. hpc'["pod"] = "idle"
        BY <2>1 DEF Kinds
      <4>2. \E b : Raise("pod", b)
        BY <2>2, Zenon DEF HandlePod, podAdd, podDelete
      <4>3. hpc["pod"] = "idle"
        BY <2>2 DEF HandlePod
      <4>4. QED
        BY <4>1, <4>2, <4>3 DEF Raise, TypeOK, Kinds
    <3>3. services' = services /\ endpoints' = endpoints
      BY <2>2 DEF HandlePod
    <3>4. QED
      BY <1>1, <3>1, <3>2, <3>3, StutterStep DEF DesiredRoutes, Settled, RerunDue
  <2>3. CASE HandleService
    <3>1. services' = services
      BY <1>0, <2>1, <2>3, ServiceHandlerQuiet DEF Kinds
    <3>2. hpc' = hpc
      <4>1. \E b : Raise("service", b)
        BY <2>3, Zenon DEF HandleService, serviceAdd, serviceDelete
      <4>2. hpc["service"] = "idle"
        BY <2>3 DEF HandleService
      <4>3. QED
        BY <4>1, <4>2, <2>1 DEF Raise, TypeOK, Kinds
    <3>3. proxies' = proxies /\ endpoints' = endpoints
      BY <2>3 DEF HandleService
    <3>4. QED
      BY <1>1, <3>1, <3>2, <3>3, StutterStep DEF DesiredRoutes, Settled, RerunDue
  <2>4. CASE HandleEndpoints
    <3>1. endpoints' = endpoints
      BY <1>0, <2>1, <2>4, EndpointsHandlerQuiet DEF Kinds
    <3>2. hpc' = hpc
      <4>1. \E b : Raise("endpoints", b)
        BY <2>4, Zenon DEF HandleEndpoints, endpointsAdd, endpointsDelete
      <4>2. hpc["endpoints"] = "idle"
        BY <2>4 DEF HandleEndpoints
      <4>3. QED
        BY <4>1, <4>2, <2>1 DEF Raise, TypeOK, Kinds
    <3>3. proxies' = proxies /\ services' = services
      BY <2>4 DEF HandleEndpoints
    <3>4. QED
      BY <1>1, <3>1, <3>2, <3>3, StutterStep DEF DesiredRoutes, Settled, RerunDue
  <2>5. QED
    BY <2>2, <2>3, <2>4
<1>4. QED
  BY <1>2, <1>3

\* Every step of the controller is a RouteSync step or a stutter.
LEMMA RefinementStep == IInv /\ IInv' /\ [Next]_vars => [Abs!Next]_Abs!vars
<1> SUFFICES ASSUME IInv, IInv', [Next]_vars PROVE [Abs!Next]_Abs!vars
  OBVIOUS
<1>0. TypeOK /\ TypeOK' /\ RunShape /\ (Clean => CleanInv)
  BY DEF IInv, TypeInv
<1>1. CASE Cluster
  <2>1. UNCHANGED <<routes, proxies, services, endpoints, hpc, dirty, rstate>>
    BY <1>1 DEF Cluster, PodChange, PodRemove, ServiceChange, ServiceRemove,
       EndpointsChange, EndpointsRemove, Stop, cacheVars, recVars
  <2>2. QED
    BY <2>1, StutterStep DEF DesiredRoutes, Settled, RerunDue
<1>2. CASE HandlePod \/ HandleService \/ HandleEndpoints
  BY <1>0, <1>2, HandlerStep
<1>3. ASSUME NEW k \in Kinds, Dirty(k) PROVE [Abs!Next]_Abs!vars
  <2>1. UNCHANGED <<routes, proxies, services, endpoints>>
    BY <1>3 DEF Dirty
  <2>2. ~Settled /\ ~Settled' /\ RerunDue /\ RerunDue'
    BY <1>3 DEF Dirty, Settled, RerunDue
  <2>3. QED
    BY <2>1, <2>2, StutterStep DEF DesiredRoutes
<1>4. CASE StartRun
  <2>1. UNCHANGED <<routes, proxies, services, endpoints>>
    BY <1>4 DEF StartRun, cacheVars
  <2>2. ~Settled /\ ~Settled' /\ RerunDue
    BY <1>4 DEF StartRun, Settled, RerunDue
  <2>3. RerunDue' \in BOOLEAN
    BY Zenon DEF RerunDue
  <2>4. DesiredRoutes' = DesiredRoutes
    BY <2>1 DEF DesiredRoutes
  <2>5. Abs!Begin
    BY <2>2, <2>3, <2>4, <1>4, Zenon DEF Abs!Begin, StartRun
  <2>6. QED
    BY <2>5 DEF Abs!Next
<1>5. ASSUME NEW r \in Routes, NextRoute(r) PROVE [Abs!Next]_Abs!vars
  <2>1. UNCHANGED <<routes, proxies, services, endpoints, dirty, hpc>>
    BY <1>5 DEF NextRoute, cacheVars
  <2>2. ~Settled /\ ~Settled'
    BY <1>5 DEF NextRoute, Settled
  <2>3. QED
    BY <2>1, <2>2, BusyStutter
<1>6. CASE CacheGet
  <2>1. UNCHANGED <<routes, proxies, services, endpoints, dirty, hpc>>
    BY <1>6 DEF CacheGet, cacheVars
  <2>2. ~Settled /\ ~Settled'
    BY <1>6 DEF CacheGet, Settled
  <2>3. QED
    BY <2>1, <2>2, BusyStutter
<1>7. CASE RouteDelete
  <2>1. UNCHANGED <<proxies, services, endpoints>>
    BY <1>7 DEF RouteDelete, cacheVars
  <2>2. ~Settled /\ rstate = "prune" /\ prStage = "delete"
    BY <1>7 DEF RouteDelete, Settled
  <2>3. CASE Fail /\ UNCHANGED routes /\ Abort
    BY <2>1, <2>2, <2>3, RetryStep DEF Abort
  <2>4. CASE /\ routes' = routes \ {prRoute}
             /\ NextCheck
             /\ UNCHANGED <<dirty, rstate, toPrune, cvProxies, cvProxy, cvSvcs, failures>>
    <3>1. UNCHANGED <<dirty, hpc>> /\ ~Settled'
      BY <1>7, <2>2, <2>4 DEF RouteDelete, cacheVars, Settled
    <3>2. CASE prRoute \notin routes
      BY <2>1, <2>2, <2>4, <3>1, <3>2, BusyStutter
    <3>3. CASE prRoute \in routes
      <4>1. prRoute \notin DesiredRoutes \/ RerunDue
        <5>1. CASE RerunDue
          BY <5>1
        <5>2. CASE ~RerunDue
          <6>1. PruneShape
            BY <1>0, <2>2, <5>2, CleanNoRerun DEF TypeOK, CleanInv
          <6>2. Missing(prRoute, prCheck)
            BY <2>2, <6>1 DEF PruneShape
          <6>3. QED
            BY <6>2 DEF Missing, DesiredRoutes
        <5>3. QED
          BY <5>1, <5>2
      <4>2. DesiredRoutes' = DesiredRoutes /\ (RerunDue' <=> RerunDue)
        BY <2>1, <3>1 DEF DesiredRoutes, RerunDue
      <4>3. Abs!Withdraw
        BY <2>2, <2>4, <3>1, <3>3, <4>1, <4>2 DEF Abs!Withdraw
      <4>4. QED
        BY <4>3 DEF Abs!Next
    <3>4. QED
      BY <3>2, <3>3
  <2>5. QED
    BY <1>7, <2>3, <2>4, Zenon DEF RouteDelete
<1>8. CASE BeginConverge
  <2>1. UNCHANGED <<routes, proxies, services, endpoints, dirty, hpc>>
    BY <1>8 DEF BeginConverge, cacheVars
  <2>2. ~Settled /\ ~Settled'
    BY <1>8 DEF BeginConverge, Settled
  <2>3. QED
    BY <2>1, <2>2, BusyStutter
<1>9. ASSUME NEW p \in Pods, NextProxy(p) PROVE [Abs!Next]_Abs!vars
  <2>1. UNCHANGED <<routes, proxies, services, endpoints, dirty, hpc>>
    BY <1>9 DEF NextProxy, cacheVars
  <2>2. ~Settled /\ ~Settled'
    BY <1>9 DEF NextProxy, Settled
  <2>3. QED
    BY <2>1, <2>2, BusyStutter
<1>10. ASSUME NEW s \in Svcs, ConvergeService(s) PROVE [Abs!Next]_Abs!vars
  <2>1. UNCHANGED <<proxies, services, endpoints>>
    BY <1>10 DEF ConvergeService, cacheVars
  <2>2. ~Settled /\ rstate = "converge" /\ s \in cvSvcs
    BY <1>10 DEF ConvergeService, Settled
  <2>3. CASE s \in endpoints /\ Fail /\ UNCHANGED routes /\ Abort
    BY <2>1, <2>2, <2>3, RetryStep DEF Abort
  <2>4. CASE /\ routes' = IF s \in endpoints THEN routes \cup {<<s, cvProxy>>} ELSE routes
             /\ cvSvcs' = cvSvcs \ {s}
             /\ UNCHANGED <<dirty, rstate, toPrune, prVars, cvProxies, cvProxy, failures>>
    <3>1. UNCHANGED <<dirty, hpc>> /\ ~Settled'
      BY <1>10, <2>2, <2>4 DEF ConvergeService, cacheVars, Settled
    <3>2. CASE s \notin endpoints
      BY <2>1, <2>2, <2>4, <3>1, <3>2, BusyStutter
    <3>3. CASE s \in endpoints
      <4>1. <<s, cvProxy>> \in Routes
        BY <1>0, <2>2 DEF RunShape, Routes
      <4>2. <<s, cvProxy>> \in DesiredRoutes \/ RerunDue
        <5>1. CASE RerunDue
          BY <5>1
        <5>2. CASE ~RerunDue
          <6>1. cvSvcs \subseteq services /\ cvProxy \in proxies
            BY <1>0, <2>2, <5>2, CleanNoRerun DEF TypeOK, CleanInv
          <6>2. QED
            BY <2>2, <3>3, <4>1, <6>1 DEF DesiredRoutes
        <5>3. QED
          BY <5>1, <5>2
      <4>3. DesiredRoutes' = DesiredRoutes /\ (RerunDue' <=> RerunDue)
        BY <2>1, <3>1 DEF DesiredRoutes, RerunDue
      <4>4. Abs!Announce
        BY <2>2, <2>4, <3>1, <3>3, <4>1, <4>2, <4>3 DEF Abs!Announce
      <4>5. QED
        BY <4>4 DEF Abs!Next
    <3>4. QED
      BY <3>2, <3>3
  <2>5. QED
    BY <1>10, <2>3, <2>4, Zenon DEF ConvergeService
<1>11. CASE FinishRun
  <2>1. UNCHANGED <<routes, proxies, services, endpoints, dirty, hpc>>
    BY <1>11 DEF FinishRun, cacheVars
  <2>2. DesiredRoutes' = DesiredRoutes /\ (RerunDue' <=> RerunDue)
    BY <2>1 DEF DesiredRoutes, RerunDue
  <2>3. ~Settled
    BY <1>11 DEF FinishRun, Settled
  <2>4. CASE ~Settled'
    BY <2>1, <2>3, <2>4, BusyStutter
  <2>5. CASE Settled'
    <3>1. Clean /\ ~RerunDue
      BY <2>1, <2>5 DEF Settled, Clean, RerunDue
    <3>2. CleanInv
      BY <1>0, <3>1, Zenon
    <3>3. routes = DesiredRoutes
      BY <1>11, <3>2 DEF FinishRun, CleanInv, ConvergeCover
    <3>4. Abs!Settle
      BY <2>1, <2>2, <2>3, <2>5, <3>1, <3>3 DEF Abs!Settle
    <3>5. QED
      BY <3>4 DEF Abs!Next
  <2>6. QED
    BY <2>4, <2>5
<1>12. CASE UNCHANGED vars
  BY <1>12, StutterStep DEF vars, cacheVars, recVars, DesiredRoutes, Settled, RerunDue
<1>13. QED
  BY <1>1, <1>2, <1>3, <1>4, <1>5, <1>6, <1>7, <1>8, <1>9, <1>10, <1>11, <1>12
  DEF Next, Handlers, Reconciler

\* The initial state maps to RouteSync's: no route, no wanted route, no debt.
LEMMA RefinementInit == Init => Abs!Init
BY DEF Init, Abs!Init, DesiredRoutes, Settled, RerunDue, Kinds

\* The controller (any numbers of pods and services, any bounds) implements
\* RouteSync: the route store changes only while a reconcile is owed; while
\* no Dirty() call is due and the flag is clear, every routes.Delete removes
\* a route the caches do not want and every routes.Add adds one they want;
\* and the reconciler settles only when the store holds exactly the routes
\* the caches want.
THEOREM Refinement == Spec => RefinesRouteSync
<1>1. Spec => []IInv
  BY InitIInv, NextIInv, PTL DEF Spec
<1>2. QED
  BY <1>1, RefinementInit, RefinementStep, PTL DEF Spec, RefinesRouteSync, Abs!Spec

=============================================================================
