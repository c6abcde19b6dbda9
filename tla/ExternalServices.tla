------------------------- MODULE ExternalServices -------------------------
(***************************************************************************)
(* The external-IP controller of kube-parrot                              *)
(* (src/pkg/controller/externalservices.go) together with the two         *)
(* collaborators it drives: the DirtyReconciler that schedules its         *)
(* reconcile function and the BGP ExternalIPRoutesStore it mutates.        *)
(*                                                                         *)
(*  - The cluster (API server) holds the current Pod, Service and          *)
(*    Endpoints objects; every change is queued, in order, on the          *)
(*    informer of its kind.                                                *)
(*  - One informer goroutine per kind pops an event and runs the           *)
(*    controller's handler (podAdd/podDelete, serviceAdd/serviceDelete,    *)
(*    endpointsAdd/endpointsDelete); a handler that changed its cache then *)
(*    calls reconciler.Dirty() in a step of its own.                       *)
(*  - The reconciler goroutine clears the dirty flag, runs reconcile()     *)
(*    one cache lookup or route-store call (prune pass) and one (service, *)
(*    proxy) pair (converge pass) at a time, and re-marks itself dirty     *)
(*    when a route-store call fails.                                       *)
(*                                                                         *)
(* Objects are abstracted to the fields the handlers read: a pod's host IP *)
(* and Ready condition, a service's external IPs, an endpoints object's    *)
(* subsets (each one the number of its addresses, 0 or 1).                 *)
(***************************************************************************)
EXTENDS Naturals, Sequences, FiniteSets

CONSTANTS
    Pods,          \* pod keys (namespace/name)
    ProxyPods,     \* pods named types.KubeProxyPrefix* in types.KubeProxyNamespace
    Svcs,          \* service keys; an Endpoints object has its service's key
    ExternalIPs,   \* external IP addresses a service may list
    NodeIsIPv4,    \* whether the node's hostIP has a 4-byte form (To4() # nil)
    MaxEvents,     \* bound on the cluster changes of one behaviour
    MaxFailures,   \* bound on failed route-store calls of one behaviour
    Absent,        \* the value of an object the cluster does not hold
    Deleted,       \* the payload of a delete notification
    NoPod          \* no current proxy in the converge loop

ASSUME ProxyPodsAssumption == ProxyPods \subseteq Pods
ASSUME BoundsAssumption == MaxEvents \in Nat /\ MaxFailures \in Nat
ASSUME NodeAssumption == NodeIsIPv4 \in BOOLEAN

-----------------------------------------------------------------------------
(* Object values.                                                          *)

\* The node's own address, and what pod.Status.HostIP of a pod on another
\* node or of an unscheduled pod reads.
NodeIP == "node"
HostIPs == {"", NodeIP, "other"}

\* c.hostIP.To4().String(): the string form of a nil net.IP is "<nil>".
HostIPString == IF NodeIsIPv4 THEN NodeIP ELSE "<nil>"

PodObjects == [hostIP : HostIPs, ready : BOOLEAN]
ServiceObjects == [externalIPs : SUBSET ExternalIPs]
EndpointsObjects == [subsets : SUBSET {0, 1}]

ASSUME MarkerAssumption ==
    /\ Absent \notin PodObjects \cup ServiceObjects \cup EndpointsObjects
    /\ Deleted \notin PodObjects \cup ServiceObjects \cup EndpointsObjects
    /\ NoPod \notin Pods

Routes == Svcs \X Pods

\* No route: the prune loop is between two routes.
NoRoute == <<NoPod, NoPod>>
Kinds == {"pod", "service", "endpoints"}

VARIABLES
    pod, service, endpointsObj,        \* the cluster's objects
    podQ, serviceQ, endpointsQ,        \* informer notifications not yet handled
    sent,                              \* cluster changes so far (bounded)
    proxies, services, endpoints,      \* the keys of the controller's three cache.Stores
    svcObj,                            \* per service key: the object its cache entry holds
    hpc,                               \* per kind: "idle" or "dirty" (Dirty() due)
    dirty,                             \* the DirtyReconciler's pending flag
    rstate,                            \* "idle", "prune" or "converge"
    toPrune,                           \* routes of routes.List() not yet visited
    prRoute,                           \* the route the prune loop body is on, or NoRoute
    prCheck,                           \* its check: 1 proxy, 2 service, 3 endpoints
    prStage,                           \* "get": the cache lookup is next; "delete": routes.Delete
    cvProxies,                         \* proxies of proxies.List() not yet visited
    cvProxy,                           \* the proxy of the current outer iteration
    cvSvcs,                            \* services of services.List() not yet visited
    routes,                            \* the ExternalIPRoutesStore
    failures,                          \* failed route-store calls so far (bounded)
    stopped                            \* the stop channel has been closed

clusterVars == <<pod, service, endpointsObj, podQ, serviceQ, endpointsQ, sent>>
cacheVars == <<proxies, services, endpoints, svcObj, hpc>>
prVars == <<prRoute, prCheck, prStage>>
recVars == <<dirty, rstate, toPrune, prRoute, prCheck, prStage, cvProxies, cvProxy, cvSvcs,
            routes, failures>>
vars == <<clusterVars, cacheVars, recVars, stopped>>

-----------------------------------------------------------------------------
(* Readiness filters, as the handlers compute them.                        *)

\* util.IsPodReady: the pod's Ready condition is True.
IsPodReady(o) == o.ready

\* The loop of endpointsAdd: some subset has at least one address.
EndpointsReady(o) == \E v \in o.subsets : v > 0

\* What each cache holds once its informer is drained, by the spec (4.2).
EligibleProxies ==
    {p \in ProxyPods : pod[p] # Absent /\ pod[p].hostIP = NodeIP /\ IsPodReady(pod[p])}
EligibleServices ==
    {s \in Svcs : service[s] # Absent /\ service[s].externalIPs # {}}
EligibleEndpoints ==
    {s \in Svcs : endpointsObj[s] # Absent /\ EndpointsReady(endpointsObj[s])}

\* The routes reconcile() converges to, given the caches.
DesiredRoutes == {r \in Routes : r[2] \in proxies /\ r[1] \in services /\ r[1] \in endpoints}

Init ==
    /\ pod = [p \in Pods |-> Absent]
    /\ service = [s \in Svcs |-> Absent]
    /\ endpointsObj = [s \in Svcs |-> Absent]
    /\ podQ = << >> /\ serviceQ = << >> /\ endpointsQ = << >>
    /\ sent = 0
    /\ proxies = {} /\ services = {} /\ endpoints = {}
    /\ svcObj = [s \in Svcs |-> Absent]
    /\ hpc = [k \in Kinds |-> "idle"]
    /\ dirty = FALSE
    /\ rstate = "idle"
    /\ toPrune = {} /\ cvProxies = {} /\ cvProxy = NoPod /\ cvSvcs = {}
    /\ prRoute = NoRoute /\ prCheck = 1 /\ prStage = "get"
    /\ routes = {}
    /\ failures = 0
    /\ stopped = FALSE

-----------------------------------------------------------------------------
(* The cluster: objects are created, updated (an informer resync re-sends  *)
(* the same object) and deleted; each change is queued on its informer.    *)
(* A pod's hostIP is only ever set once, when it is scheduled.             *)

PodChange(p, o) ==
    /\ sent < MaxEvents
    /\ pod[p] # Absent => pod[p].hostIP \in {"", o.hostIP}
    /\ pod' = [pod EXCEPT ![p] = o]
    /\ podQ' = Append(podQ, <<p, o>>)
    /\ sent' = sent + 1
    /\ UNCHANGED <<service, endpointsObj, serviceQ, endpointsQ, cacheVars, recVars, stopped>>

PodRemove(p) ==
    /\ sent < MaxEvents /\ pod[p] # Absent
    /\ pod' = [pod EXCEPT ![p] = Absent]
    /\ podQ' = Append(podQ, <<p, Deleted>>)
    /\ sent' = sent + 1
    /\ UNCHANGED <<service, endpointsObj, serviceQ, endpointsQ, cacheVars, recVars, stopped>>

ServiceChange(s, o) ==
    /\ sent < MaxEvents
    /\ service' = [service EXCEPT ![s] = o]
    /\ serviceQ' = Append(serviceQ, <<s, o>>)
    /\ sent' = sent + 1
    /\ UNCHANGED <<pod, endpointsObj, podQ, endpointsQ, cacheVars, recVars, stopped>>

ServiceRemove(s) ==
    /\ sent < MaxEvents /\ service[s] # Absent
    /\ service' = [service EXCEPT ![s] = Absent]
    /\ serviceQ' = Append(serviceQ, <<s, Deleted>>)
    /\ sent' = sent + 1
    /\ UNCHANGED <<pod, endpointsObj, podQ, endpointsQ, cacheVars, recVars, stopped>>

EndpointsChange(s, o) ==
    /\ sent < MaxEvents
    /\ endpointsObj' = [endpointsObj EXCEPT ![s] = o]
    /\ endpointsQ' = Append(endpointsQ, <<s, o>>)
    /\ sent' = sent + 1
    /\ UNCHANGED <<pod, service, podQ, serviceQ, cacheVars, recVars, stopped>>

EndpointsRemove(s) ==
    /\ sent < MaxEvents /\ endpointsObj[s] # Absent
    /\ endpointsObj' = [endpointsObj EXCEPT ![s] = Absent]
    /\ endpointsQ' = Append(endpointsQ, <<s, Deleted>>)
    /\ sent' = sent + 1
    /\ UNCHANGED <<pod, service, podQ, serviceQ, cacheVars, recVars, stopped>>

\* The stop channel is closed: Run returns and no further run is started.
Stop ==
    /\ ~stopped
    /\ stopped' = TRUE
    /\ UNCHANGED <<clusterVars, cacheVars, recVars>>

-----------------------------------------------------------------------------
(* The controller's event handlers.  An informer runs the handlers of its  *)
(* kind one at a time; add and update notifications run the same code     *)
(* (podUpdate(old, cur) is podAdd(cur), and so for the other kinds).  A    *)
(* handler that changed its cache leaves hpc[k] = "dirty": its call of     *)
(* reconciler.Dirty() is the next step of that goroutine.                  *)

\* The handler of kind k ends, with Dirty() still to call iff changed.
Raise(k, changed) == hpc' = [hpc EXCEPT ![k] = IF changed THEN "dirty" ELSE "idle"]

podDelete(p) ==
    /\ proxies' = proxies \ {p}
    /\ Raise("pod", p \in proxies)

\* Faulty variant: the not-ready branch deletes the proxy but forgets Dirty().
podAddSilentRemove(p, o) ==
    IF p \notin ProxyPods \/ o.hostIP # HostIPString
    THEN /\ UNCHANGED proxies
         /\ Raise("pod", FALSE)
    ELSE IF IsPodReady(o)
    THEN /\ proxies' = proxies \cup {p}
         /\ Raise("pod", p \notin proxies)
    ELSE /\ proxies' = proxies \ {p}
         /\ Raise("pod", FALSE)

podAdd(p, o) ==
    IF p \notin ProxyPods \/ o.hostIP # HostIPString
    THEN /\ UNCHANGED proxies
         /\ Raise("pod", FALSE)
    ELSE IF IsPodReady(o)
    THEN /\ proxies' = proxies \cup {p}
         /\ Raise("pod", p \notin proxies)
    ELSE /\ proxies' = proxies \ {p}
         /\ Raise("pod", p \in proxies)

\* serviceDelete deletes and calls Dirty() whether or not s was cached.
serviceDelete(s) ==
    /\ services' = services \ {s}
    /\ svcObj' = [svcObj EXCEPT ![s] = Absent]
    /\ Raise("service", TRUE)

\* serviceAdd returns early on a service without external IPs: it never
\* removes a cached service.  It calls services.Add only when the key is
\* not cached yet, so a cached entry keeps the object it was first added with.
serviceAdd(s, o) ==
    IF o.externalIPs = {}
    THEN /\ UNCHANGED <<services, svcObj>>
         /\ Raise("service", FALSE)
    ELSE /\ services' = services \cup {s}
         /\ svcObj' = IF s \in services THEN svcObj ELSE [svcObj EXCEPT ![s] = o]
         /\ Raise("service", s \notin services)

endpointsDelete(s) ==
    /\ endpoints' = endpoints \ {s}
    /\ Raise("endpoints", s \in endpoints)

\* Faulty variant: endpoints that lose their addresses are left cached.
endpointsAddKeepsUnready(s, o) ==
    IF EndpointsReady(o)
    THEN /\ endpoints' = endpoints \cup {s}
         /\ Raise("endpoints", s \notin endpoints)
    ELSE /\ UNCHANGED endpoints
         /\ Raise("endpoints", FALSE)

endpointsAdd(s, o) ==
    IF EndpointsReady(o)
    THEN /\ endpoints' = endpoints \cup {s}
         /\ Raise("endpoints", s \notin endpoints)
    ELSE /\ endpoints' = endpoints \ {s}
         /\ Raise("endpoints", s \in endpoints)

\* The pod informer delivers the notification at the head of its queue.
HandlePod ==
    /\ hpc["pod"] = "idle" /\ podQ # << >>
    /\ LET e == Head(podQ) IN
         IF e[2] = Deleted THEN podDelete(e[1]) ELSE podAdd(e[1], e[2])
    /\ podQ' = Tail(podQ)
    /\ UNCHANGED <<pod, service, endpointsObj, serviceQ, endpointsQ, sent,
                   services, svcObj, endpoints, recVars, stopped>>

HandleService ==
    /\ hpc["service"] = "idle" /\ serviceQ # << >>
    /\ LET e == Head(serviceQ) IN
         IF e[2] = Deleted THEN serviceDelete(e[1]) ELSE serviceAdd(e[1], e[2])
    /\ serviceQ' = Tail(serviceQ)
    /\ UNCHANGED <<pod, service, endpointsObj, podQ, endpointsQ, sent,
                   proxies, endpoints, recVars, stopped>>

HandleEndpoints ==
    /\ hpc["endpoints"] = "idle" /\ endpointsQ # << >>
    /\ LET e == Head(endpointsQ) IN
         IF e[2] = Deleted THEN endpointsDelete(e[1]) ELSE endpointsAdd(e[1], e[2])
    /\ endpointsQ' = Tail(endpointsQ)
    /\ UNCHANGED <<pod, service, endpointsObj, podQ, serviceQ, sent,
                   proxies, services, svcObj, recVars, stopped>>

\* DirtyReconciler.Dirty(), called by the handler of kind k: sets the
\* pending flag and returns; it never runs reconcile inline.
Dirty(k) ==
    /\ hpc[k] = "dirty"
    /\ dirty' = TRUE
    /\ hpc' = [hpc EXCEPT ![k] = "idle"]
    /\ UNCHANGED <<clusterVars, proxies, services, endpoints, svcObj, rstate, toPrune, prVars,
                   cvProxies, cvProxy, cvSvcs, routes, failures, stopped>>

-----------------------------------------------------------------------------
(* The reconciler goroutine and reconcile().                               *)

\* A run ends with an error: the DirtyReconciler marks itself dirty again.
Abort ==
    /\ rstate' = "idle"
    /\ dirty' = TRUE
    /\ toPrune' = {} /\ cvProxies' = {} /\ cvProxy' = NoPod /\ cvSvcs' = {}
    /\ prRoute' = NoRoute /\ prCheck' = 1 /\ prStage' = "get"

\* A route-store call fails (one more of the bounded failures).
Fail == /\ failures < MaxFailures
        /\ failures' = failures + 1

\* The loop waits for the pending flag, clears it and calls reconcile(),
\* which first takes routes.List().
StartRun ==
    /\ rstate = "idle" /\ dirty /\ ~stopped
    /\ dirty' = FALSE
    /\ rstate' = "prune"
    /\ toPrune' = routes
    /\ UNCHANGED <<clusterVars, cacheVars, prVars, cvProxies, cvProxy, cvSvcs, routes,
                   failures, stopped>>

\* Faulty variant: the prune loop only checks the route's proxy.
MissingProxyOnly(r, c) == c = 1 /\ r[2] \notin proxies

\* The c-th lookup of the prune loop body misses: proxies.Get(route.Proxy),
\* services.Get(route.Service), endpoints.Get(route.Service).
Missing(r, c) ==
    \/ c = 1 /\ r[2] \notin proxies
    \/ c = 2 /\ r[1] \notin services
    \/ c = 3 /\ r[1] \notin endpoints

\* The prune loop moves to route r of routes.List().
NextRoute(r) ==
    /\ rstate = "prune" /\ prRoute = NoRoute /\ r \in toPrune
    /\ prRoute' = r
    /\ toPrune' = toPrune \ {r}
    /\ prCheck' = 1 /\ prStage' = "get"
    /\ UNCHANGED <<clusterVars, cacheVars, dirty, rstate, cvProxies, cvProxy, cvSvcs,
                   routes, failures, stopped>>

\* The body goes on to its next lookup, or is done with the route.
NextCheck ==
    /\ prStage' = "get"
    /\ IF prCheck = 3 THEN prRoute' = NoRoute /\ prCheck' = 1
                      ELSE prRoute' = prRoute /\ prCheck' = prCheck + 1

\* Faulty variant: every lookup is taken for a miss.
CacheGetAlwaysDeletes ==
    /\ rstate = "prune" /\ prRoute # NoRoute /\ prStage = "get"
    /\ prStage' = "delete" /\ UNCHANGED <<prRoute, prCheck>>
    /\ UNCHANGED <<clusterVars, cacheVars, dirty, rstate, toPrune, cvProxies, cvProxy,
                   cvSvcs, routes, failures, stopped>>

\* The current lookup of the body: a miss leads to routes.Delete(route),
\* a hit to the next lookup.  The caches are read live, not from a
\* snapshot: a handler may change one between this step and the Delete.
CacheGet ==
    /\ rstate = "prune" /\ prRoute # NoRoute /\ prStage = "get"
    /\ \/ Missing(prRoute, prCheck) /\ prStage' = "delete" /\ UNCHANGED <<prRoute, prCheck>>
       \/ ~Missing(prRoute, prCheck) /\ NextCheck
    /\ UNCHANGED <<clusterVars, cacheVars, dirty, rstate, toPrune, cvProxies, cvProxy,
                   cvSvcs, routes, failures, stopped>>

\* routes.Delete(route) after a miss: it succeeds (idempotently, the route
\* may already be gone) and the body goes on, or it fails and reconcile
\* returns its error.
RouteDelete ==
    /\ rstate = "prune" /\ prStage = "delete"
    /\ \/ /\ routes' = routes \ {prRoute}
          /\ NextCheck
          /\ UNCHANGED <<dirty, rstate, toPrune, cvProxies, cvProxy, cvSvcs, failures>>
       \/ /\ Fail
          /\ UNCHANGED routes
          /\ Abort
    /\ UNCHANGED <<clusterVars, cacheVars, stopped>>

\* The prune loop is done: the converge loop takes proxies.List().
BeginConverge ==
    /\ rstate = "prune" /\ toPrune = {} /\ prRoute = NoRoute
    /\ rstate' = "converge"
    /\ cvProxies' = proxies
    /\ cvProxy' = NoPod
    /\ UNCHANGED <<clusterVars, cacheVars, dirty, toPrune, prVars, cvSvcs, routes,
                   failures, stopped>>

\* The outer loop moves to proxy p and takes services.List().
NextProxy(p) ==
    /\ rstate = "converge" /\ cvSvcs = {} /\ p \in cvProxies
    /\ cvProxy' = p
    /\ cvProxies' = cvProxies \ {p}
    /\ cvSvcs' = services
    /\ UNCHANGED <<clusterVars, cacheVars, dirty, rstate, toPrune, prVars, routes,
                   failures, stopped>>

\* Faulty variant: the route is built with service and proxy swapped.
ConvergeServiceSwapped(s) ==
    /\ rstate = "converge" /\ s \in cvSvcs
    /\ \/ /\ routes' = IF s \in endpoints THEN routes \cup {<<cvProxy, s>>} ELSE routes
          /\ cvSvcs' = cvSvcs \ {s}
          /\ UNCHANGED <<dirty, rstate, toPrune, prVars, cvProxies, cvProxy, failures>>
       \/ /\ s \in endpoints
          /\ Fail
          /\ UNCHANGED routes
          /\ Abort
    /\ UNCHANGED <<clusterVars, cacheVars, stopped>>

\* The inner loop body for service s: if endpoints.Get(s) finds it,
\* routes.Add(s, proxy), which succeeds (idempotently) or fails.
ConvergeService(s) ==
    /\ rstate = "converge" /\ s \in cvSvcs
    /\ \/ /\ routes' = IF s \in endpoints THEN routes \cup {<<s, cvProxy>>} ELSE routes
          /\ cvSvcs' = cvSvcs \ {s}
          /\ UNCHANGED <<dirty, rstate, toPrune, prVars, cvProxies, cvProxy, failures>>
       \/ /\ s \in endpoints
          /\ Fail
          /\ UNCHANGED routes
          /\ Abort
    /\ UNCHANGED <<clusterVars, cacheVars, stopped>>

\* Both loops are done: reconcile returns nil.
FinishRun ==
    /\ rstate = "converge" /\ cvSvcs = {} /\ cvProxies = {}
    /\ rstate' = "idle"
    /\ cvProxy' = NoPod
    /\ UNCHANGED <<clusterVars, cacheVars, dirty, toPrune, prVars, cvProxies, cvSvcs,
                   routes, failures, stopped>>

-----------------------------------------------------------------------------

Cluster ==
    \/ \E p \in Pods : \/ \E o \in PodObjects : PodChange(p, o)
                       \/ PodRemove(p)
    \/ \E s \in Svcs : \/ \E o \in ServiceObjects : ServiceChange(s, o)
                       \/ ServiceRemove(s)
                       \/ \E o \in EndpointsObjects : EndpointsChange(s, o)
                       \/ EndpointsRemove(s)
    \/ Stop

Handlers == HandlePod \/ HandleService \/ HandleEndpoints \/ \E k \in Kinds : Dirty(k)

Reconciler ==
    \/ StartRun
    \/ \E r \in Routes : NextRoute(r)
    \/ CacheGet
    \/ RouteDelete
    \/ BeginConverge
    \/ \E p \in Pods : NextProxy(p)
    \/ \E s \in Svcs : ConvergeService(s)
    \/ FinishRun

Next == Cluster \/ Handlers \/ Reconciler

\* Each informer goroutine and the reconciler goroutine keep running; the
\* cluster is not obliged to change.
Fairness ==
    /\ WF_vars(HandlePod) /\ WF_vars(HandleService) /\ WF_vars(HandleEndpoints)
    /\ \A k \in Kinds : WF_vars(Dirty(k))
    /\ WF_vars(Reconciler)

Spec == Init /\ [][Next]_vars
FairSpec == Spec /\ Fairness

-----------------------------------------------------------------------------
(* Properties.                                                             *)

TypeOK ==
    /\ pod \in [Pods -> PodObjects \cup {Absent}]
    /\ service \in [Svcs -> ServiceObjects \cup {Absent}]
    /\ endpointsObj \in [Svcs -> EndpointsObjects \cup {Absent}]
    /\ podQ \in Seq(Pods \X (PodObjects \cup {Deleted}))
    /\ serviceQ \in Seq(Svcs \X (ServiceObjects \cup {Deleted}))
    /\ endpointsQ \in Seq(Svcs \X (EndpointsObjects \cup {Deleted}))
    /\ sent \in Nat
    /\ proxies \subseteq Pods /\ services \subseteq Svcs /\ endpoints \subseteq Svcs
    /\ svcObj \in [Svcs -> ServiceObjects \cup {Absent}]
    /\ hpc \in [Kinds -> {"idle", "dirty"}]
    /\ dirty \in BOOLEAN
    /\ rstate \in {"idle", "prune", "converge"}
    /\ toPrune \subseteq Routes
    /\ prRoute \in Routes \cup {NoRoute}
    /\ prCheck \in 1..3
    /\ prStage \in {"get", "delete"}
    /\ cvProxies \subseteq Pods
    /\ cvProxy \in Pods \cup {NoPod}
    /\ cvSvcs \subseteq Svcs
    /\ routes \subseteq Routes
    /\ failures \in 0..MaxFailures
    /\ stopped \in BOOLEAN

\* No reconcile is in flight or owed: the reconciler is idle, its pending
\* flag is clear and no handler has a Dirty() call outstanding.
Settled == ~dirty /\ rstate = "idle" /\ \A k \in Kinds : hpc[k] = "idle"

\* Another run of reconcile is due: the flag is set or a handler that
\* changed its cache has yet to call Dirty().
RerunDue == dirty \/ \E k \in Kinds : hpc[k] = "dirty"

\* The dirty-flag protocol loses no change: whenever the handlers' Dirty()
\* calls and the reconciler's runs have all been accounted for, the route
\* store is exactly the set reconcile() computes from the current caches,
\* however the informer goroutines interleaved with a run's reads.
RoutesMatchCachesWhenSettled == Settled => routes = DesiredRoutes

\* The pod and endpoints handlers keep their caches equal to what the
\* readiness filters select from the cluster once their informer is drained,
\* whatever sequence of creates, updates, resyncs and deletes was delivered.
CachesTrackCluster ==
    /\ (podQ = << >> /\ hpc["pod"] = "idle") => proxies = EligibleProxies
    /\ (endpointsQ = << >> /\ hpc["endpoints"] = "idle") => endpoints = EligibleEndpoints

\* The routes that should be announced according to the cluster (spec 3).
ClusterRoutes ==
    {r \in Routes : r[2] \in EligibleProxies /\ r[1] \in EligibleServices
                                             /\ r[1] \in EligibleEndpoints}

\* Spec 4.1 (Add on an existing key overwrites) and spec 3 (a service is
\* re-added on update): once the service informer is drained, every cached
\* service that still has external IPs holds the cluster's current object,
\* which is what reconcile hands to routes.Add.
ServiceCacheCurrent ==
    (serviceQ = << >> /\ hpc["service"] = "idle") =>
        \A s \in EligibleServices \cap services : svcObj[s] = service[s]

\* Spec 8 (Convergence): after a quiescent period the route store equals the
\* routes of ready proxies, services with external IPs and ready endpoints;
\* serviceAdd's early return is what this is checked against.
RoutesMatchClusterWhenQuiet ==
    (Settled /\ podQ = << >> /\ serviceQ = << >> /\ endpointsQ = << >>)
        => routes = ClusterRoutes

\* The controller implements RouteSync.  The store is only edited while a
\* reconcile is owed (a handler changed a cache, or a run has not yet
\* finished cleanly).  While no further run is due (no Dirty() call pending,
\* no flag set) each edit moves the store toward the caches' routes: a
\* deleted route is one the caches do not want and an added one is one they
\* do.  The reconciler becomes settled only on a store that holds exactly
\* the wanted routes.  A Delete that removes a wanted route is allowed only
\* when a cache changed after its lookup, which leaves a rerun due.
Abs == INSTANCE RouteSync WITH Pairs <- Routes, announced <- routes,
                               wanted <- DesiredRoutes, owed <- ~Settled,
                               rerun <- RerunDue

RefinesRouteSync == Abs!Spec

\* Spec 4.5 and its prune-correctness test: the prune pass removes a route
\* only when its proxy, service or endpoints is missing from the caches.
\* The pass reads the live caches one lookup at a time; a handler that
\* re-adds the missing object between the lookup and routes.Delete breaks
\* this.
WithdrawsOnlyUndesired == [][\A r \in routes \ routes' : r \notin DesiredRoutes]_vars

\* Once the cluster stops changing and route-store failures run out, the
\* reconcile loop (retrying after every failed run) brings the route store to
\* the caches' desired routes and keeps it there, unless the controller stops.
Convergence == <>[](stopped \/ routes = DesiredRoutes)

=============================================================================
