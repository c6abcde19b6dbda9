# Verification of kube-parrot's external-IP controller

These are the TLA+ models, TLC configurations and TLAPS proofs for the
external-IP routing controller in `src/pkg/controller/externalservices.go`.
They cover the collaborators the controller drives: the `DirtyReconciler`
and the BGP `ExternalIPRoutesStore`. Both live outside `src/`, so they are
modelled from `spec.md` (marked `spec_modelled` in `PROJECT.json`).

## 1. Inventory

### Components and their state

| Component | Code | State | Operations |
|---|---|---|---|
| Observed-state caches | `proxies`, `services`, `endpoints` (`cache.Store`, key namespace/name) | set of keys per kind; for services also the stored object | `Add`, `Delete`, `Get`, `List` |
| Readiness filters | inline in `podAdd` (name prefix, namespace, `HostIP == hostIP.To4().String()`, `IsPodReady`), `serviceAdd` (`len(ExternalIPs) > 0`), `endpointsAdd` (a subset with addresses) | none | predicates |
| Event handlers | `podAdd/podUpdate/podDelete`, `serviceAdd/serviceUpdate/serviceDelete`, `endpointsAdd/endpointsUpdate/endpointsDelete` | none of their own | one per notification |
| Informers (event source, not in `src/`) | shared informers | cluster objects; an in-order notification queue per kind | create, update, resync, delete, tombstone delete, initial list |
| Process | `NewExternalServicesController` in a restarted process | nothing persisted (spec 1) | crash, restart |
| DirtyReconciler (not in `src/`) | `reconciler.NewNamedDirtyReconciler` | a pending flag; idle or running; stopped | `Dirty()`, run loop, stop |
| Reconcile function | `reconcile()` | its loop positions over `List()` snapshots | prune loop, converge loop |
| Route store (not in `src/`) | `bgp.ExternalIPRoutesStore` | set of (service, proxy) routes | `List`, `Add`, `Delete` (idempotent, may fail) |
| Vendored `cloud.google.com/go/trace` tests | `src/vendor/...` | none | not part of the system |

### How they interact

Each informer runs one goroutine per handler. That goroutine calls the
handler for each notification of its kind, in order. A handler reads its cache
with `Get`, updates the cache, and then calls `reconciler.Dirty()`. These
three calls are separate, and the reconciler goroutine runs at the same time.
The reconciler waits for the pending flag, clears it, and calls `reconcile()`.
`reconcile()` reads `routes.List()` and deletes every route whose proxy,
service or endpoints are no longer cached. It then walks `proxies.List()` and,
for each proxy, a fresh `services.List()`, calling `routes.Add` wherever
`endpoints.Get(service)` succeeds. Any store error ends the run early, and the
reconciler marks itself dirty again (spec 4.4). The only shared mutable state
is the three caches (internally locked) and the route store.

### What is hard

* Interleavings: handler writes and `Dirty()` calls can fall between any two
  reads of a running reconcile. The converge loop works on snapshots.
* Ordering: the flag must be set after the cache write, or a run can clear it
  and read the old cache.
* Partial failure: a run can stop after any route-store call. The retry is
  the only thing that repairs the result.
* Event delivery: resyncs, duplicated updates, unscheduled pods, objects
  that become not ready, deletes, and tombstones.
* The spec's end-to-end promise: after quiet, the announced routes are exactly
  the ready proxies × services with external IPs × ready endpoints.

### Properties that make each component correct

* Handlers and caches: once a kind's queue is drained, its cache equals the
  filter applied to the cluster (`CachesTrackCluster`, plus the services part,
  which the code violates).
* DirtyReconciler with handlers: no change is lost. When everything is
  settled, the route store equals the routes desired by the caches
  (`RoutesMatchCachesWhenSettled`).
* Reconcile with retry: the route store eventually converges and stays
  converged (`Convergence`).
* End to end: after quiet, the routes match the cluster
  (`RoutesMatchClusterWhenQuiet`, spec 8).

## 2. The model: `ExternalServices.tla`

**Constants.**
* `Pods` and `ProxyPods`: the pods, and which of them match the kube-proxy
  name and namespace filter.
* `Svcs`: the service keys, which are shared with their Endpoints.
* `ExternalIPs`.
* `NodeIsIPv4`: whether `hostIP.To4()` is non-nil.
* `MaxEvents` and `MaxFailures`: the named bounds.
* `Absent`, `Deleted`, `NoPod`: marker values.

**Data abstraction.** A pod is reduced to its `hostIP` (`""`, the node's
address, or another node's) and its Ready condition. A service is reduced to
its external-IP set. An Endpoints object is reduced to the address counts of
its subsets (0 or 1). Caches hold keys; the services cache also holds the
object stored under each key (`svcObj`), because `reconcile()` hands that
object to `routes.Add`. A route is a pair (service key, pod key).

| Variables | Code |
|---|---|
| `pod`, `service`, `endpointsObj`, `podQ`, `serviceQ`, `endpointsQ`, `sent` | the API server and informer queues |
| `proxies`, `services`, `endpoints` | the keys of the three `cache.Store`s |
| `svcObj[s]` | the object `services` stores under key `s` |
| `hpc[k]` | whether kind k's handler still owes its `Dirty()` call |
| `dirty`, `rstate`, `stopped` | DirtyReconciler |
| `toPrune`, `cvProxies`, `cvProxy`, `cvSvcs` | the positions of `reconcile()`'s loops over their `List()` snapshots |
| `prRoute`, `prCheck`, `prStage` | the prune loop body's position: its route (`NoRoute` between routes), which of its three lookups is current, and whether the lookup or the `Delete` after a miss is next |
| `routes`, `failures` | the route store, and the store failures so far |

**Actions.**

* Cluster changes: `PodChange`, `PodRemove`, `ServiceChange`,
  `ServiceRemove`, `EndpointsChange`, `EndpointsRemove`. A change may repeat
  the current object (a resync). A pod's host IP is only set once.
* Handlers: `HandlePod`, `HandleService` and `HandleEndpoints` pop a
  notification and run the whole handler as one step: `podAdd`, `podDelete`,
  and so on, with `Update` equal to `Add(cur)`. `serviceAdd` stores the
  object only when the key is not cached yet (line 143). `Raise` records
  whether a `Dirty()` call is now due. `Dirty(k)` makes that call.
* `StartRun` clears the flag and takes `routes.List()`.
* The prune loop body (lines 200-218) takes one step per statement that
  reads or writes shared state. `NextRoute(r)` moves to the next route of
  the `routes.List()` snapshot. `CacheGet` makes the current lookup
  (`proxies.Get`, `services.Get`, `endpoints.Get`; `Missing(r, c)` says
  whether lookup c misses). A hit goes on to the next lookup (`NextCheck`).
  A miss leads to `RouteDelete`, the `routes.Delete(route)`. It succeeds and
  the body goes on, or it fails and calls `Abort`, which re-marks the
  reconciler dirty.
* `BeginConverge`, `NextProxy(p)`, `ConvergeService(s)` and `FinishRun` are
  the converge loop and the successful return.
* `Stop` closes the stop channel.

Each handler runs atomically, because its informer serialises it and only
that handler writes its cache. The `Dirty()` call after it is a separate step.
This is the gap that matters.

A lookup and the `Delete` it decides are separate steps because no lock
spans them: a handler can re-add the missing object in between, and the
`Delete` then removes a route the caches want (run `prune_race`). The
converge loop's `endpoints.Get` and `routes.Add` stay one step
(`ConvergeService`). A handler that overtakes that pair can only make the
`Add` add a route the caches no longer want. Its `Dirty()` call forces a
later run, which prunes the route.

**Fairness** (`FairSpec`) is weak fairness on each handler goroutine, on
each `Dirty(k)`, and on the reconciler goroutine as a whole. These are
goroutines that never block except on their input, so this fairness is
justified. Cluster changes and `Stop` get no fairness.

### The abstract contract: `RouteSync.tla`

`RouteSync` states what the controller promises about the route store,
with the informers, the caches and the loops hidden. It has four variables:

* `announced`: the routes in the store;
* `wanted`: the routes the observed state calls for;
* `owed`: whether a reconcile is owed or in flight;
* `rerun`: whether a further reconcile is due, because the observed state
  changed or a run failed after the current run began.

It has six actions:

* `Observe`: the wanted set may change, but only by making a reconcile owed
  and a rerun due.
* `Retry`: a run fails and makes a rerun due.
* `Begin`: a run starts and may clear `rerun`. Only this action clears it.
* `Withdraw`: while a reconcile is owed, a route that is not wanted may be
  removed. While a rerun is due, any route may be removed.
* `Announce`: while a reconcile is owed, a wanted route may be added. While
  a rerun is due, any route may be added.
* `Settle`: the debt is discharged only when no rerun is due and
  `announced = wanted`.

So while no rerun is due every edit moves the store toward the wanted
routes. A run whose lookups a handler has overtaken may move it away, but
only while the rerun that repairs it is due.

`ExternalServices` instantiates it as
`Abs == INSTANCE RouteSync WITH announced <- routes, wanted <- DesiredRoutes,
owed <- ~Settled, rerun <- RerunDue`. `RerunDue` means the flag is set or a
handler still owes its `Dirty()` call. `RefinesRouteSync == Abs!Spec` is
checked by the safety run and proved by `Refinement`.

### Crashes and tombstones: `ExternalServicesRestart.tla`

This module extends `ExternalServices` with two things.

* **Tombstones.** `PodVanish`, `ServiceVanish` and `EndpointsVanish` model an
  informer that missed a delete. It delivers a
  `cache.DeletedFinalStateUnknown` tombstone (`Tombstone`). The delete
  handlers begin with an unchecked type assertion, so `PodPanic`,
  `ServicePanic` and `EndpointsPanic` model the handler panicking and the
  process dying. The typed handlers are `HandlePodTyped` and the like.
* **Outside crashes.** `Crash` is an outside crash, at most `MaxCrashes`
  times.

Both kinds of failure end in `Restart`. Nothing is persisted, and the BGP
speaker runs in the same process. So the new process has empty stores, an
idle reconciler and an empty route store. Each informer starts with a full
resync (`Resync`): the current objects, delivered as adds in any order.

The crash and the restart are one step. Cluster changes made while the
process is down are seen by the resync, so merging the two steps loses no
behaviour of the stores. `FiniteKeysAssumption` states that a relist returns
finitely many objects.

## 3. Runs

The `ExternalServices` runs use `MC_ExternalServices.tla` with pods `p1`,
`p2`, services `s1`, `s2` and one external IP (two for `stale_service`).
The restart runs use `MC_ExternalServicesRestart.tla` with pods `p1`
(a kube-proxy) and `p2`, and service `s1`.

| Run | cfg | Checks | Bounds | Result |
|---|---|---|---|---|
| safety | `MC_ExternalServices.cfg` | `TypeOK`, `RoutesMatchCachesWhenSettled`, `CachesTrackCluster`, `RefinesRouteSync` | 4 cluster changes, 1 store failure; `p1` is a kube-proxy and `p2` is not; symmetry on services | pass, ~0.95M distinct states, ~70 s |
| convergence | `MC_Convergence.cfg` | `Convergence` under `FairSpec` | both pods kube-proxies, service `s1` only, 4 changes, 1 failure | pass, ~0.57M distinct states, ~2 min |
| restart | `MC_Restart.cfg` | `RTypeOK`, `CachesTrackCluster`, `RoutesMatchCachesWhenSettled` | 4 changes including tombstones of every kind, 1 outside crash, no store failure | pass, ~1.06M distinct states, ~65 s |
| service_loses_external_ips | `MC_ServiceLosesIPs.cfg` | `RoutesMatchClusterWhenQuiet` | 4 changes | **violation**: create pod, create service with IP, remove the IP, create ready endpoints; the route (s1, p1) stays |
| ipv6_node | `MC_IPv6Node.cfg` | `CachesTrackCluster` with `NodeIsIPv4 = FALSE` | 2 changes | **violation**: a ready local kube-proxy is never cached |
| stale_service | `MC_StaleService.cfg` | `ServiceCacheCurrent` | 2 changes, two external IPs | **violation**: s1 is created with `ip1` and then updated to `ip2`; the cache keeps the `ip1` object |
| tombstone | `MC_Tombstone.cfg` | `WithdrawsWantedOnlyOnRerun` | 4 changes, no outside crash | **violation**: with route (s1, p1) announced and no reconcile due, p1's delete arrives as a tombstone; the panic's restart withdraws the route while the caches still want it |
| prune_race | `MC_PruneRace.cfg` | `WithdrawsOnlyUndesired` | one kube-proxy pod, one service, 5 changes, no failure | **violation**: route (s1, p1) is announced; p1 turns unready, a run's `proxies.Get` misses, p1 turns ready again and is re-cached, and the run's `routes.Delete` withdraws the route the caches want. The handler's `Dirty()` call makes the next run add it back |

Why these bounds are enough:

* Four changes is the smallest bound at which a route is created and then
  has one of its three inputs withdrawn. The proxy, the service and the
  endpoints must all exist first.
* `prune_race` needs five: three to create the route, then one to remove
  an input and one to re-add it.
* In the restart run, four changes are enough for a route to exist when a
  tombstone or a crash arrives.
* The one failure can hit either loop.

`CHECK_DEADLOCK FALSE`: once the bounded cluster stops changing and the
reconciler is idle, nothing is enabled. The real controller waits idle in
exactly the same way.

Every property of a passing run has a mutant in `PROJECT.json`. Each mutant
is a faulty variant defined just before the operator it replaces:

* routes built with service and proxy swapped;
* a prune loop that checks only the route's proxy;
* endpoints that lose their addresses but stay cached;
* a not-ready proxy removed without `Dirty()`;
* a prune lookup that always reports a miss, so a wanted route is deleted
  with no rerun due, which breaks the refinement;
* a resync that lists deleted objects;
* a restart that keeps the caches;
* a restart whose route store survives the process. In that case a settled
  reconciler keeps routes nobody wants, because no resync add raises
  `Dirty()`.

## 4. Proofs

Four modules hold the proofs. All of them are checked by `tlapm` to the
last leaf.

**`ExternalServicesProofs.tla`**

* `TypeCorrect: Spec => []TypeOK` holds for all constants. It needs the
  strengthening `RunShape`: an inner-loop service is only pending under a
  real proxy, and only in the converge phase. Without it, `ConvergeService`
  could add `<<s, NoPod>>`.
* `SettledRoutesCorrect: Spec => []RoutesMatchCachesWhenSettled`. The
  inductive invariant is `IInv == TypeInv /\ (Clean => CleanInv)`, where
  `Clean` means the flag is clear and no `Dirty()` call is due:
  * idle: `routes = DesiredRoutes`;
  * prune (`PruneShape`): every route the prune loop is done with is
    desired; the lookups of the current route that came before the current
    one hit; and when the `Delete` is next, the current lookup missed. The
    caches cannot have changed since the lookup, because the state is still
    clean;
  * converge: every route is desired, the loop variables are within the
    current caches, and each desired route is stored or still ahead of the
    loop (`ConvergeCover`).

  A handler that changes a cache makes the state not clean until the next
  `StartRun` (lemmas `*HandlerQuiet`).

**`RouteSyncRefinement.tla`**

`Refinement: Spec => RefinesRouteSync`. Each step of `ExternalServices`
maps to an `Abs` step or a stutter:

* A handler that changes a cache leaves a `Dirty()` call due. So
  `RerunDue` holds afterwards and the step is `Observe`.
* A handler that leaves no call due has not changed its cache. It is a
  stutter.
* `StartRun` is `Begin`. A failed store call (`Abort`) is `Retry`.
* A `RouteDelete` that removes `prRoute` is `Withdraw`. If a rerun is due,
  any route may go. Otherwise the state is `Clean` (`CleanNoRerun`), and
  `PruneShape` says the current lookup missed on the current caches, so
  `prRoute` is not desired.
* A `ConvergeService` that adds a route is `Announce`. If no rerun is due,
  the converge clause of `CleanInv` puts the proxy and the service in their
  caches, so the route is desired.
* `FinishRun` is `Settle` when it leaves the system settled. The converge
  clause of `IInv` then gives `routes = DesiredRoutes`. Otherwise the flag
  is set or a `Dirty()` call is due, and the step is a stutter.

The earlier form of this contract said that a withdrawn route is never a
wanted one. That is false of the code (run `prune_race`). The contract now
allows it only while a rerun is due.

**`CacheTrackingProofs.tla`**

`CachesTracked: ASSUME NodeIsIPv4 PROVE Spec => []CachesTrackCluster`. The
inductive invariant is
`CacheInv == TypeInv /\ PodQueueInv /\ EndpointsQueueInv`. It holds per key,
over the queued notifications:

* `LastMatches`: the last notification queued for a key carries the
  cluster's current object, or `Deleted` when the cluster has none.
* `ProxyTracks` and `EndpointsTracks`: with no notification of the key
  queued, the cache holds the key iff the filter accepts the object.
* `HostChain` and `HostLast` (pods only): since a pod's host IP is set once,
  every queued object of a pod after a scheduled one, with no delete in
  between, has the same host IP, and so does the cluster's object.
* `CachedHost`: a cached proxy is a kube-proxy pod. Its queued objects up to
  its first queued delete, and the cluster's object if no delete is queued,
  are on this node.

The host-IP clauses are what make the early return of `podAdd` at line 87
harmless. That return never reaches a cached proxy, because the proxy's
queued objects carry `NodeIP`, which equals `HostIPString` on an IPv4 node.
On an IPv6 node this fails, as the `ipv6_node` run shows. The invariant was
checked with TLC (2.2M and 5.1M states) before it was proved.

Lemmas about keyed queues (`LastMatchesAppend`, `ClearTail`,
`HostChainAppend`, ...) are stated once and cited where needed.

**`RestartProofs.tla`**

This module proves, for all constants, the three invariants that the
`restart` run checks:

* `RTypeCorrect: RSpec => []RTypeOK`;
* `RSettledRoutesCorrect: RSpec => []RoutesMatchCachesWhenSettled`;
* `RCachesTracked: ASSUME NodeIsIPv4 PROVE RSpec => []CachesTrackCluster`.

The step lemmas group `RNext` in three:

* `ControllerStep`: the steps of `ExternalServices`, with the typed
  handlers. Each is a `Next` step, so the earlier lemmas apply.
* `Vanish`: the tombstone cluster changes.
* `Reset`: the panics and `Crash`. Each of them is a `Restart`.

The invariants are built as follows:

* **Types.** `RTypeInv` is the type invariant plus `RunShape` and one more
  fact: while a tombstone is queued, `panics < sent`. Only a `Vanish` step
  queues a tombstone, and it counts as a cluster change. Only a panic
  removes one. So `panics \in 0..sent` survives a panic.
* **Settled routes.** This uses `IInv` of `ExternalServicesProofs`
  unchanged. A vanish step leaves the caches, the flag and the reconciler
  alone. A restart starts clean, and its route store equals the desired
  routes, because both are empty (`RestartClean`).
* **Caches.** The per-key invariants hold for a kind only while its queue
  holds no tombstone:

  `RCacheInv == RTypeInv /\ (NoTomb(podQ) => PodQueueInv) /\ (NoTomb(endpointsQ) => EndpointsQueueInv)`.

  The guard is needed because a tombstone breaks `LastMatches`: it is the
  last notification of its key, but it is neither the cluster's object nor
  `Deleted`. The guard costs nothing:
  * a tombstone is never popped, since only the panic, which restarts, meets
    it at the head;
  * a drained queue holds no tombstone;
  * the controller's steps add and remove no tombstone (`ControllerQueues`).

  A restart re-establishes the invariants (`RestartPodQueue`,
  `RestartEndpointsQueue`), because the caches are empty. `ResyncEntries`
  shows that a resync is a bijection from `1..n` onto the current objects
  (via `FS_Injection` and `FS_Interval`). So:
  * every entry carries its key's current object;
  * every key with an object has an entry;
  * no key has two entries, so `HostChain` holds trivially.

The resync facts need `FiniteKeysAssumption` (finitely many pods and
services, as an informer's relist returns). The invariants were checked with
TLC on the `restart` instance (1.05M states) before they were proved.

**What stays with TLC.**

* `Convergence`: liveness under fairness is outside TLAPS.
* The five violations.

## 5. Not modelled

* The BGP speaker and the external IPs a route announces. A route is a
  (service, proxy) pair. The stale object that `serviceAdd` leaves in the
  cache is checked on the cache itself (`ServiceCacheCurrent`).
* A process that stays down: every crash is followed by a restart.
* Logging. Note that `serviceAdd` logs "Deleting Service" when it adds one.
* `serviceDelete` raises dirty even for an uncached service. The model keeps
  this behaviour, but no property distinguishes it.
