---------------------- MODULE ExternalServicesRestart ----------------------
(***************************************************************************)
(* ExternalServices with process crashes and DeletedFinalStateUnknown      *)
(* tombstones.                                                             *)
(*                                                                         *)
(*  - An informer that missed a delete (its watch broke and the object was *)
(*    gone at the relist) delivers the delete as a tombstone wrapping the  *)
(*    last known object.  Each delete handler starts with a type           *)
(*    assertion to the typed object (a Pod, a Service, an Endpoints) that  *)
(*    panics on a tombstone; the informer re-panics and the process        *)
(*    dies.                                                                *)
(*  - The process may also crash for other reasons, a bounded number of    *)
(*    times.                                                               *)
(*  - Nothing is persisted (spec 1): the new process starts with empty     *)
(*    caches, an idle reconciler and, the BGP speaker being part of the    *)
(*    process, an empty route store; each informer starts with a full      *)
(*    resync, the cluster's current objects delivered as adds in any       *)
(*    order.  Crash and restart are one step: cluster changes made while   *)
(*    the process is down are seen by the resync.                          *)
(***************************************************************************)
EXTENDS ExternalServices, SequencesExt

CONSTANTS
    MaxCrashes,    \* bound on crashes that are not caused by a tombstone
    Tombstone      \* the payload of a cache.DeletedFinalStateUnknown delete

ASSUME RestartAssumption ==
    /\ MaxCrashes \in Nat
    /\ Tombstone \notin PodObjects \cup ServiceObjects \cup EndpointsObjects \cup {Deleted}

\* An informer's relist returns the finitely many objects of its kind.
ASSUME FiniteKeysAssumption == IsFiniteSet(Pods) /\ IsFiniteSet(Svcs)

VARIABLES
    crashes,   \* crashes so far that no tombstone caused (bounded)
    panics     \* restarts so far caused by a tombstone

faults == <<crashes, panics>>
rvars == <<vars, faults>>


\* Faulty variant: the resync also lists keys whose object is gone.
ResyncWithDeleted(obj, keys) == SetToSeqs({<<k, obj[k]>> : k \in keys})

\* The adds of a full resync: every current object of a kind, in any order.
Resync(obj, keys) == SetToSeqs({<<k, obj[k]>> : k \in {j \in keys : obj[j] # Absent}})

RInit == Init /\ crashes = 0 /\ panics = 0

-----------------------------------------------------------------------------
(* The cluster deletes an object and its informer, having missed the       *)
(* delete event, queues a tombstone for it.                                *)

PodVanish(p) ==
    /\ sent < MaxEvents /\ pod[p] # Absent
    /\ pod' = [pod EXCEPT ![p] = Absent]
    /\ podQ' = Append(podQ, <<p, Tombstone>>)
    /\ sent' = sent + 1
    /\ UNCHANGED <<service, endpointsObj, serviceQ, endpointsQ, cacheVars, recVars,
                   stopped, faults>>

ServiceVanish(s) ==
    /\ sent < MaxEvents /\ service[s] # Absent
    /\ service' = [service EXCEPT ![s] = Absent]
    /\ serviceQ' = Append(serviceQ, <<s, Tombstone>>)
    /\ sent' = sent + 1
    /\ UNCHANGED <<pod, endpointsObj, podQ, endpointsQ, cacheVars, recVars, stopped, faults>>

EndpointsVanish(s) ==
    /\ sent < MaxEvents /\ endpointsObj[s] # Absent
    /\ endpointsObj' = [endpointsObj EXCEPT ![s] = Absent]
    /\ endpointsQ' = Append(endpointsQ, <<s, Tombstone>>)
    /\ sent' = sent + 1
    /\ UNCHANGED <<pod, service, podQ, serviceQ, cacheVars, recVars, stopped, faults>>

-----------------------------------------------------------------------------
(* The process dies and a new one starts: NewExternalServicesController    *)
(* with empty stores, a new DirtyReconciler, a new route store, and        *)
(* informers that begin with a resync.                                     *)

\* Faulty variant: the route store outlives the process.
RestartKeepsRoutes ==
    /\ podQ' \in Resync(pod, Pods)
    /\ serviceQ' \in Resync(service, Svcs)
    /\ endpointsQ' \in Resync(endpointsObj, Svcs)
    /\ proxies' = {} /\ services' = {} /\ endpoints' = {}
    /\ svcObj' = [s \in Svcs |-> Absent]
    /\ hpc' = [k \in Kinds |-> "idle"]
    /\ dirty' = FALSE /\ rstate' = "idle"
    /\ toPrune' = {} /\ cvProxies' = {} /\ cvProxy' = NoPod /\ cvSvcs' = {}
    /\ prRoute' = NoRoute /\ prCheck' = 1 /\ prStage' = "get"
    /\ stopped' = FALSE
    /\ UNCHANGED <<pod, service, endpointsObj, sent, failures, routes>>

\* Faulty variant: the caches outlive the process.
RestartKeepsCaches ==
    /\ podQ' \in Resync(pod, Pods)
    /\ serviceQ' \in Resync(service, Svcs)
    /\ endpointsQ' \in Resync(endpointsObj, Svcs)
    /\ hpc' = [k \in Kinds |-> "idle"]
    /\ dirty' = FALSE /\ rstate' = "idle"
    /\ toPrune' = {} /\ cvProxies' = {} /\ cvProxy' = NoPod /\ cvSvcs' = {}
    /\ prRoute' = NoRoute /\ prCheck' = 1 /\ prStage' = "get"
    /\ routes' = {}
    /\ stopped' = FALSE
    /\ UNCHANGED <<pod, service, endpointsObj, sent, failures, proxies, services,
                   endpoints, svcObj>>

Restart ==
    /\ podQ' \in Resync(pod, Pods)
    /\ serviceQ' \in Resync(service, Svcs)
    /\ endpointsQ' \in Resync(endpointsObj, Svcs)
    /\ proxies' = {} /\ services' = {} /\ endpoints' = {}
    /\ svcObj' = [s \in Svcs |-> Absent]
    /\ hpc' = [k \in Kinds |-> "idle"]
    /\ dirty' = FALSE /\ rstate' = "idle"
    /\ toPrune' = {} /\ cvProxies' = {} /\ cvProxy' = NoPod /\ cvSvcs' = {}
    /\ prRoute' = NoRoute /\ prCheck' = 1 /\ prStage' = "get"
    /\ routes' = {}
    /\ stopped' = FALSE
    /\ UNCHANGED <<pod, service, endpointsObj, sent, failures>>

\* A crash of the process for a reason outside the controller.
Crash ==
    /\ crashes < MaxCrashes
    /\ crashes' = crashes + 1
    /\ UNCHANGED panics
    /\ Restart

\* The delete handler of a kind is handed a tombstone: its type assertion
\* panics and takes the process down.
PodPanic ==
    /\ hpc["pod"] = "idle" /\ podQ # << >> /\ Head(podQ)[2] = Tombstone
    /\ Restart /\ panics' = panics + 1 /\ UNCHANGED crashes

ServicePanic ==
    /\ hpc["service"] = "idle" /\ serviceQ # << >> /\ Head(serviceQ)[2] = Tombstone
    /\ Restart /\ panics' = panics + 1 /\ UNCHANGED crashes

EndpointsPanic ==
    /\ hpc["endpoints"] = "idle" /\ endpointsQ # << >> /\ Head(endpointsQ)[2] = Tombstone
    /\ Restart /\ panics' = panics + 1 /\ UNCHANGED crashes

\* The handlers of ExternalServices, for the typed objects they assert.
HandlePodTyped == podQ # << >> /\ Head(podQ)[2] # Tombstone /\ HandlePod
HandleServiceTyped == serviceQ # << >> /\ Head(serviceQ)[2] # Tombstone /\ HandleService
HandleEndpointsTyped ==
    endpointsQ # << >> /\ Head(endpointsQ)[2] # Tombstone /\ HandleEndpoints

-----------------------------------------------------------------------------

RNext ==
    \/ Cluster /\ UNCHANGED faults
    \/ \E p \in Pods : PodVanish(p)
    \/ \E s \in Svcs : ServiceVanish(s) \/ EndpointsVanish(s)
    \/ (HandlePodTyped \/ HandleServiceTyped \/ HandleEndpointsTyped) /\ UNCHANGED faults
    \/ (\E k \in Kinds : Dirty(k)) /\ UNCHANGED faults
    \/ Reconciler /\ UNCHANGED faults
    \/ PodPanic \/ ServicePanic \/ EndpointsPanic
    \/ Crash

RSpec == RInit /\ [][RNext]_rvars

-----------------------------------------------------------------------------
(* Properties.                                                             *)

\* Every queued notification is a typed object, a delete or a tombstone (a
\* resync never delivers an object the cluster no longer holds), and the
\* route store only holds (service, proxy) pairs.
RTypeOK ==
    /\ pod \in [Pods -> PodObjects \cup {Absent}]
    /\ podQ \in Seq(Pods \X (PodObjects \cup {Deleted, Tombstone}))
    /\ serviceQ \in Seq(Svcs \X (ServiceObjects \cup {Deleted, Tombstone}))
    /\ endpointsQ \in Seq(Svcs \X (EndpointsObjects \cup {Deleted, Tombstone}))
    /\ routes \subseteq Routes
    /\ crashes \in 0..MaxCrashes /\ panics \in 0..sent

\* Spec 4.5 and spec 7: the route store loses a route the caches want only
\* through a prune step whose lookup a handler has since overtaken, which
\* leaves another run due; a malformed or unexpected object in a callback is
\* filtered out and never surfaces as a failure.  A tombstone reaching
\* podDelete, serviceDelete or endpointsDelete breaks this: the restart
\* empties the store with no run due.
WithdrawsWantedOnlyOnRerun ==
    [][\A r \in routes \ routes' : r \notin DesiredRoutes \/ RerunDue]_rvars

=============================================================================
