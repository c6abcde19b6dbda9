------------------------ MODULE CacheTrackingProofs ------------------------
(***************************************************************************)
(* Proof that the pod and endpoints handlers keep their caches equal to    *)
(* the readiness filters applied to the cluster once their informer is     *)
(* drained (CachesTrackCluster), on a node whose hostIP is IPv4.           *)
(*                                                                         *)
(* The invariant is per key.  An informer queue is a sequence of           *)
(* <<key, payload>> notifications; for every key k                         *)
(*  - the last notification queued for k carries the cluster's current     *)
(*    object for k (Deleted when there is none), and                       *)
(*  - when no notification for k is queued, the cache holds k iff the      *)
(*    cluster's object passes the filter.                                  *)
(* A handler applies the head notification only; when it was the last one  *)
(* for its key, the first clause says it carried the current object.  For  *)
(* pods, clauses on host IPs (set once per pod) show that the early return *)
(* of podAdd never meets a cached proxy.                                   *)
(***************************************************************************)
EXTENDS ExternalServicesProofs

\* Some notification for key k is queued.
HasKey(q, k) == \E i \in 1..Len(q) : q[i][1] = k

\* The i-th notification is the last one queued for key k.
LastFor(q, k, i) == q[i][1] = k /\ \A j \in (i + 1)..Len(q) : q[j][1] # k

\* A notification's payload describes the cluster value v.
Matches(x, v) == IF x = Deleted THEN v = Absent ELSE v = x

\* The last notification queued for k describes v.
LastMatches(q, k, v) == \A i \in 1..Len(q) : LastFor(q, k, i) => Matches(q[i][2], v)

-----------------------------------------------------------------------------
(* Facts about keyed notification queues.                                  *)

\* The tail of a queue is the queue shifted by one.
LEMMA TailShift ==
    ASSUME NEW S, NEW q \in Seq(S), q # << >>
    PROVE  /\ Len(Tail(q)) = Len(q) - 1
           /\ \A j \in 1..Len(q) - 1 : Tail(q)[j] = q[j + 1]
OBVIOUS

\* Appending a notification for k makes it the last one for k; appending
\* one for another key leaves the last one for k where it was.
LEMMA LastMatchesAppend ==
    ASSUME NEW S, NEW q \in Seq(S), NEW e \in S, NEW k, NEW v, NEW w,
           LastMatches(q, k, v),
           e[1] = k => Matches(e[2], w),
           e[1] # k => w = v
    PROVE  LastMatches(Append(q, e), k, w)
<1> SUFFICES ASSUME NEW i \in 1..Len(Append(q, e)), LastFor(Append(q, e), k, i)
             PROVE  Matches(Append(q, e)[i][2], w)
  BY DEF LastMatches
<1>1. CASE i = Len(q) + 1
  BY <1>1 DEF LastFor
<1>2. CASE i \in 1..Len(q)
  <2>1. e[1] # k
    BY <1>2 DEF LastFor
  <2>2. LastFor(q, k, i)
    BY <1>2 DEF LastFor
  <2>3. QED
    BY <1>2, <2>1, <2>2 DEF LastMatches
<1>3. QED
  BY <1>1, <1>2

\* Popping the head keeps the last notification of every key.
LEMMA LastMatchesTail ==
    ASSUME NEW S, NEW q \in Seq(S), q # << >>, NEW k, NEW v, LastMatches(q, k, v)
    PROVE  LastMatches(Tail(q), k, v)
<1> SUFFICES ASSUME NEW i \in 1..Len(Tail(q)), LastFor(Tail(q), k, i)
             PROVE  Matches(Tail(q)[i][2], v)
  BY DEF LastMatches
<1>1. LastFor(q, k, i + 1)
  <2>1. /\ Len(Tail(q)) = Len(q) - 1
        /\ \A j \in 1..Len(q) - 1 : Tail(q)[j] = q[j + 1]
    BY TailShift
  <2>2. q[i + 1][1] = k
    BY <2>1 DEF LastFor
  <2>3. \A j \in (i + 2)..Len(q) : q[j][1] # k
    <3> SUFFICES ASSUME NEW j \in (i + 2)..Len(q) PROVE q[j][1] # k
      OBVIOUS
    <3>1. j - 1 \in (i + 1)..Len(Tail(q)) /\ Tail(q)[j - 1] = q[j]
      BY <2>1
    <3>2. QED
      BY <3>1 DEF LastFor
  <2>4. QED
    BY <2>2, <2>3 DEF LastFor
<1>2. QED
  BY <1>1 DEF LastMatches

\* The head is the last notification of its key once no other is queued.
LEMMA HeadIsLast ==
    ASSUME NEW S, NEW q \in Seq(S), q # << >>, NEW k, Head(q)[1] = k,
           ~HasKey(Tail(q), k)
    PROVE  LastFor(q, k, 1)
<1>1. /\ Len(Tail(q)) = Len(q) - 1
      /\ \A j \in 1..Len(q) - 1 : Tail(q)[j] = q[j + 1]
  BY TailShift
<1>2. \A j \in 2..Len(q) : q[j][1] # k
  <2> SUFFICES ASSUME NEW j \in 2..Len(q) PROVE q[j][1] # k
    OBVIOUS
  <2>1. j - 1 \in 1..Len(Tail(q)) /\ Tail(q)[j - 1] = q[j]
    BY <1>1
  <2>2. QED
    BY <2>1 DEF HasKey
<1>3. QED
  BY <1>2 DEF LastFor

\* A key with no notification in the tail and none at the head has none.
LEMMA NoKeyTail ==
    ASSUME NEW S, NEW q \in Seq(S), q # << >>, NEW k, Head(q)[1] # k,
           ~HasKey(Tail(q), k)
    PROVE  ~HasKey(q, k)
<1>1. /\ Len(Tail(q)) = Len(q) - 1
      /\ \A j \in 1..Len(q) - 1 : Tail(q)[j] = q[j + 1]
  BY TailShift
<1> SUFFICES ASSUME NEW i \in 1..Len(q) PROVE q[i][1] # k
  BY DEF HasKey
<1>2. CASE i = 1
  BY <1>2
<1>3. CASE i > 1
  <2>1. i - 1 \in 1..Len(Tail(q)) /\ Tail(q)[i - 1] = q[i]
    BY <1>1, <1>3
  <2>2. QED
    BY <2>1 DEF HasKey
<1>4. QED
  BY <1>2, <1>3

\* A key with no notification after an append had none before, and the
\* appended one is for another key.
LEMMA NoKeyAppend ==
    ASSUME NEW S, NEW q \in Seq(S), NEW e \in S, NEW k, ~HasKey(Append(q, e), k)
    PROVE  ~HasKey(q, k) /\ e[1] # k
<1>1. Len(Append(q, e)) = Len(q) + 1 /\ Append(q, e)[Len(q) + 1] = e
  OBVIOUS
<1>2. \A i \in 1..Len(q) : Append(q, e)[i] = q[i]
  OBVIOUS
<1>3. QED
  BY <1>1, <1>2 DEF HasKey

\* The m-th notification deletes key k.
DelAt(q, k, m) == q[m][1] = k /\ q[m][2] = Deleted

\* No notification strictly between positions i and j deletes key k.
Clear(q, k, i, j) == \A m \in (i + 1)..(j - 1) : ~DelAt(q, k, m)

\* The i-th notification is an object of pod k that is scheduled on a node.
Scheduled(q, k, i) == q[i][1] = k /\ q[i][2] # Deleted /\ q[i][2].hostIP # ""

\* A pod's host IP is set once: a later notification of the same pod, with
\* no delete in between, carries the same host IP.
HostChain(q, k) ==
    \A i, j \in 1..Len(q) :
        (i < j /\ Scheduled(q, k, i) /\ q[j][1] = k /\ q[j][2] # Deleted
               /\ Clear(q, k, i, j))
            => q[j][2].hostIP = q[i][2].hostIP

\* ... and so does the cluster's object, when no delete is queued after it.
HostLast(q, k, v) ==
    \A i \in 1..Len(q) :
        (Scheduled(q, k, i) /\ Clear(q, k, i, Len(q) + 1))
            => v # Absent /\ v.hostIP = q[i][2].hostIP

\* A cached proxy is a kube-proxy pod on this node, and so is every object
\* queued for it up to its first queued delete, and the cluster's object
\* when no delete is queued.
CachedHost(q, k, v) ==
    k \in proxies =>
        /\ k \in ProxyPods
        /\ \A i \in 1..Len(q) :
              (q[i][1] = k /\ q[i][2] # Deleted /\ Clear(q, k, 0, i))
                  => q[i][2].hostIP = NodeIP
        /\ Clear(q, k, 0, Len(q) + 1) => v # Absent /\ v.hostIP = NodeIP

-----------------------------------------------------------------------------
(* Facts about deletes queued between two positions.                       *)

\* The shape of a queue after an append.
LEMMA AppendShape ==
    ASSUME NEW S, NEW q \in Seq(S), NEW e \in S
    PROVE  /\ Len(Append(q, e)) = Len(q) + 1
           /\ Append(q, e)[Len(q) + 1] = e
           /\ \A m \in 1..Len(q) : Append(q, e)[m] = q[m]
OBVIOUS

\* Appending leaves the positions before the new one as they were.
LEMMA ClearAppend ==
    ASSUME NEW S, NEW q \in Seq(S), NEW e \in S, NEW k,
           NEW i \in 0..Len(q), NEW j \in 1..(Len(q) + 1)
    PROVE  Clear(Append(q, e), k, i, j) <=> Clear(q, k, i, j)
<1>1. \A m \in 1..Len(q) : Append(q, e)[m] = q[m]
  OBVIOUS
<1>2. QED
  BY <1>1 DEF Clear, DelAt

\* Up to the end of the longer queue: no delete before, and the appended
\* notification does not delete k.
LEMMA ClearAppendEnd ==
    ASSUME NEW S, NEW q \in Seq(S), NEW e \in S, NEW k, NEW i \in 0..Len(q)
    PROVE  Clear(Append(q, e), k, i, Len(q) + 2)
               <=> Clear(q, k, i, Len(q) + 1) /\ ~(e[1] = k /\ e[2] = Deleted)
<1>1. \A m \in 1..Len(q) : Append(q, e)[m] = q[m]
  OBVIOUS
<1>2. Append(q, e)[Len(q) + 1] = e
  OBVIOUS
<1>3. QED
  BY <1>1, <1>2 DEF Clear, DelAt

\* The tail shifts every position by one.
LEMMA ClearTail ==
    ASSUME NEW S, NEW q \in Seq(S), q # << >>, NEW k,
           NEW i \in 0..(Len(q) - 1), NEW j \in 1..Len(q)
    PROVE  Clear(Tail(q), k, i, j) <=> Clear(q, k, i + 1, j + 1)
<1>1. /\ Len(Tail(q)) = Len(q) - 1
      /\ \A m \in 1..Len(q) - 1 : Tail(q)[m] = q[m + 1]
  BY TailShift
<1>2. Clear(Tail(q), k, i, j) => Clear(q, k, i + 1, j + 1)
  <2> SUFFICES ASSUME Clear(Tail(q), k, i, j), NEW m \in (i + 2)..j
               PROVE  ~DelAt(q, k, m)
    BY DEF Clear
  <2>1. m - 1 \in (i + 1)..(j - 1) /\ Tail(q)[m - 1] = q[m]
    BY <1>1
  <2>2. QED
    BY <2>1 DEF Clear, DelAt
<1>3. Clear(q, k, i + 1, j + 1) => Clear(Tail(q), k, i, j)
  <2> SUFFICES ASSUME Clear(q, k, i + 1, j + 1), NEW m \in (i + 1)..(j - 1)
               PROVE  ~DelAt(Tail(q), k, m)
    BY DEF Clear
  <2>1. m + 1 \in (i + 2)..j /\ Tail(q)[m] = q[m + 1]
    BY <1>1
  <2>2. QED
    BY <2>1 DEF Clear, DelAt
<1>4. QED
  BY <1>2, <1>3

\* From the front of the queue, the head does not count when it is not a
\* delete of k.
LEMMA ClearFront ==
    ASSUME NEW S, NEW q \in Seq(S), q # << >>, NEW k, ~DelAt(q, k, 1),
           NEW j \in 1..(Len(q) + 1)
    PROVE  Clear(q, k, 0, j) <=> Clear(q, k, 1, j)
BY DEF Clear

-----------------------------------------------------------------------------
(* The host-IP chain under the cluster's appends and the handler's pops.   *)

\* An appended notification of k that is an object keeps the host IP of the
\* cluster's current scheduled object v (the cluster sets a pod's host IP
\* once).
KeepsHost(e, k, v) ==
    (e[1] = k /\ e[2] # Deleted /\ v # Absent /\ v.hostIP # "") => e[2].hostIP = v.hostIP

\* Appending an object of k whose host IP agrees with the cluster's current
\* scheduled object keeps the chain.
LEMMA HostChainAppend ==
    ASSUME NEW S, NEW q \in Seq(S), NEW e \in S, NEW k, NEW v,
           HostChain(q, k), HostLast(q, k, v), KeepsHost(e, k, v)
    PROVE  HostChain(Append(q, e), k)
<1> DEFINE r == Append(q, e)
<1>1. Len(r) = Len(q) + 1 /\ r[Len(q) + 1] = e /\ \A m \in 1..Len(q) : r[m] = q[m]
  BY AppendShape
<1> SUFFICES ASSUME NEW i \in 1..Len(r), NEW j \in 1..Len(r), i < j,
                    Scheduled(r, k, i), r[j][1] = k, r[j][2] # Deleted,
                    Clear(r, k, i, j)
             PROVE  r[j][2].hostIP = r[i][2].hostIP
  BY DEF HostChain
<1>2. i \in 1..Len(q) /\ Scheduled(q, k, i)
  <2>1. i \in 1..Len(q)
    BY <1>1
  <2>2. r[i] = q[i]
    BY <1>1, <2>1
  <2>3. QED
    BY <2>1, <2>2, Zenon DEF Scheduled
<1>3. CASE j \in 1..Len(q)
  <2>1. Clear(q, k, i, j)
    BY <1>3, ClearAppend
  <2>2. QED
    BY <1>1, <1>2, <1>3, <2>1 DEF HostChain
<1>4. CASE j = Len(q) + 1
  <2>1. Clear(q, k, i, Len(q) + 1)
    BY <1>4, ClearAppend
  <2>2. v # Absent /\ v.hostIP = q[i][2].hostIP
    BY <1>2, <2>1 DEF HostLast
  <2>3. q[i][2].hostIP # ""
    BY <1>2 DEF Scheduled
  <2>4. r[j] = e /\ r[i] = q[i]
    BY <1>1, <1>2, <1>4
  <2>5. e[1] = k /\ e[2] # Deleted
    BY <2>4, Zenon
  <2>6. e[2].hostIP = v.hostIP
    BY <2>2, <2>3, <2>5, Zenon DEF KeepsHost
  <2>7. QED
    BY <2>2, <2>4, <2>6, Zenon
<1>5. QED
  BY <1>3, <1>4, <1>1

\* Appending a notification of k moves the cluster's object to w: a delete
\* removes every claim, a scheduled object agrees with the chain; appending
\* one of another key changes nothing for k.
LEMMA HostLastAppend ==
    ASSUME NEW S, NEW q \in Seq(S), NEW e \in S, NEW k, NEW v, NEW w,
           HostLast(q, k, v), KeepsHost(e, k, v),
           (e[1] = k /\ e[2] # Deleted) => w = e[2] /\ w # Absent,
           e[1] # k => w = v
    PROVE  HostLast(Append(q, e), k, w)
<1> DEFINE r == Append(q, e)
<1>1. Len(r) = Len(q) + 1 /\ r[Len(q) + 1] = e /\ \A m \in 1..Len(q) : r[m] = q[m]
  BY AppendShape
<1> SUFFICES ASSUME NEW i \in 1..Len(r), Scheduled(r, k, i), Clear(r, k, i, Len(r) + 1)
             PROVE  w # Absent /\ w.hostIP = r[i][2].hostIP
  BY DEF HostLast
<1>2. CASE i = Len(q) + 1
  BY <1>1, <1>2 DEF Scheduled
<1>3. CASE i \in 1..Len(q)
  <2>1. Clear(q, k, i, Len(q) + 1) /\ ~(e[1] = k /\ e[2] = Deleted)
    BY <1>1, <1>3, ClearAppendEnd
  <2>2. Scheduled(q, k, i)
    BY <1>1, <1>3 DEF Scheduled
  <2>3. v # Absent /\ v.hostIP = q[i][2].hostIP /\ q[i][2].hostIP # ""
    BY <2>1, <2>2, <1>3 DEF HostLast, Scheduled
  <2>4. QED
    BY <1>1, <1>3, <2>1, <2>3 DEF KeepsHost
<1>4. QED
  BY <1>2, <1>3, <1>1

\* Popping the head keeps the chain and the cluster's agreement with it.
LEMMA HostTail ==
    ASSUME NEW S, NEW q \in Seq(S), q # << >>, NEW k, NEW v,
           HostChain(q, k), HostLast(q, k, v)
    PROVE  HostChain(Tail(q), k) /\ HostLast(Tail(q), k, v)
<1> DEFINE t == Tail(q)
<1>1. /\ Len(t) = Len(q) - 1
      /\ \A m \in 1..Len(q) - 1 : t[m] = q[m + 1]
  BY TailShift
<1>2. HostChain(t, k)
  <2> SUFFICES ASSUME NEW i \in 1..Len(t), NEW j \in 1..Len(t), i < j,
                      Scheduled(t, k, i), t[j][1] = k, t[j][2] # Deleted,
                      Clear(t, k, i, j)
               PROVE  t[j][2].hostIP = t[i][2].hostIP
    BY DEF HostChain
  <2>1. Clear(q, k, i + 1, j + 1)
    BY <1>1, ClearTail
  <2>2. Scheduled(q, k, i + 1)
    BY <1>1 DEF Scheduled
  <2>3. QED
    BY <1>1, <2>1, <2>2 DEF HostChain
<1>3. HostLast(t, k, v)
  <2> SUFFICES ASSUME NEW i \in 1..Len(t), Scheduled(t, k, i), Clear(t, k, i, Len(t) + 1)
               PROVE  v # Absent /\ v.hostIP = t[i][2].hostIP
    BY DEF HostLast
  <2>1. Clear(q, k, i + 1, Len(q) + 1)
    BY <1>1, ClearTail
  <2>2. Scheduled(q, k, i + 1)
    BY <1>1 DEF Scheduled
  <2>3. QED
    BY <1>1, <2>1, <2>2 DEF HostLast
<1>4. QED
  BY <1>2, <1>3

-----------------------------------------------------------------------------
(* The pod informer and the proxies cache.                                 *)

\* With no notification of p queued, the cache agrees with the filter.
ProxyTracks(p) == ~HasKey(podQ, p) => (p \in proxies <=> p \in EligibleProxies)

PodKeyInv(p) ==
    /\ LastMatches(podQ, p, pod[p])
    /\ HostChain(podQ, p)
    /\ HostLast(podQ, p, pod[p])
    /\ CachedHost(podQ, p, pod[p])
    /\ ProxyTracks(p)

PodQueueInv == \A p \in Pods : PodKeyInv(p)

\* The part of the type invariant the pod argument uses.
PodType == pod \in [Pods -> PodObjects \cup {Absent}] /\ podQ \in Seq(PodNote)

\* What HandlePod does to the proxies cache: podDelete removes the key,
\* podAdd keeps it exactly when the filter passes, other keys are untouched.
LEMMA PodHandlerEffect ==
    ASSUME HandlePod
    PROVE  LET e == Head(podQ) IN
           /\ \A p \in Pods \ {e[1]} : p \in proxies' <=> p \in proxies
           /\ e[2] = Deleted => e[1] \notin proxies'
           /\ (e[2] # Deleted /\ (e[1] \notin ProxyPods \/ e[2].hostIP # HostIPString))
                 => (e[1] \in proxies' <=> e[1] \in proxies)
           /\ (e[2] # Deleted /\ e[1] \in ProxyPods /\ e[2].hostIP = HostIPString)
                 => (e[1] \in proxies' <=> IsPodReady(e[2]))
<1> DEFINE e == Head(podQ)
<1>1. CASE e[2] = Deleted
  <2>1. proxies' = proxies \ {e[1]}
    BY <1>1 DEF HandlePod, podDelete
  <2>2. QED
    BY <1>1, <2>1
<1>2. CASE e[2] # Deleted /\ (e[1] \notin ProxyPods \/ e[2].hostIP # HostIPString)
  <2>1. proxies' = proxies
    BY <1>2, Zenon DEF HandlePod, podAdd
  <2>2. QED
    BY <1>2, <2>1
<1>3. CASE e[2] # Deleted /\ ~(e[1] \notin ProxyPods \/ e[2].hostIP # HostIPString)
           /\ IsPodReady(e[2])
  <2>1. proxies' = proxies \cup {e[1]}
    BY <1>3, Zenon DEF HandlePod, podAdd
  <2>2. QED
    BY <1>3, <2>1
<1>4. CASE e[2] # Deleted /\ ~(e[1] \notin ProxyPods \/ e[2].hostIP # HostIPString)
           /\ ~IsPodReady(e[2])
  <2>1. proxies' = proxies \ {e[1]}
    BY <1>4, Zenon DEF HandlePod, podAdd
  <2>2. QED
    BY <1>4, <2>1
<1>5. QED
  BY <1>1, <1>2, <1>3, <1>4

\* The value the cluster holds after a notification with payload x.
After(x) == IF x = Deleted THEN Absent ELSE x

\* The cluster queues a notification <<k, x>> for a pod and stores its
\* object: every key keeps its invariant when the new object of k keeps the
\* host IP of k's scheduled object.
LEMMA PodAppendKeeps ==
    ASSUME PodType, NEW p \in Pods, PodKeyInv(p),
           NEW k \in Pods, NEW x \in PodObjects \cup {Deleted},
           podQ' = Append(podQ, <<k, x>>),
           pod' = [pod EXCEPT ![k] = After(x)],
           proxies' = proxies,
           KeepsHost(<<k, x>>, p, pod[p])
    PROVE  PodKeyInv(p)'
<1> DEFINE q == podQ  e == <<k, x>>  v == pod[p]  w == pod'[p]
<1>1. q \in Seq(PodNote) /\ e \in PodNote
  BY DEF PodType, PodNote
<1>2. Len(podQ') = Len(q) + 1 /\ podQ'[Len(q) + 1] = e
      /\ \A m \in 1..Len(q) : podQ'[m] = q[m]
  BY <1>1, AppendShape
<1>3. e[1] = k /\ e[2] = x
  OBVIOUS
<1>4. k = p => w = After(x)
  BY DEF PodType
<1>5. k # p => w = v
  BY DEF PodType
<1>6. Absent \notin PodObjects /\ Deleted \notin PodObjects
  BY MarkerAssumption
<1>7. LastMatches(podQ', p, w)
  <2>1. e[1] = p => Matches(e[2], w)
    BY <1>3, <1>4 DEF Matches, After
  <2>2. QED
    BY <1>1, <1>3, <1>5, <2>1, LastMatchesAppend DEF PodKeyInv
<1>8. HostChain(podQ', p) /\ HostLast(podQ', p, w)
  <2>1. (e[1] = p /\ e[2] # Deleted) => w = e[2] /\ w # Absent
    BY <1>3, <1>4, <1>6 DEF After
  <2>2. HostChain(q, p) /\ HostLast(q, p, v)
    BY DEF PodKeyInv
  <2>3. QED
    BY <1>1, <1>3, <1>5, <2>1, <2>2, HostChainAppend, HostLastAppend
<1>9. CachedHost(podQ', p, w)
  <2> SUFFICES ASSUME p \in proxies
               PROVE  /\ p \in ProxyPods
                      /\ \A i \in 1..Len(podQ') :
                            (podQ'[i][1] = p /\ podQ'[i][2] # Deleted
                             /\ Clear(podQ', p, 0, i)) => podQ'[i][2].hostIP = NodeIP
                      /\ Clear(podQ', p, 0, Len(podQ') + 1) => w # Absent /\ w.hostIP = NodeIP
    BY DEF CachedHost
  <2>1. CachedHost(q, p, v)
    BY DEF PodKeyInv
  <2>2. p \in ProxyPods
    BY <2>1 DEF CachedHost
  \* The new notification of p, when no delete precedes it, is on this node.
  <2>3. ASSUME e[1] = p, e[2] # Deleted, Clear(q, p, 0, Len(q) + 1)
        PROVE  x.hostIP = NodeIP /\ After(x) # Absent
    <3>1. v # Absent /\ v.hostIP = NodeIP
      BY <2>1, <2>3 DEF CachedHost
    <3>2. NodeIP # ""
      BY DEF NodeIP
    <3>3. x.hostIP = v.hostIP
      BY <1>3, <2>3, <3>1, <3>2, Zenon DEF KeepsHost
    <3>4. x \in PodObjects
      BY <1>3, <2>3
    <3>5. QED
      BY <3>1, <3>3, <3>4, <1>6 DEF After
  <2>4. ASSUME NEW i \in 1..Len(podQ'), podQ'[i][1] = p, podQ'[i][2] # Deleted,
               Clear(podQ', p, 0, i)
        PROVE  podQ'[i][2].hostIP = NodeIP
    <3>1. Clear(q, p, 0, i)
      BY <1>1, <1>2, <2>4, ClearAppend
    <3>2. CASE i = Len(q) + 1
      BY <1>2, <1>3, <2>3, <2>4, <3>1, <3>2
    <3>3. CASE i \in 1..Len(q)
      BY <1>2, <2>1, <2>4, <3>1, <3>3 DEF CachedHost
    <3>4. QED
      BY <1>2, <3>2, <3>3
  <2>5. ASSUME Clear(podQ', p, 0, Len(podQ') + 1)
        PROVE  w # Absent /\ w.hostIP = NodeIP
    <3>1. Clear(q, p, 0, Len(q) + 1) /\ ~(e[1] = p /\ e[2] = Deleted)
      BY <1>1, <1>2, <2>5, ClearAppendEnd
    <3>2. CASE k = p
      BY <1>3, <1>4, <2>3, <3>1, <3>2 DEF After
    <3>3. CASE k # p
      BY <1>5, <2>1, <3>1, <3>3 DEF CachedHost
    <3>4. QED
      BY <3>2, <3>3
  <2>6. QED
    BY <2>2, <2>4, <2>5
<1>10. ProxyTracks(p)'
  <2> SUFFICES ASSUME ~HasKey(podQ', p)
               PROVE  p \in proxies' <=> p \in EligibleProxies'
    BY DEF ProxyTracks
  <2>1. ~HasKey(q, p) /\ k # p
    BY <1>1, <1>3, NoKeyAppend
  <2>2. p \in proxies <=> p \in EligibleProxies
    BY <2>1 DEF PodKeyInv, ProxyTracks
  <2>3. QED
    BY <1>5, <2>1, <2>2 DEF EligibleProxies
<1>11. QED
  BY <1>7, <1>8, <1>9, <1>10, Zenon
     DEF PodKeyInv, LastMatches, HostChain, HostLast, CachedHost

\* The pod handler applies the head notification: every key keeps its
\* invariant.  The early return of podAdd cannot drop a cached proxy: a
\* cached proxy's queued objects are on this node, whose host IP string is
\* its address when it is IPv4.
LEMMA HandlePodKeeps ==
    ASSUME NodeIsIPv4, PodType, NEW p \in Pods, PodKeyInv(p), HandlePod
    PROVE  PodKeyInv(p)'
<1> DEFINE q == podQ  e == Head(podQ)  t == Tail(podQ)  v == pod[p]
<1>1. q \in Seq(PodNote) /\ q # << >> /\ podQ' = t /\ pod' = pod
  BY DEF PodType, HandlePod
<1>2. /\ Len(t) = Len(q) - 1
      /\ \A m \in 1..Len(q) - 1 : t[m] = q[m + 1]
      /\ e = q[1] /\ e \in PodNote /\ t \in Seq(PodNote)
  BY <1>1, TailShift, TailType
<1>3. HostIPString = NodeIP /\ NodeIP # ""
  BY DEF HostIPString, NodeIP
<1>4. /\ \A r \in Pods \ {e[1]} : r \in proxies' <=> r \in proxies
      /\ e[2] = Deleted => e[1] \notin proxies'
      /\ (e[2] # Deleted /\ (e[1] \notin ProxyPods \/ e[2].hostIP # HostIPString))
            => (e[1] \in proxies' <=> e[1] \in proxies)
      /\ (e[2] # Deleted /\ e[1] \in ProxyPods /\ e[2].hostIP = HostIPString)
            => (e[1] \in proxies' <=> IsPodReady(e[2]))
  BY PodHandlerEffect
<1>5. LastMatches(t, p, v) /\ HostChain(t, p) /\ HostLast(t, p, v)
  BY <1>1, LastMatchesTail, HostTail DEF PodKeyInv
\* A notification of p that podAdd would ignore never reaches a cached p.
<1>6. ASSUME e[1] = p, e[2] # Deleted,
             p \notin ProxyPods \/ e[2].hostIP # HostIPString
      PROVE  p \notin proxies
  <2> SUFFICES ASSUME p \in proxies PROVE FALSE
    OBVIOUS
  <2>1. Clear(q, p, 0, 1)
    BY DEF Clear
  <2>2. p \in ProxyPods /\ q[1][2].hostIP = NodeIP
    BY <1>1, <1>2, <1>6, <2>1 DEF PodKeyInv, CachedHost
  <2>3. QED
    BY <1>2, <1>3, <1>6, <2>2, Zenon
\* The head is a scheduled object of p on this node, cached or not.
<1>7. ASSUME e[1] = p, e[2] # Deleted, p \in ProxyPods, e[2].hostIP = HostIPString
      PROVE  /\ Scheduled(q, p, 1)
             /\ \A i \in 1..Len(t) :
                   (t[i][1] = p /\ t[i][2] # Deleted /\ Clear(t, p, 0, i))
                       => t[i][2].hostIP = NodeIP
             /\ Clear(t, p, 0, Len(t) + 1) => v # Absent /\ v.hostIP = NodeIP
  <2>1. q[1][1] = p /\ q[1][2] # Deleted /\ q[1][2].hostIP = NodeIP
    BY <1>2, <1>3, <1>7, Zenon
  <2>2. Scheduled(q, p, 1)
    BY <2>1, <1>3 DEF Scheduled
  <2>3. ASSUME NEW i \in 1..Len(t), t[i][1] = p, t[i][2] # Deleted, Clear(t, p, 0, i)
        PROVE  t[i][2].hostIP = NodeIP
    <3>1. i + 1 \in 1..Len(q) /\ t[i] = q[i + 1] /\ 1 < i + 1
      BY <1>2
    <3>2. Clear(q, p, 1, i + 1)
      BY <1>1, <1>2, <2>3, <3>1, ClearTail
    <3>3. q[i + 1][1] = p /\ q[i + 1][2] # Deleted
      BY <2>3, <3>1, Zenon
    <3>4. q[i + 1][2].hostIP = q[1][2].hostIP
      BY <2>2, <3>1, <3>2, <3>3 DEF PodKeyInv, HostChain
    <3>5. QED
      BY <2>1, <3>1, <3>4, Zenon
  <2>4. ASSUME Clear(t, p, 0, Len(t) + 1) PROVE v # Absent /\ v.hostIP = NodeIP
    <3>1. Clear(q, p, 1, Len(q) + 1)
      BY <1>1, <1>2, <2>4, ClearTail
    <3>2. v # Absent /\ v.hostIP = q[1][2].hostIP
      BY <2>2, <3>1, <1>1 DEF PodKeyInv, HostLast
    <3>3. QED
      BY <2>1, <3>2, Zenon
  <2>5. QED
    BY <2>2, <2>3, <2>4
<1>8. p \in proxies' =>
        /\ p \in ProxyPods
        /\ \A i \in 1..Len(t) :
              (t[i][1] = p /\ t[i][2] # Deleted /\ Clear(t, p, 0, i))
                  => t[i][2].hostIP = NodeIP
        /\ Clear(t, p, 0, Len(t) + 1) => v # Absent /\ v.hostIP = NodeIP
  <2> SUFFICES ASSUME p \in proxies'
               PROVE  /\ p \in ProxyPods
                      /\ \A i \in 1..Len(t) :
                            (t[i][1] = p /\ t[i][2] # Deleted /\ Clear(t, p, 0, i))
                                => t[i][2].hostIP = NodeIP
                      /\ Clear(t, p, 0, Len(t) + 1) => v # Absent /\ v.hostIP = NodeIP
    OBVIOUS
  <2>1. CASE e[1] # p
    <3>1. p \in proxies /\ ~DelAt(q, p, 1)
      BY <1>2, <1>4, <2>1 DEF DelAt
    <3>2. CachedHost(q, p, v)
      BY DEF PodKeyInv
    <3>3. ASSUME NEW i \in 1..Len(t), t[i][1] = p, t[i][2] # Deleted, Clear(t, p, 0, i)
          PROVE  t[i][2].hostIP = NodeIP
      <4>1. i + 1 \in 1..Len(q) /\ t[i] = q[i + 1]
        BY <1>2
      <4>2. Clear(q, p, 0, i + 1)
        <5>1. Clear(q, p, 1, i + 1)
          BY <1>1, <1>2, <3>3, <4>1, ClearTail
        <5>2. QED
          BY <1>1, <3>1, <4>1, <5>1, ClearFront
      <4>3. q[i + 1][1] = p /\ q[i + 1][2] # Deleted
        BY <3>3, <4>1, Zenon
      <4>4. q[i + 1][2].hostIP = NodeIP
        BY <3>1, <3>2, <4>1, <4>2, <4>3 DEF CachedHost
      <4>5. QED
        BY <4>1, <4>4, Zenon
    <3>4. ASSUME Clear(t, p, 0, Len(t) + 1) PROVE v # Absent /\ v.hostIP = NodeIP
      <4>1. Clear(q, p, 1, Len(q) + 1)
        BY <1>1, <1>2, <3>4, ClearTail
      <4>2. Clear(q, p, 0, Len(q) + 1)
        BY <1>1, <3>1, <4>1, ClearFront
      <4>3. QED
        BY <3>1, <3>2, <4>2 DEF CachedHost
    <3>5. QED
      BY <3>1, <3>2, <3>3, <3>4 DEF CachedHost
  <2>2. CASE e[1] = p /\ e[2] = Deleted
    BY <1>4, <2>2
  <2>3. CASE e[1] = p /\ e[2] # Deleted /\ (p \notin ProxyPods \/ e[2].hostIP # HostIPString)
    BY <1>4, <1>6, <2>3
  <2>4. CASE e[1] = p /\ e[2] # Deleted /\ p \in ProxyPods /\ e[2].hostIP = HostIPString
    BY <1>7, <2>4
  <2>5. QED
    BY <2>1, <2>2, <2>3, <2>4
<1>9. ProxyTracks(p)'
  <2> SUFFICES ASSUME ~HasKey(t, p)
               PROVE  p \in proxies' <=> p \in EligibleProxies
    BY <1>1 DEF ProxyTracks, EligibleProxies
  <2>1. CASE e[1] # p
    <3>1. ~HasKey(q, p)
      BY <1>1, <2>1, NoKeyTail
    <3>2. QED
      BY <1>2, <1>4, <2>1, <3>1 DEF PodKeyInv, ProxyTracks
  <2>2. CASE e[1] = p
    <3>1. Matches(e[2], v)
      <4>1. LastFor(q, p, 1)
        BY <1>1, <1>2, <2>2, HeadIsLast
      <4>2. QED
        BY <1>1, <1>2, <4>1 DEF PodKeyInv, LastMatches
    <3>2. CASE e[2] = Deleted
      BY <1>4, <2>2, <3>1, <3>2 DEF Matches, EligibleProxies
    <3>3. CASE e[2] # Deleted /\ (p \notin ProxyPods \/ e[2].hostIP # HostIPString)
      <4>1. v = e[2]
        BY <3>1, <3>3 DEF Matches
      <4>2. p \notin EligibleProxies
        BY <1>3, <3>3, <4>1 DEF EligibleProxies
      <4>3. QED
        BY <1>4, <1>6, <2>2, <3>3, <4>2
    <3>4. CASE e[2] # Deleted /\ p \in ProxyPods /\ e[2].hostIP = HostIPString
      <4>1. v = e[2]
        BY <3>1, <3>4 DEF Matches
      <4>2. p \in EligibleProxies <=> IsPodReady(e[2])
        BY <1>2, <1>3, <3>4, <4>1, MarkerAssumption DEF EligibleProxies, PodNote
      <4>3. QED
        BY <1>4, <2>2, <3>4, <4>2
    <3>5. QED
      BY <3>2, <3>3, <3>4
  <2>3. QED
    BY <2>1, <2>2
<1>10. QED
  BY <1>1, <1>5, <1>8, <1>9, Zenon
     DEF PodKeyInv, LastMatches, HostChain, HostLast, CachedHost

-----------------------------------------------------------------------------
(* Steps that do not touch a cache, its informer or its cluster objects.   *)

\* The reconciler goroutine reads the caches and never changes them, nor
\* the cluster.
LEMMA ReconcilerFrame == Reconciler => UNCHANGED <<clusterVars, cacheVars>>
<1> SUFFICES ASSUME Reconciler PROVE UNCHANGED <<clusterVars, cacheVars>>
  OBVIOUS
<1>1. CASE StartRun
  BY <1>1 DEF StartRun
<1>2. CASE \E r \in Routes : NextRoute(r)
  BY <1>2 DEF NextRoute
<1>8. CASE CacheGet
  BY <1>8 DEF CacheGet
<1>9. CASE RouteDelete
  BY <1>9 DEF RouteDelete
<1>3. CASE BeginConverge
  BY <1>3 DEF BeginConverge
<1>4. CASE \E q \in Pods : NextProxy(q)
  BY <1>4 DEF NextProxy
<1>5. CASE \E r \in Svcs : ConvergeService(r)
  BY <1>5 DEF ConvergeService
<1>6. CASE FinishRun
  BY <1>6 DEF FinishRun
<1>7. QED
  BY <1>1, <1>2, <1>3, <1>4, <1>5, <1>6, <1>8, <1>9 DEF Reconciler

\* Every step other than a pod change, a pod delete or the pod handler
\* leaves the pods, their informer and the proxies cache alone.
LEMMA PodFrame ==
    ASSUME [Next]_vars, ~HandlePod,
           ~\E k \in Pods : \E o \in PodObjects : PodChange(k, o),
           ~\E k \in Pods : PodRemove(k)
    PROVE  UNCHANGED <<pod, podQ, proxies>>
<1>1. CASE Cluster
  BY <1>1 DEF Cluster, ServiceChange, ServiceRemove, EndpointsChange,
     EndpointsRemove, Stop, cacheVars, clusterVars
<1>2. CASE Handlers
  BY <1>2 DEF Handlers, HandleService, HandleEndpoints, Dirty, clusterVars
<1>3. CASE Reconciler
  BY <1>3, ReconcilerFrame DEF clusterVars, cacheVars
<1>4. CASE UNCHANGED vars
  BY <1>4 DEF vars, clusterVars, cacheVars
<1>5. QED
  BY <1>1, <1>2, <1>3, <1>4 DEF Next

\* Every step other than an endpoints change, an endpoints delete or the
\* endpoints handler leaves them, their informer and their cache alone.
LEMMA EndpointsFrame ==
    ASSUME [Next]_vars, ~HandleEndpoints,
           ~\E k \in Svcs : \E o \in EndpointsObjects : EndpointsChange(k, o),
           ~\E k \in Svcs : EndpointsRemove(k)
    PROVE  UNCHANGED <<endpointsObj, endpointsQ, endpoints>>
<1>1. CASE Cluster
  BY <1>1 DEF Cluster, PodChange, PodRemove, ServiceChange, ServiceRemove,
     Stop, cacheVars, clusterVars
<1>2. CASE Handlers
  BY <1>2 DEF Handlers, HandlePod, HandleService, Dirty, clusterVars
<1>3. CASE Reconciler
  BY <1>3, ReconcilerFrame DEF clusterVars, cacheVars
<1>4. CASE UNCHANGED vars
  BY <1>4 DEF vars, clusterVars, cacheVars
<1>5. QED
  BY <1>1, <1>2, <1>3, <1>4 DEF Next

-----------------------------------------------------------------------------
(* The pod invariant is inductive.                                         *)

LEMMA PodQueueInit == Init => PodQueueInv
<1> SUFFICES ASSUME Init, NEW p \in Pods PROVE PodKeyInv(p)
  BY DEF PodQueueInv
<1>1. podQ = << >> /\ proxies = {} /\ pod[p] = Absent
  BY DEF Init
<1>2. p \notin EligibleProxies
  BY <1>1, ProxyPodsAssumption DEF EligibleProxies
<1>3. QED
  BY <1>1, <1>2 DEF PodKeyInv, LastMatches, HostChain, HostLast, CachedHost,
     ProxyTracks

\* Every step keeps the pod invariant of every key.
LEMMA PodQueueStep ==
    ASSUME NodeIsIPv4, PodType, PodQueueInv, [Next]_vars
    PROVE  PodQueueInv'
<1> SUFFICES ASSUME NEW p \in Pods PROVE PodKeyInv(p)'
  BY DEF PodQueueInv
<1>0. PodKeyInv(p)
  BY DEF PodQueueInv
<1>1. CASE \E k \in Pods : \E o \in PodObjects : PodChange(k, o)
  <2> PICK k \in Pods, o \in PodObjects : PodChange(k, o)
    BY <1>1
  <2>1. o # Deleted /\ After(o) = o
    BY MarkerAssumption DEF After
  <2>2. pod[k] # Absent => pod[k].hostIP \in {"", o.hostIP}
    BY DEF PodChange
  <2>3. KeepsHost(<<k, o>>, p, pod[p])
    BY <2>2, Zenon DEF KeepsHost
  <2>4. podQ' = Append(podQ, <<k, o>>) /\ pod' = [pod EXCEPT ![k] = After(o)]
        /\ proxies' = proxies
    BY <2>1 DEF PodChange, cacheVars
  <2>5. QED
    BY <1>0, <2>3, <2>4, PodAppendKeeps
<1>2. CASE \E k \in Pods : PodRemove(k)
  <2> PICK k \in Pods : PodRemove(k)
    BY <1>2
  <2>1. KeepsHost(<<k, Deleted>>, p, pod[p])
    BY DEF KeepsHost
  <2>2. podQ' = Append(podQ, <<k, Deleted>>) /\ pod' = [pod EXCEPT ![k] = After(Deleted)]
        /\ proxies' = proxies
    BY DEF PodRemove, After, cacheVars
  <2>3. QED
    BY <1>0, <2>1, <2>2, PodAppendKeeps
<1>3. CASE HandlePod
  BY <1>0, <1>3, HandlePodKeeps
<1>4. CASE /\ ~HandlePod
           /\ ~\E k \in Pods : \E o \in PodObjects : PodChange(k, o)
           /\ ~\E k \in Pods : PodRemove(k)
  <2>1. UNCHANGED <<pod, podQ, proxies>>
    BY <1>4, PodFrame
  <2>2. LastMatches(podQ, p, pod[p])'
    BY <1>0, <2>1 DEF PodKeyInv, LastMatches, LastFor, Matches
  <2>3. HostChain(podQ, p)'
    BY <1>0, <2>1 DEF PodKeyInv, HostChain, Scheduled, Clear, DelAt
  <2>4. HostLast(podQ, p, pod[p])'
    BY <1>0, <2>1 DEF PodKeyInv, HostLast, Scheduled, Clear, DelAt
  <2>5. CachedHost(podQ, p, pod[p])'
    BY <1>0, <2>1 DEF PodKeyInv, CachedHost, Clear, DelAt
  <2>6. ProxyTracks(p)'
    BY <1>0, <2>1 DEF PodKeyInv, ProxyTracks, HasKey, EligibleProxies
  <2>7. QED
    BY <2>2, <2>3, <2>4, <2>5, <2>6 DEF PodKeyInv
<1>5. QED
  BY <1>1, <1>2, <1>3, <1>4

-----------------------------------------------------------------------------
(* The endpoints informer and the endpoints cache.                         *)

\* With no notification of s queued, the cache agrees with the filter.
EndpointsTracks(s) ==
    ~HasKey(endpointsQ, s) => (s \in endpoints <=> s \in EligibleEndpoints)

EndpointsKeyInv(s) ==
    LastMatches(endpointsQ, s, endpointsObj[s]) /\ EndpointsTracks(s)

EndpointsQueueInv == \A s \in Svcs : EndpointsKeyInv(s)

\* The part of the type invariant the endpoints argument uses.
EndpointsType ==
    endpointsObj \in [Svcs -> EndpointsObjects \cup {Absent}] /\ endpointsQ \in Seq(EndpointsNote)

\* What HandleEndpoints does to the cache: endpointsDelete removes the key,
\* endpointsAdd keeps it exactly when some subset has an address, other
\* keys are untouched.
LEMMA EndpointsHandlerEffect ==
    ASSUME HandleEndpoints
    PROVE  LET e == Head(endpointsQ) IN
           /\ \A s \in Svcs \ {e[1]} : s \in endpoints' <=> s \in endpoints
           /\ e[2] = Deleted => e[1] \notin endpoints'
           /\ e[2] # Deleted => (e[1] \in endpoints' <=> EndpointsReady(e[2]))
<1> DEFINE e == Head(endpointsQ)
<1>1. CASE e[2] = Deleted
  <2>1. endpoints' = endpoints \ {e[1]}
    BY <1>1 DEF HandleEndpoints, endpointsDelete
  <2>2. QED
    BY <1>1, <2>1
<1>2. CASE e[2] # Deleted /\ EndpointsReady(e[2])
  <2>1. endpoints' = endpoints \cup {e[1]}
    BY <1>2, Zenon DEF HandleEndpoints, endpointsAdd
  <2>2. QED
    BY <1>2, <2>1
<1>3. CASE e[2] # Deleted /\ ~EndpointsReady(e[2])
  <2>1. endpoints' = endpoints \ {e[1]}
    BY <1>3, Zenon DEF HandleEndpoints, endpointsAdd
  <2>2. QED
    BY <1>3, <2>1
<1>4. QED
  BY <1>1, <1>2, <1>3

\* The cluster queues a notification <<k, x>> for an endpoints object and
\* stores it: every key keeps its invariant.
LEMMA EndpointsAppendKeeps ==
    ASSUME EndpointsType, NEW s \in Svcs, EndpointsKeyInv(s),
           NEW k \in Svcs, NEW x \in EndpointsObjects \cup {Deleted},
           endpointsQ' = Append(endpointsQ, <<k, x>>),
           endpointsObj' = [endpointsObj EXCEPT ![k] = After(x)],
           endpoints' = endpoints
    PROVE  EndpointsKeyInv(s)'
<1>1. endpointsQ \in Seq(EndpointsNote) /\ <<k, x>> \in EndpointsNote
  BY DEF EndpointsType, EndpointsNote
<1>2. LastMatches(endpointsQ', s, endpointsObj'[s])
  <2>1. k = s => Matches(x, endpointsObj'[s])
    BY DEF EndpointsType, Matches, After
  <2>2. k # s => endpointsObj'[s] = endpointsObj[s]
    BY DEF EndpointsType
  <2>3. QED
    BY <1>1, <2>1, <2>2, LastMatchesAppend DEF EndpointsKeyInv
<1>3. EndpointsTracks(s)'
  <2> SUFFICES ASSUME ~HasKey(endpointsQ', s)
               PROVE  s \in endpoints' <=> s \in EligibleEndpoints'
    BY DEF EndpointsTracks
  <2>1. ~HasKey(endpointsQ, s) /\ k # s
    BY <1>1, NoKeyAppend
  <2>2. endpointsObj'[s] = endpointsObj[s]
    BY <2>1 DEF EndpointsType
  <2>3. QED
    BY <2>1, <2>2 DEF EndpointsKeyInv, EndpointsTracks, EligibleEndpoints
<1>4. QED
  BY <1>2, <1>3, Zenon DEF EndpointsKeyInv, LastMatches

\* The endpoints handler applies the head notification: every key keeps
\* its invariant.
LEMMA HandleEndpointsKeeps ==
    ASSUME EndpointsType, NEW s \in Svcs, EndpointsKeyInv(s), HandleEndpoints
    PROVE  EndpointsKeyInv(s)'
<1> DEFINE q == endpointsQ  e == Head(endpointsQ)  t == Tail(endpointsQ)
<1>1. q \in Seq(EndpointsNote) /\ q # << >> /\ endpointsQ' = t
      /\ endpointsObj' = endpointsObj
  BY DEF EndpointsType, HandleEndpoints
<1>2. e = q[1] /\ e \in EndpointsNote
  BY <1>1, TailType
<1>3. /\ \A r \in Svcs \ {e[1]} : r \in endpoints' <=> r \in endpoints
      /\ e[2] = Deleted => e[1] \notin endpoints'
      /\ e[2] # Deleted => (e[1] \in endpoints' <=> EndpointsReady(e[2]))
  BY EndpointsHandlerEffect
<1>4. LastMatches(t, s, endpointsObj[s])
  BY <1>1, LastMatchesTail DEF EndpointsKeyInv
<1>5. ~HasKey(t, s) => (s \in endpoints' <=> s \in EligibleEndpoints)
  <2> SUFFICES ASSUME ~HasKey(t, s)
               PROVE  s \in endpoints' <=> s \in EligibleEndpoints
    OBVIOUS
  <2>1. CASE e[1] # s
    <3>1. ~HasKey(q, s)
      BY <1>1, <2>1, NoKeyTail
    <3>2. QED
      BY <1>2, <1>3, <2>1, <3>1 DEF EndpointsKeyInv, EndpointsTracks
  <2>2. CASE e[1] = s
    <3>1. Matches(e[2], endpointsObj[s])
      <4>1. LastFor(q, s, 1)
        BY <1>1, <2>2, HeadIsLast
      <4>2. QED
        BY <1>1, <1>2, <4>1 DEF EndpointsKeyInv, LastMatches
    <3>2. CASE e[2] = Deleted
      BY <1>3, <2>2, <3>1, <3>2 DEF Matches, EligibleEndpoints
    <3>3. CASE e[2] # Deleted
      BY <1>2, <1>3, <2>2, <3>1, <3>3, MarkerAssumption
         DEF Matches, EligibleEndpoints, EndpointsNote
    <3>4. QED
      BY <3>2, <3>3
  <2>3. QED
    BY <2>1, <2>2
<1>6. QED
  BY <1>1, <1>4, <1>5, Zenon
     DEF EndpointsKeyInv, EndpointsTracks, LastMatches, EligibleEndpoints

LEMMA EndpointsQueueInit == Init => EndpointsQueueInv
<1> SUFFICES ASSUME Init, NEW s \in Svcs PROVE EndpointsKeyInv(s)
  BY DEF EndpointsQueueInv
<1>1. endpointsQ = << >> /\ endpoints = {} /\ endpointsObj[s] = Absent
  BY DEF Init
<1>2. QED
  BY <1>1 DEF EndpointsKeyInv, LastMatches, EndpointsTracks, EligibleEndpoints

\* Every step keeps the endpoints invariant of every key.
LEMMA EndpointsQueueStep ==
    ASSUME EndpointsType, EndpointsQueueInv, [Next]_vars
    PROVE  EndpointsQueueInv'
<1> SUFFICES ASSUME NEW s \in Svcs PROVE EndpointsKeyInv(s)'
  BY DEF EndpointsQueueInv
<1>0. EndpointsKeyInv(s)
  BY DEF EndpointsQueueInv
<1>1. CASE \E k \in Svcs : \E o \in EndpointsObjects : EndpointsChange(k, o)
  <2> PICK k \in Svcs, o \in EndpointsObjects : EndpointsChange(k, o)
    BY <1>1
  <2>1. After(o) = o
    BY MarkerAssumption DEF After
  <2>2. endpointsQ' = Append(endpointsQ, <<k, o>>)
        /\ endpointsObj' = [endpointsObj EXCEPT ![k] = After(o)]
        /\ endpoints' = endpoints
    BY <2>1 DEF EndpointsChange, cacheVars
  <2>3. QED
    BY <1>0, <2>2, EndpointsAppendKeeps
<1>2. CASE \E k \in Svcs : EndpointsRemove(k)
  <2> PICK k \in Svcs : EndpointsRemove(k)
    BY <1>2
  <2>1. endpointsQ' = Append(endpointsQ, <<k, Deleted>>)
        /\ endpointsObj' = [endpointsObj EXCEPT ![k] = After(Deleted)]
        /\ endpoints' = endpoints
    BY DEF EndpointsRemove, After, cacheVars
  <2>2. QED
    BY <1>0, <2>1, EndpointsAppendKeeps
<1>3. CASE HandleEndpoints
  BY <1>0, <1>3, HandleEndpointsKeeps
<1>4. CASE /\ ~HandleEndpoints
           /\ ~\E k \in Svcs : \E o \in EndpointsObjects : EndpointsChange(k, o)
           /\ ~\E k \in Svcs : EndpointsRemove(k)
  <2>1. UNCHANGED <<endpointsObj, endpointsQ, endpoints>>
    BY <1>4, EndpointsFrame
  <2>2. QED
    BY <1>0, <2>1 DEF EndpointsKeyInv, LastMatches, LastFor, Matches,
       EndpointsTracks, HasKey, EligibleEndpoints
<1>5. QED
  BY <1>1, <1>2, <1>3, <1>4

-----------------------------------------------------------------------------
(* The theorem.                                                            *)

\* The inductive invariant: the types, and both per-key queue invariants.
CacheInv == TypeInv /\ PodQueueInv /\ EndpointsQueueInv

\* TypeOK gives the types the two per-kind arguments use.
LEMMA TypeKindTypes == TypeOK => PodType /\ EndpointsType
BY DEF TypeOK, PodType, PodNote, EndpointsType, EndpointsNote

LEMMA CacheInvStep ==
    ASSUME NodeIsIPv4 PROVE CacheInv /\ [Next]_vars => CacheInv'
<1> SUFFICES ASSUME CacheInv, [Next]_vars PROVE CacheInv'
  OBVIOUS
<1>1. PodType /\ EndpointsType
  BY TypeKindTypes DEF CacheInv, TypeInv
<1>2. TypeInv'
  BY NextTypeInv DEF CacheInv
<1>3. PodQueueInv'
  BY <1>1, PodQueueStep DEF CacheInv
<1>4. EndpointsQueueInv'
  BY <1>1, EndpointsQueueStep DEF CacheInv
<1>5. QED
  BY <1>2, <1>3, <1>4 DEF CacheInv

\* With nothing queued, every key tracks its filter, and both sides of the
\* equations are sets of keys.
LEMMA ProxiesDrained ==
    ASSUME proxies \subseteq Pods, PodQueueInv, podQ = << >>
    PROVE  proxies = EligibleProxies
<1>1. \A p \in Pods : ~HasKey(podQ, p)
  BY DEF HasKey
<1>2. \A p \in Pods : p \in proxies <=> p \in EligibleProxies
  BY <1>1 DEF PodQueueInv, PodKeyInv, ProxyTracks
<1>3. QED
  BY <1>2, ProxyPodsAssumption DEF EligibleProxies

LEMMA EndpointsDrained ==
    ASSUME endpoints \subseteq Svcs, EndpointsQueueInv, endpointsQ = << >>
    PROVE  endpoints = EligibleEndpoints
<1>1. \A s \in Svcs : ~HasKey(endpointsQ, s)
  BY DEF HasKey
<1>2. \A s \in Svcs : s \in endpoints <=> s \in EligibleEndpoints
  BY <1>1 DEF EndpointsQueueInv, EndpointsKeyInv, EndpointsTracks
<1>3. QED
  BY <1>2 DEF EligibleEndpoints

LEMMA CacheInvTracks == CacheInv => CachesTrackCluster
<1> SUFFICES ASSUME CacheInv PROVE CachesTrackCluster
  OBVIOUS
<1>1. proxies \subseteq Pods /\ endpoints \subseteq Svcs
  BY DEF CacheInv, TypeInv, TypeOK
<1>2. PodQueueInv /\ EndpointsQueueInv
  BY DEF CacheInv
<1>3. QED
  BY <1>1, <1>2, ProxiesDrained, EndpointsDrained DEF CachesTrackCluster

\* On a node whose host IP is IPv4, the pod and endpoints handlers keep
\* their caches equal to the readiness filters of the cluster's objects
\* whenever their informer is drained, for every number of pods, services
\* and events (the run "safety" checks it on a small instance).
THEOREM CachesTracked ==
    ASSUME NodeIsIPv4 PROVE Spec => []CachesTrackCluster
<1>1. Init => CacheInv
  BY InitTypeInv, PodQueueInit, EndpointsQueueInit DEF CacheInv
<1>2. CacheInv /\ [Next]_vars => CacheInv'
  BY CacheInvStep
<1>3. CacheInv => CachesTrackCluster
  BY CacheInvTracks
<1>4. QED
  BY <1>1, <1>2, <1>3, PTL DEF Spec

=============================================================================
