----------------------------- MODULE RouteSync -----------------------------
(***************************************************************************)
(* What the external-IP controller promises about the route store, with   *)
(* the informers, the caches' contents and the reconcile loop hidden.      *)
(*                                                                         *)
(*  - wanted: the routes the controller's observed state calls for (the    *)
(*    (service, proxy) pairs of cached proxies, services and endpoints).   *)
(*  - announced: the routes in the store.                                  *)
(*  - owed: a reconcile is owed or in flight.                              *)
(*  - rerun: a further reconcile is due, because the observed state        *)
(*    changed or a run failed after the current one began.                 *)
(*                                                                         *)
(* The observed state may change at any time, but only by making a         *)
(* reconcile owed and a rerun due.  While one is owed the store is edited  *)
(* one route at a time.  As long as no rerun is due, every edit moves the  *)
(* store toward the wanted routes; once one is due, the store may move     *)
(* away from them (a run works from lookups that are out of date), and     *)
(* only the start of another run can clear it.  The debt is discharged     *)
(* only when no rerun is due and the store holds exactly the wanted        *)
(* routes.                                                                 *)
(***************************************************************************)
CONSTANT Pairs     \* every possible route

VARIABLES announced, wanted, owed, rerun

vars == <<announced, wanted, owed, rerun>>

Init == announced = {} /\ wanted = {} /\ owed = FALSE /\ rerun = FALSE

\* The observed state changes; the wanted routes may change with it.
Observe ==
    /\ \E w \in SUBSET Pairs : wanted' = w
    /\ owed' = TRUE /\ rerun' = TRUE
    /\ UNCHANGED announced

\* A run fails part-way and asks for another.
Retry ==
    /\ owed
    /\ rerun' = TRUE
    /\ UNCHANGED <<announced, wanted, owed>>

\* A run begins; whether a further one is due depends on what happened
\* since the last observation was taken up.
Begin ==
    /\ owed /\ rerun
    /\ rerun' \in BOOLEAN
    /\ UNCHANGED <<announced, wanted, owed>>

\* A route is withdrawn: one that is not wanted, or any while a rerun is due.
Withdraw ==
    /\ owed
    /\ \E r \in announced : /\ r \notin wanted \/ rerun
                            /\ announced' = announced \ {r}
    /\ UNCHANGED <<wanted, owed, rerun>>

\* A route is announced: one that is wanted, or any while a rerun is due.
Announce ==
    /\ owed
    /\ \E r \in Pairs : /\ r \in wanted \/ rerun
                        /\ announced' = announced \cup {r}
    /\ UNCHANGED <<wanted, owed, rerun>>

\* The owed reconcile is done: no rerun is due and the store holds the
\* wanted routes.
Settle ==
    /\ owed /\ ~rerun /\ announced = wanted
    /\ owed' = FALSE
    /\ UNCHANGED <<announced, wanted, rerun>>

Next == Observe \/ Retry \/ Begin \/ Withdraw \/ Announce \/ Settle

Spec == Init /\ [][Next]_vars

\* Whenever no reconcile is owed, the store holds exactly the wanted routes.
SettledExact == ~owed => announced = wanted

=============================================================================
