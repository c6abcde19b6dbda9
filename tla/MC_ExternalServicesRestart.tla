------------------- MODULE MC_ExternalServicesRestart -------------------
(* Small instances of ExternalServicesRestart for TLC: two pods, one of    *)
(* them named like a kube-proxy, one service with its endpoints.           *)
EXTENDS ExternalServicesRestart

CONSTANTS p1, p2, s1

MC_ExternalIPs == {"ip1"}
=============================================================================
