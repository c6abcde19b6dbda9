----------------------- MODULE MC_ExternalServices -----------------------
(* Small instances of ExternalServices for TLC: two pods, two services     *)
(* with their endpoints, one external IP.  Each .cfg chooses which pods    *)
(* are named like kube-proxies, the node's address family and the bounds.  *)
EXTENDS ExternalServices, TLC

CONSTANTS p1, p2, s1, s2

MC_ExternalIPs == {"ip1"}

\* Two addresses, so that a service can change its external IPs without
\* ever having none.
MC_TwoExternalIPs == {"ip1", "ip2"}

\* Services are interchangeable in every safety property (the pods are not:
\* p2 is not named like a kube-proxy in the safety run).
MC_Symmetry == Permutations({s1, s2})
=============================================================================
