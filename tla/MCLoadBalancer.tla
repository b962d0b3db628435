--------------------------- MODULE MCLoadBalancer ---------------------------
(* LoadBalancer with the values its configurations give to the constants.  *)
EXTENDS LoadBalancer, TLC
=============================================================================
