----------------------- MODULE MCLoadBalancingClient -----------------------
(***************************************************************************)
(* LoadBalancingClient for TLC.                                            *)
(***************************************************************************)
EXTENDS LoadBalancingClient

=============================================================================
