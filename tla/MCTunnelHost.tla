---------------------------- MODULE MCTunnelHost ----------------------------
(* Model-checking instance of TunnelHost: one more stream than a token has  *)
(* uses, two peers and two ports so that each check can fail on its own.    *)
EXTENDS TunnelHost
=============================================================================
