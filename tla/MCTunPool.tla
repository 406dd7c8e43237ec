----------------------------- MODULE MCTunPool ------------------------------
(* Instances of TunPool for TLC.                                             *)
EXTENDS TunPool

CONSTANT w1
=============================================================================
