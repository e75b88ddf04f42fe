------------------------------ MODULE MCTunnel ------------------------------
(* The tunnel state machine on small instances, for TLC.                   *)
EXTENDS TunnelProperties, TLC

(* Nothing tells one point from another but equality.                      *)
PointSymmetry == Permutations(Points)

=============================================================================
