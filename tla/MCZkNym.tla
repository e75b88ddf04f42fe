-------------------------------- MODULE MCZkNym --------------------------------
(* The requests for zk-nyms on small instances, for TLC.                   *)
EXTENDS ZkNymRequests, TLC

(* Nothing tells one id, type or fetch from another but equality.          *)
Symmetry == Permutations(Ids) \cup Permutations(Types) \cup Permutations(Fetches)

=============================================================================
