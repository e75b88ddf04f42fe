------------------------------- MODULE MCSocks5 -------------------------------
(***************************************************************************)
(* The lazy SOCKS5 proxy, for TLC.                                         *)
(***************************************************************************)
EXTENDS LazySocks5, TLC

(* The tasks of connections are alike: sound where only safety is checked. *)
ConnectionsAlike == Permutations(Connections)
=============================================================================
