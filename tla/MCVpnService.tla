----------------------------- MODULE MCVpnService -----------------------------
(***************************************************************************)
(* The VPN service over the abstract state machine, for TLC.               *)
(***************************************************************************)
EXTENDS VpnService
=============================================================================
