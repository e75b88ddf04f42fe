------------------------- MODULE MCConnectionMonitor -------------------------
(***************************************************************************)
(* The connection monitor, for TLC.                                        *)
(***************************************************************************)
EXTENDS ConnectionMonitor
=============================================================================
