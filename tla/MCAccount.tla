------------------------------- MODULE MCAccount -------------------------------
(***************************************************************************)
(* The account controller, for TLC.                                        *)
(***************************************************************************)
EXTENDS AccountProperties

CONSTANTS a1, a2, d1   \* accounts

=============================================================================
