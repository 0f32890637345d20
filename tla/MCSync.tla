------------------------------- MODULE MCSync -------------------------------
(***************************************************************************)
(* Small instances of Sync for TLC.                                        *)
(***************************************************************************)
EXTENDS Sync

CONSTANTS n1, n2

=============================================================================
