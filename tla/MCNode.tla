------------------------------- MODULE MCNode -------------------------------
(***************************************************************************)
(* A small instance of Node for TLC.                                       *)
(***************************************************************************)
EXTENDS Node

CONSTANTS p1, custom, unknown, n1, n2, other

\* Explored: runs in which clients and gateway have events that are new to the
\* database; it refuses the others, which then change nothing.
NewEvents == (ingest' \ ingest) \cap db \cap LocalNote = {}

=============================================================================
