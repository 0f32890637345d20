--------------------------- MODULE MCFragmentCache ---------------------------
(***************************************************************************)
(* Small instances of FragmentCache for TLC.  A unit of time is a minute.  *)
(***************************************************************************)
EXTENDS FragmentCache

CONSTANT a

\* One message of three chunks.
ThreeEach == [m \in Base |-> 3]

=============================================================================
