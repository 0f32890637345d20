------------------------------- MODULE MCMesh -------------------------------
(***************************************************************************)
(* A small instance of Mesh for TLC.  A unit of time is a minute.          *)
(***************************************************************************)
EXTENDS Mesh

CONSTANTS a, b, c, m1

\* One message of two chunks.
TwoEach == [m \in Base |-> 2]

\* It is a note.
AllNormal == [m \in Base |-> "Normal"]

NodeSymmetry == Permutations(Node)

\* Explored: runs in which one frame is on the air at a time, as on a radio
\* channel all nodes hear.  When and in which order its copies arrive, and what
\* happens meanwhile, is open.
OneOnAir == air' \ air # {} => air = {}

=============================================================================
