------------------------------ MODULE MCServer ------------------------------
(***************************************************************************)
(* Model values for module Server.                                         *)
(***************************************************************************)
EXTENDS Server

\* Connections are interchangeable.
Symmetry == Permutations(Clients)
=============================================================================
