------------------------------ MODULE MCVnode ------------------------------
(* Few processes at the files of a directory, with few vnodes.  Vnodes, files *)
(* and names are interchangeable.                                             *)
EXTENDS Vnode

Symmetry == Permutations(Vnodes) \cup Permutations(Files) \cup Permutations(Names)
=============================================================================
