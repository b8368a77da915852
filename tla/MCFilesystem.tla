---------------------------- MODULE MCFilesystem ----------------------------
(***************************************************************************)
(* Filesystem for TLC.  The processes are interchangeable, and so are the  *)
(* objects they make.                                                      *)
(***************************************************************************)
EXTENDS Filesystem, TLC

Symmetry == Permutations(Procs) \union Permutations(Objects)
=============================================================================
