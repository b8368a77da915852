-------------------------- MODULE MCLocalOperation --------------------------
(***************************************************************************)
(* LocalOperation for TLC.  The configurations name the resource nodes,    *)
(* which are interchangeable, and one object of another process.           *)
(***************************************************************************)
EXTENDS LocalOperation, TLC

Symmetry == Permutations(Res)
=============================================================================
