------------------------------ MODULE MCWalker ------------------------------
(***************************************************************************)
(* Instances of Walker for TLC.                                            *)
(***************************************************************************)
EXTENDS Walker

CONSTANTS v1, v2

Two == {v1, v2}

\* The acyclic graphs on a set of vertices: those with a topological order.
Acyclic(V, E) ==
    \A S \in (SUBSET V) \ {{}} : \E x \in S : \A y \in S : <<x, y>> \notin E

AcyclicOn(V) ==
    {[vertices |-> V, edges |-> E] : E \in {F \in SUBSET (V \X V) : Acyclic(V, F)}}

\* Graphs an updated walk moves between: both vertices with every acyclic set of edges,
\* and one of them alone.
UpToTwo  == UNION {AcyclicOn(V) : V \in {{v1}, Two}}
=============================================================================
