----------------------------- MODULE ApplyGraph -----------------------------
(***************************************************************************)
(* The apply graph of internal/tofu, as far as it orders changes of        *)
(* managed resources: which nodes the planned changes lead to              *)
(* (DiffTransformer), and the edges between them (ReferenceTransformer,    *)
(* DestroyEdgeTransformer, CBDEdgeTransformer).  An edge <<n, m>> means    *)
(* that n depends on m.                                                    *)
(*                                                                         *)
(* Every resource has one instance and all belong to one provider.  A      *)
(* configuration c is a record of the resources that are present, the      *)
(* resources each one references, and those with create_before_destroy.    *)
(* A state s has the current object of each resource, or NoObject, and     *)
(* its deposed objects.                                                    *)
(***************************************************************************)
EXTENDS Naturals

CONSTANTS
    Res,        \* the resources
    NoObject    \* a resource instance without a current object

Config == [present : SUBSET Res, refs : [Res -> SUBSET Res], cbd : SUBSET Res]

\* states.ResourceInstanceObject: id stands for the identity of the real
\* object, deps is Dependencies and cbd is CreateBeforeDestroy.
Object == [id : Nat \ {0}, tainted : BOOLEAN, deps : SUBSET Res, cbd : BOOLEAN]
State  == [current : [Res -> {NoObject} \union Object], deposed : [Res -> SUBSET Object]]

\* plans.Action, with "None" for a resource that is neither configured nor in
\* the state.
Actions == {"None", "NoOp", "Create", "Update", "DeleteThenCreate", "CreateThenDelete", "Delete"}
IsReplace(a) == a \in {"DeleteThenCreate", "CreateThenDelete"}

-----------------------------------------------------------------------------
\* AttachDependenciesTransformer: the resources that r depends on, directly or
\* through others.
Dependencies(c, r) ==
    {d \in Res : \A S \in SUBSET Res :
        (c.refs[r] \subseteq S /\ \A x \in S : c.refs[x] \subseteq S) => d \in S}

\* ForcedCBDTransformer on the nodes of `among`: a node is upgraded to
\* create_before_destroy if one that depends on it has it.
ForcedCBD(c, cbd, among, r) ==
    r \in cbd \/ \E x \in among \intersect cbd : r \in Dependencies(c, x)

\* In the plan graph every configured resource has a node.
PlanCBD(c, r) == ForcedCBD(c, c.cbd, c.present, r)

-----------------------------------------------------------------------------
(***************************************************************************)
(* The nodes.                                                              *)
(***************************************************************************)

\* The id is that of a deposed object, which stands for its key: the object the
\* node destroys, or the one that a creator is going to depose; 0 for none.
Creator(r, id) == [kind |-> "create", res |-> r, id |-> id]
Destroyer(r)   == [kind |-> "destroy", res |-> r, id |-> 0]
Deposed(r, id) == [kind |-> "deposed", res |-> r, id |-> id]

Creating(chg) == {r \in Res : chg[r] \in {"Create", "Update"} \/ IsReplace(chg[r])}

\* Fault: an object deposed in an earlier run is passed over.
DiffNodesOwnDeposed(chg, s) ==
    {Creator(r, IF chg[r] = "CreateThenDelete" THEN s.current[r].id ELSE 0) : r \in Creating(chg)}
    \union {Destroyer(r) : r \in {x \in Res : chg[x] \in {"Delete", "DeleteThenCreate"}}}
    \union {Deposed(r, s.current[r].id) : r \in {x \in Res : chg[x] = "CreateThenDelete"}}

\* DiffTransformer: the destroy node of a CreateThenDelete is that of the
\* object the creator will depose.
DiffNodes(chg, s) ==
    {Creator(r, IF chg[r] = "CreateThenDelete" THEN s.current[r].id ELSE 0) : r \in Creating(chg)}
    \union {Destroyer(r) : r \in {x \in Res : chg[x] \in {"Delete", "DeleteThenCreate"}}}
    \union {Deposed(r, s.current[r].id) : r \in {x \in Res : chg[x] = "CreateThenDelete"}}
    \union UNION {{Deposed(r, o.id) : o \in s.deposed[r]} : r \in Res}

\* NodeApplyableResourceInstance.CreateBeforeDestroy as DiffTransformer leaves
\* it, and after ForcedCBDTransformer: in the apply graph only the resources
\* that change have a node.
DiffCBD(c, chg)     == {r \in Creating(chg) : chg[r] = "CreateThenDelete" \/ r \in c.cbd}
ApplyCBD(c, chg, r) == ForcedCBD(c, DiffCBD(c, chg), Creating(chg), r)

\* CreateBeforeDestroy of NodeDestroyResourceInstance and of
\* NodeDestroyDeposedResourceInstanceObject.
DestroyCBD(s, n) == n.kind = "deposed" \/ s.current[n.res].cbd

\* NodeAbstractResourceInstance.StateDependencies.
StateDependencies(c, s, n) ==
    IF s.current[n.res] # NoObject
    THEN s.current[n.res].deps
    ELSE IF n.kind = "create" THEN Dependencies(c, n.res) ELSE {}

-----------------------------------------------------------------------------
(***************************************************************************)
(* The edges.                                                              *)
(***************************************************************************)

\* ReferenceTransformer: a creator references the creators of all its dependencies,
\* through the nodes of resources that do not change.  References to destroyers are
\* left to DestroyEdgeTransformer.
ReferenceEdges(c, N) ==
    {e \in N \X N : /\ e[1].kind = "create" /\ e[2].kind = "create"
                    /\ e[2].res \in Dependencies(c, e[1].res)}

\* Fault: destroyers are not connected along the stored dependencies.
DestroyEdgesOfCreators(c, s, N) ==
    {e \in N \X N :
        LET n == e[1]  m == e[2]
        IN  /\ n.kind = "create" /\ m.kind # "create"
            /\ n.res = m.res \/ m.res \in StateDependencies(c, s, n)}

\* DestroyEdgeTransformer.Transform.
DestroyEdges(c, s, N) ==
    {e \in N \X N :
        LET n == e[1]  m == e[2]
        IN  /\ m.kind # "create"
            /\ \/ n.kind = "create" /\ n.res = m.res
               \/ n.kind = "create" /\ m.res \in StateDependencies(c, s, n)
               \/ n.res \in StateDependencies(c, s, m)}

\* Faults: only the edge from the creator of the same resource is inverted; the
\* edges are removed but not put back.
CBDEdgesOwn(s, E) ==
    LET inverted == {e \in E : e[1].kind = "create" /\ e[2].kind # "create" /\ DestroyCBD(s, e[2])
                               /\ e[1].res = e[2].res}
    IN  (E \ inverted) \union {<<e[2], e[1]>> : e \in inverted}

CBDEdgesRemoved(s, E) ==
    {e \in E : ~(e[1].kind = "create" /\ e[2].kind # "create" /\ DestroyCBD(s, e[2]))}

\* CBDEdgeTransformer: an edge from a creator to a destroyer that is
\* create_before_destroy is inverted.
CBDEdges(s, E) ==
    LET inverted == {e \in E : e[1].kind = "create" /\ e[2].kind # "create" /\ DestroyCBD(s, e[2])}
    IN  (E \ inverted) \union {<<e[2], e[1]>> : e \in inverted}

GraphEdges(c, s, chg) ==
    LET N == DiffNodes(chg, s)
    IN  CBDEdges(s, ReferenceEdges(c, N) \union DestroyEdges(c, s, N))

\* AcyclicGraph.Validate: no cycle.
Acyclic(N, E) ==
    \A S \in (SUBSET N) \ {{}} : \E n \in S : \A m \in S : <<n, m>> \notin E
=============================================================================
