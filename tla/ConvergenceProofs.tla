------------------------- MODULE ConvergenceProofs -------------------------
(***************************************************************************)
(* Proofs that one run of Apply without a failure repairs whatever the     *)
(* runs before it left, that an object is destroyed after what uses it has *)
(* been destroyed or updated, and of which plans the graph has a cycle,    *)
(* for any resources, configurations and bounds.                           *)
(***************************************************************************)
EXTENDS ApplyProofs, WellFoundedInduction

\* The change of every resource follows from the configuration, every change has its nodes,
\* a creator depends on the creators of its dependencies, and the destroyers of deposed
\* objects depend on the creator of their resource.
GraphOK == running =>
    /\ config \in Configs
    /\ \A r \in Res :
        /\ r \in config.present <=> change[r] \notin {"None", "Delete"}
        /\ change[r] = "NoOp" => \A d \in config.refs[r] : change[d] \in {"NoOp", "Update"}
        /\ r \in Creating(change) => \E n \in DOMAIN walk : n.kind = "create" /\ n.res = r
        /\ change[r] \in {"Delete", "DeleteThenCreate"} => Destroyer(r) \in DOMAIN walk
    /\ \A n, m \in DOMAIN walk : n.kind = "create" =>
        /\ m.kind = "create" /\ m.res \in Dependencies(config, n.res) => <<n, m>> \in edges
        /\ m.kind = "deposed" /\ m.res = n.res => <<m, n>> \in edges
    /\ ~Refused => Acyclic(DOMAIN walk, edges)

\* What a node depends on has succeeded before it starts.
WalkOrder ==
    \A n, m \in DOMAIN walk : walk[n] \in {"run", "ok", "fail"} /\ <<n, m>> \in edges => walk[m] = "ok"

\* The object that a destroyer waits for has been deposed, unless its creator has yet to
\* start, or has failed and put it back.
DeposedOK ==
    \A m \in DOMAIN walk : m.kind = "deposed" /\ Pending(m) =>
        \/ \E o \in state.deposed[m.res] : o.id = m.id
        \/ \E n \in DOMAIN walk : n.kind = "create" /\ n.res = m.res /\ walk[n] \in {"wait", "fail"}

\* What a creator will depose has a destroyer.
OldOK ==
    \A n \in DOMAIN walk : n.kind = "create" /\ change[n.res] = "CreateThenDelete" =>
        /\ Deposed(n.res, n.id) \in DOMAIN walk
        /\ walk[n] = "wait" => state.current[n.res].id = n.id

\* An identity has one place in a state.
Distinct(s) ==
    \A r, x \in Res :
        /\ \A o \in s.deposed[r], p \in s.deposed[x] : o.id = p.id => r = x /\ o = p
        /\ s.current[r] # NoObject => \A p \in s.deposed[x] : s.current[r].id # p.id
        /\ s.current[r] # NoObject /\ s.current[x] # NoObject /\ s.current[r].id = s.current[x].id
             => r = x

\* An object that a dead process created is in no state.
LostOK == lost \intersect (Tracked(state) \union Tracked(saved)) = {}

\* A resource needs no further step of the run.
Done(r) == \/ change[r] = "NoOp"
           \/ \E n \in DOMAIN walk : n.kind = "create" /\ n.res = r /\ walk[n] = "ok"

\* Its object is as the configuration wants it, and uses the current objects.
Good(r) ==
    LET o == state.current[r] IN
    /\ o # NoObject /\ ~o.tainted /\ o.deps = Dependencies(config, r)
    /\ world[o.id] = Uses(config, state, r)

\* As long as nothing fails, what is in the state exists, what is to go has a destroyer that
\* has not ended, and what is done is as it should be.
CleanOK == running /\ clean =>
    /\ \A n \in DOMAIN walk : walk[n] # "fail"
    /\ Tracked(state) \subseteq Existing
    /\ \A r \in Res :
        /\ \A o \in state.deposed[r] :
            Deposed(r, o.id) \in DOMAIN walk /\ walk[Deposed(r, o.id)] # "ok"
        /\ change[r] = "None" => state.current[r] = NoObject
        /\ change[r] = "Delete" /\ walk[Destroyer(r)] = "ok" => state.current[r] = NoObject
        /\ change[r] = "Update" => state.current[r] # NoObject /\ ~state.current[r].tainted
        /\ Done(r) => Good(r)

StateInv == Distinct(state) /\ Distinct(saved) /\ LostOK
OrderInv == GraphOK /\ WalkOrder /\ DeposedOK /\ OldOK
-----------------------------------------------------------------------------
(***************************************************************************)
(* The nodes keep the order of the walk.                                   *)
(***************************************************************************)

\* Nothing is refused in a run whose nodes move.
LEMMA NotRefused ==
  ASSUME TypeInv, NEW n \in DOMAIN walk, NodeStep(n)
  PROVE  ~Refused /\ ~Refused'
<1>1. ~Refused
  BY NodeFrame DEF TypeInv, RefusedOK, Refused
<1> QED
  BY <1>1, NodeFrame DEF Refused

\* The graph of a run stays.
LEMMA GraphNode ==
  ASSUME TypeInv, GraphOK, NEW n \in DOMAIN walk, NodeStep(n)
  PROVE  GraphOK'
<1>1. /\ running /\ running' /\ change' = change /\ edges' = edges /\ config' = config
      /\ DOMAIN walk' = DOMAIN walk
  BY NodeFrame
<1> QED
  BY <1>1, NotRefused DEF GraphOK, Creating

\* A node starts when all it depends on has succeeded, and success is final.
LEMMA WalkOrderNode ==
  ASSUME TypeInv, WalkOrder, NEW n \in DOMAIN walk, NodeStep(n)
  PROVE  WalkOrder'
<1> SUFFICES ASSUME NEW k \in DOMAIN walk, NEW m \in DOMAIN walk,
                    walk'[k] \in {"run", "ok", "fail"}, <<k, m>> \in edges
             PROVE  walk'[m] = "ok"
  BY NodeFrame DEF WalkOrder
<1>1. walk[m] = "ok"
  <2>1. CASE k = n
    BY <2>1, NodeFrame DEF WalkOrder
  <2>2. CASE k # n
    BY <2>2, NodeFrame DEF WalkOrder
  <2> QED
    BY <2>1, <2>2
<1>2. m # n
  BY <1>1, NodeFrame
<1> QED
  BY <1>1, <1>2, NodeFrame

\* The destroyer of a deposed object leaves the current one alone.
LEMMA CurrentKept ==
  ASSUME TypeInv, NEW n \in DOMAIN walk, NodeStep(n), n.kind = "deposed"
  PROVE  state'.current[n.res] = state.current[n.res]
<1>1. CASE Start(n)
  BY <1>1, StartState
<1>2. CASE Destroy(n)
  BY <1>2, DestroyState
<1>3. CASE DestroyFails(n)
  BY <1>3, DestroyFailsState
<1> QED
  BY <1>1, <1>2, <1>3 DEF NodeStep, EndEarly, Create, CreateNothing, Update, Creates, Updates

\* Nobody else touches what a creator is going to depose.
LEMMA OldNode ==
  ASSUME TypeInv, OldOK, NEW n \in DOMAIN walk, NodeStep(n)
  PROVE  OldOK'
<1> SUFFICES ASSUME NEW m \in DOMAIN walk, m.kind = "create", change[m.res] = "CreateThenDelete",
                    walk'[m] = "wait"
             PROVE  state'.current[m.res].id = m.id
  BY NodeFrame DEF OldOK
<1>1. m # n /\ walk[m] = "wait" /\ state.current[m.res].id = m.id
  BY NodeFrame DEF OldOK
<1>2. n \in Node /\ m \in Node
  BY DEF TypeInv, TypeOK
<1>3. CASE n.res # m.res
  BY <1>1, <1>2, <1>3, NodeStateFrame DEF Frame, Node
<1>4. CASE n.res = m.res
  <2>1. n.kind = "deposed"
    BY <1>1, <1>2, <1>4 DEF TypeInv, NodesOK, Node
  <2> QED
    BY <1>1, <1>4, <2>1, CurrentKept
<1> QED
  BY <1>3, <1>4

-----------------------------------------------------------------------------
(***************************************************************************)
(* An identity has one place.                                              *)
(***************************************************************************)

\* In such a state an identity belongs to one resource.
LEMMA AtOne ==
  ASSUME NEW s, Distinct(s), NEW r \in Res, NEW x \in Res, NEW i, At(s, r, i), At(s, x, i)
  PROVE  r = x
BY DEF Distinct, At

\* A node that gives the objects of its resource identities they had, or new ones, each to
\* one of them, keeps the identities apart.
LEMMA DistinctFrame ==
  ASSUME Distinct(state), NEW r \in Res, Frame(r),
         \A o, p \in state'.deposed[r] : o.id = p.id => o = p,
         state'.current[r] # NoObject => \A p \in state'.deposed[r] : state'.current[r].id # p.id,
         \A i : At(state', r, i) => At(state, r, i) \/ i \notin Tracked(state)
  PROVE  Distinct(state')
<1>1. \A x \in Res : \A i : x # r /\ At(state', x, i) => At(state, x, i) /\ i \in Tracked(state)
  BY TrackedIs DEF Frame, At
<1>2. \A x \in Res : \A i : x # r /\ At(state', x, i) => ~At(state', r, i)
  BY <1>1, AtOne
<1> SUFFICES ASSUME NEW y \in Res, NEW x \in Res
             PROVE  /\ \A o \in state'.deposed[y], p \in state'.deposed[x] : o.id = p.id => y = x /\ o = p
                    /\ state'.current[y] # NoObject =>
                         \A p \in state'.deposed[x] : state'.current[y].id # p.id
                    /\ state'.current[y] # NoObject /\ state'.current[x] # NoObject
                         /\ state'.current[y].id = state'.current[x].id => y = x
  BY DEF Distinct
<1>3. CASE x # r /\ y # r
  BY <1>3 DEF Distinct, Frame
<1>4. CASE x = r /\ y = r
  BY <1>4
<1>5. CASE x # r /\ y = r
  BY <1>2, <1>5 DEF At
<1>6. CASE x = r /\ y # r
  BY <1>2, <1>6 DEF At
<1> QED
  BY <1>3, <1>4, <1>5, <1>6

\* A destroyer of a deposed object runs when the object has been deposed: its creator, if
\* there is one, has succeeded.
LEMMA TargetDeposed ==
  ASSUME TypeInv, OrderInv, Distinct(state), running,
         NEW n \in DOMAIN walk, walk[n] = "run", n.kind = "deposed"
  PROVE  /\ Target(n) \in state.deposed[n.res] /\ Target(n).id = n.id
         /\ \A o \in state.deposed[n.res] : o.id = n.id => o = Target(n)
<1>1. n.res \in Res
  BY DEF TypeInv, TypeOK, Node
<1>2. \A m \in DOMAIN walk : m.kind = "create" /\ m.res = n.res => walk[m] = "ok"
  BY DEF OrderInv, GraphOK, WalkOrder
<1>3. PICK o \in state.deposed[n.res] : o.id = n.id
  BY <1>2 DEF OrderInv, DeposedOK, Pending
<1>4. /\ Target(n).id = n.id
      /\ Target(n) \in state.deposed[n.res] \/ Target(n) = state.current[n.res]
      /\ Target(n) # NoObject
  BY TargetIs
<1> QED
  BY <1>1, <1>3, <1>4 DEF Distinct

\* No node makes two objects of a resource share an identity.
LEMMA DistinctNode ==
  ASSUME TypeInv, OrderInv, Distinct(state), NEW n \in DOMAIN walk, NodeStep(n)
  PROVE  Distinct(state')
<1> DEFINE r == n.res
<1>1. r \in Res /\ Frame(r) /\ running
  BY NodeFrame, NodeStateFrame
<1>2. /\ \A o, p \in state.deposed[r] : o.id = p.id => o = p
      /\ state.current[r] # NoObject => \A p \in state.deposed[r] : state.current[r].id # p.id
  BY <1>1 DEF Distinct
<1>3. \A i : At(state, r, i) => i \in Tracked(state)
  BY <1>1, TrackedIs
<1>4. CASE Start(n)
  <2>1. CASE state' = state
    BY <1>1, <2>1
  <2>2. CASE /\ state.current[r] # NoObject /\ state'.current[r] = NoObject
             /\ state'.deposed[r] = state.deposed[r] \union {state.current[r]}
    <3>1. \A i : At(state', r, i) => At(state, r, i)
      BY <2>2 DEF At
    <3>2. \A o, p \in state'.deposed[r] : o.id = p.id => o = p
      BY <1>2, <2>2
    <3> QED
      BY <1>1, <2>2, <3>1, <3>2, DistinctFrame
  <2> QED
    BY <1>4, <2>1, <2>2, StartState
<1>5. CASE EndEarly(n)
  BY <1>5 DEF EndEarly
<1>6. CASE Create(n)
  <2>1. NewId \notin Tracked(state)
    BY NewIdType DEF TypeInv
  <2>2. /\ state'.current[r] # NoObject /\ state'.current[r].id = NewId
        /\ state'.deposed[r] = state.deposed[r]
    BY <1>6, CreateState
  <2>3. \A p \in state.deposed[r] : p.id # NewId
    BY <1>3, <2>1 DEF At
  <2>4. \A i : At(state', r, i) => At(state, r, i) \/ i \notin Tracked(state)
    BY <2>1, <2>2 DEF At
  <2> QED
    BY <1>1, <1>2, <2>2, <2>3, <2>4, DistinctFrame
<1>7. CASE CreateNothing(n)
  <2>1. CASE state' = state
    BY <2>1
  <2>2. CASE /\ state'.current[r] \in state.deposed[r] /\ state'.current[r].id = n.id
             /\ state'.deposed[r] = {o \in state.deposed[r] : o.id # n.id}
    <3>1. \A i : At(state', r, i) => At(state, r, i)
      BY <2>2 DEF At
    <3> QED
      BY <1>1, <1>2, <2>2, <3>1, DistinctFrame
  <2> QED
    BY <1>7, <2>1, <2>2, CreateNothingState
<1>8. CASE Update(n)
  <2>1. /\ state.current[r] # NoObject /\ state'.current[r] # NoObject
        /\ state'.current[r].id = state.current[r].id /\ state'.deposed[r] = state.deposed[r]
    BY <1>8, UpdateState
  <2>2. \A i : At(state', r, i) => At(state, r, i)
    BY <2>1 DEF At
  <2> QED
    BY <1>1, <1>2, <2>1, <2>2, DistinctFrame
<1>9. CASE Destroy(n)
  <2>1. /\ state'.current[r] = NoObject \/ state'.current[r] = state.current[r]
        /\ state'.deposed[r] \subseteq state.deposed[r]
    BY <1>9, DestroyState
  <2>2. \A i : At(state', r, i) => At(state, r, i)
    BY <2>1 DEF At
  <2> QED
    BY <1>1, <1>2, <2>1, <2>2, DistinctFrame
<1>10. CASE DestroyFails(n) /\ n.kind = "destroy"
  <2>1. /\ state.current[r] # NoObject /\ state'.current[r] # NoObject
        /\ state'.current[r].id = state.current[r].id /\ state'.deposed[r] = state.deposed[r]
    BY <1>10, DestroyFailsState
  <2>2. \A i : At(state', r, i) => At(state, r, i)
    BY <2>1 DEF At
  <2> QED
    BY <1>1, <1>2, <2>1, <2>2, DistinctFrame
<1>11. CASE DestroyFails(n) /\ n.kind # "destroy"
  <2>1. walk[n] = "run" /\ n.kind = "deposed"
    BY <1>11, DestroyFailsState DEF DestroyFails, Ends
  <2>2. /\ Target(n) \in state.deposed[r] /\ Target(n).id = n.id
    BY <1>1, <2>1, TargetDeposed
  <2>3. state'.current[r] = state.current[r]
    BY <1>11, DestroyFailsState
  <2>4. PICK v : v.id = Target(n).id /\ state'.deposed[r] = (state.deposed[r] \ {Target(n)}) \union {v}
    BY <1>11, DestroyFailsState
  <2>5. \A i : At(state', r, i) => At(state, r, i)
    BY <2>2, <2>3, <2>4 DEF At
  <2>6. \A o, p \in state'.deposed[r] : o.id = p.id => o = p
    BY <1>2, <2>2, <2>4
  <2>7. state'.current[r] # NoObject => \A p \in state'.deposed[r] : state'.current[r].id # p.id
    BY <1>2, <2>2, <2>3, <2>4
  <2> QED
    BY <1>1, <2>5, <2>6, <2>7, DistinctFrame
<1> QED
  BY <1>4, <1>5, <1>6, <1>7, <1>8, <1>9, <1>10, <1>11 DEF NodeStep

\* What waits to be destroyed stays in the state, or comes back to it as the current object.
LEMMA DeposedNode ==
  ASSUME TypeInv, DeposedOK, NEW n \in DOMAIN walk, NodeStep(n)
  PROVE  DeposedOK'
<1> DEFINE Kept(s, m) == \E o \in s.deposed[m.res] : o.id = m.id
<1>1. /\ DOMAIN walk' = DOMAIN walk /\ \A m \in DOMAIN walk : m # n => walk'[m] = walk[m]
      /\ n.res \in Res /\ Frame(n.res)
  BY NodeFrame, NodeStateFrame
<1> SUFFICES ASSUME NEW m \in DOMAIN walk, m.kind = "deposed", walk'[m] \in {"wait", "run"}
             PROVE  \/ Kept(state', m)
                    \/ \E k \in DOMAIN walk : /\ k.kind = "create" /\ k.res = m.res
                                              /\ walk'[k] \in {"wait", "fail"}
  BY <1>1 DEF DeposedOK, Pending
<1>2. Pending(m)
  BY <1>1, NodeFrame DEF Pending
<1>3. \/ Kept(state, m)
      \/ \E k \in DOMAIN walk : k.kind = "create" /\ k.res = m.res /\ walk[k] \in {"wait", "fail"}
  BY <1>2 DEF DeposedOK
<1>4. \/ Kept(state, m)
      \/ /\ change[m.res] = "CreateThenDelete"
         /\ state.current[m.res] # NoObject /\ state.current[m.res].id = m.id
  BY <1>2 DEF TypeInv, DestroyersOK
<1>5. n \in Node /\ m \in Node /\ m.res \in Res
  BY DEF TypeInv, TypeOK, Node
<1>6. CASE n.res # m.res
  BY <1>1, <1>3, <1>5, <1>6 DEF Frame
<1>7. CASE n.res = m.res /\ n.kind = "create"
  <2>1. CASE Start(n)
    BY <1>4, <1>7, <2>1, StartState
  <2>2. CASE ~Start(n) /\ walk'[n] = "fail"
    BY <1>7, <2>2
  <2>3. CASE ~Start(n) /\ walk'[n] # "fail"
    <3>1. walk[n] = "run" /\ walk'[n] = "ok"
      BY <2>3, NodeFrame
    <3>2. \A k \in DOMAIN walk : k.kind = "create" /\ k.res = m.res => k = n
      BY <1>7 DEF TypeInv, NodesOK
    <3>3. Kept(state, m)
      BY <1>3, <3>1, <3>2
    <3>4. walk[n] = "run" => ~EndEarly(n) /\ ~CreateNothing(n)
      BY <3>1 DEF EndEarly, CreateNothing, Ends, TypeInv, TypeOK
    <3>5. state'.deposed[n.res] = state.deposed[n.res]
      BY <1>7, <2>3, <3>1, <3>4, CreateState, UpdateState DEF NodeStep, Destroy, DestroyFails
    <3> QED
      BY <1>7, <3>3, <3>5
  <2> QED
    BY <2>1, <2>2, <2>3
<1>8. CASE n.res = m.res /\ n.kind # "create" /\ ~Start(n) /\ ~EndEarly(n)
  <2>1. n # m
    BY <1>8, NodeFrame
  <2>2. Destroy(n) \/ DestroyFails(n)
    BY <1>8 DEF NodeStep, Create, CreateNothing, Update, Creates, Updates
  <2>3. Kept(state, m) => Kept(state', m)
    <3>1. CASE n.kind = "destroy"
      BY <1>8, <2>2, <3>1, DestroyState, DestroyFailsState
    <3>2. CASE n.kind # "destroy"
      <4>1. n.kind = "deposed" /\ Target(n).id = n.id
        BY <2>2, <3>2, DestroyState, DestroyFailsState
      <4>2. n.id # m.id
        BY <1>5, <1>8, <2>1, <4>1 DEF Node
      <4>3. \A o \in state.deposed[n.res] : o # Target(n) => o \in state'.deposed[n.res]
        BY <2>2, <3>2, DestroyState, DestroyFailsState
      <4> QED
        BY <1>8, <4>1, <4>2, <4>3
    <3> QED
      BY <3>1, <3>2
  <2> QED
    BY <1>1, <1>3, <1>8, <2>3
<1>9. CASE n.res = m.res /\ n.kind # "create" /\ (Start(n) \/ EndEarly(n))
  <2>1. state' = state
    BY <1>9, StartState DEF EndEarly
  <2> QED
    BY <1>1, <1>3, <1>9, <2>1
<1> QED
  BY <1>6, <1>7, <1>8, <1>9

-----------------------------------------------------------------------------
(***************************************************************************)
(* A run in which nothing fails.                                           *)
(***************************************************************************)

\* What a resource references is among its dependencies.
LEMMA RefsAreDependencies ==
  ASSUME NEW c \in Configs, NEW r \in Res
  PROVE  /\ c.refs[r] \subseteq Dependencies(c, r) /\ c.refs[r] \subseteq Res
         /\ c.refs[r] \subseteq c.present /\ r \notin c.refs[r]
<1>1. c.refs[r] \subseteq Res /\ c.refs[r] \subseteq c.present /\ r \notin Dependencies(c, r)
  BY ApplyAssumption DEF Config
<1>2. c.refs[r] \subseteq Dependencies(c, r)
  BY <1>1 DEF Dependencies
<1> QED
  BY <1>1, <1>2

\* A node that has not failed has started, created, updated or destroyed.
LEMMA CleanStep ==
  ASSUME TypeInv, NEW n \in DOMAIN walk, NodeStep(n), clean'
  PROVE  /\ clean
         /\ \/ Start(n) /\ walk'[n] = "run"
            \/ (Create(n) \/ Update(n) \/ Destroy(n)) /\ walk'[n] = "ok"
<1> USE DEF TypeInv, TypeOK
<1>1. CASE Start(n)
  BY <1>1 DEF Start
<1>2. ASSUME NEW ok \in BOOLEAN, Ends(n, ok)
      PROVE  clean /\ ok /\ walk'[n] = "ok"
  BY <1>2 DEF Ends
<1>3. ~Ends(n, FALSE)
  BY <1>2
<1>4. ~EndEarly(n) /\ ~CreateNothing(n) /\ ~DestroyFails(n)
  BY <1>3 DEF EndEarly, CreateNothing, DestroyFails
<1>5. Create(n) \/ Update(n) \/ Destroy(n) => \E ok \in BOOLEAN : Ends(n, ok)
  BY DEF Create, Update, Destroy
<1> QED
  BY <1>1, <1>2, <1>4, <1>5 DEF NodeStep

\* A creation that succeeds stores the new object as the configuration wants it.
LEMMA CreateDone ==
  ASSUME TypeInv, NEW n \in DOMAIN walk, Create(n), clean'
  PROVE  /\ state'.current[n.res] = Result(n, NewId, FALSE)
         /\ world' = [i \in Existing \union {NewId} |->
                        IF i = NewId THEN Uses(config, state, n.res) ELSE world[i]]
<1>1. n.res \in Res /\ state \in State
  BY DEF TypeInv, TypeOK, Node
<1>2. PICK ok \in BOOLEAN, tainted \in BOOLEAN :
        LET s == [state EXCEPT !.current[n.res] = Result(n, NewId, tainted)] IN
        /\ ok => ~tainted
        /\ Ends(n, ok)
        /\ state' = IF tainted THEN MaybeRestore(s, n.res, n.id) ELSE s
  BY DEF Create
<1>3. ok /\ ~tainted
  BY <1>2 DEF Ends
<1>4. state' = [state EXCEPT !.current[n.res] = Result(n, NewId, FALSE)]
  <2>1. tainted = FALSE
    BY <1>3
  <2> QED
    BY <1>2, <2>1
<1> QED
  BY <1>1, <1>4 DEF State, Create

\* An update that succeeds stores the object as the configuration wants it.
LEMMA UpdateDone ==
  ASSUME TypeInv, NEW n \in DOMAIN walk, Update(n), clean',
         state.current[n.res].id \in Existing
  PROVE  LET old == state.current[n.res] IN
         /\ state'.current[n.res] = Result(n, old.id, old.tainted)
         /\ world' = [world EXCEPT ![old.id] = Uses(config, state, n.res)]
<1> DEFINE old == state.current[n.res]
<1>1. n.res \in Res /\ state \in State
  BY DEF TypeInv, TypeOK, Node
<1>2. PICK ok \in BOOLEAN, returned \in BOOLEAN, applied \in BOOLEAN :
        /\ ok => returned /\ applied
        /\ Ends(n, ok)
        /\ state' = [state EXCEPT !.current[n.res] =
                        IF returned THEN Result(n, old.id, old.tainted)
                        ELSE [old EXCEPT !.deps = Dependencies(config, n.res)]]
        /\ world' = IF applied /\ old.id \in Existing
                    THEN [world EXCEPT ![old.id] = Uses(config, state, n.res)] ELSE world
  BY DEF Update
<1>3. ok /\ returned /\ applied
  BY <1>2 DEF Ends
<1>4. /\ state' = [state EXCEPT !.current[n.res] = Result(n, old.id, old.tainted)]
      /\ world' = [world EXCEPT ![old.id] = Uses(config, state, n.res)]
  BY <1>2, <1>3
<1> QED
  BY <1>1, <1>4 DEF State

\* What the state says of an object whose creator has succeeded.
LEMMA ResultIs ==
  ASSUME NEW n, NEW i, NEW tainted
  PROVE  LET o == Result(n, i, tainted) IN
         o.id = i /\ o.tainted = tainted /\ o.deps = Dependencies(config, n.res)
BY DEF Result

\* Destroy removes all trace of the object from the state.
LEMMA DestroyUntracks ==
  ASSUME TypeInv, OrderInv, Distinct(state), NEW n \in DOMAIN walk, Destroy(n)
  PROVE  /\ Target(n).id \notin Tracked(state') /\ Tracked(state') \subseteq Tracked(state)
         /\ At(state, n.res, Target(n).id)
         /\ n.kind = "deposed" => /\ Target(n) \in state.deposed[n.res]
                                  /\ \A o \in state.deposed[n.res] : o.id = n.id => o = Target(n)
<1> DEFINE r == n.res
           i == Target(n).id
<1>1. walk[n] = "run" /\ n.kind # "create" /\ r \in Res /\ Frame(r) /\ running
  BY DestroyState DEF Destroy, Ends
<1>2. n.kind = "destroy" \/ n.kind = "deposed"
  BY <1>1 DEF TypeInv, TypeOK, Node
<1>3. n.kind = "deposed" => /\ Target(n) \in state.deposed[r] /\ Target(n).id = n.id
                            /\ \A o \in state.deposed[r] : o.id = n.id => o = Target(n)
  BY <1>1, TargetDeposed
<1>4. n.kind = "destroy" => Target(n) = state.current[r] /\ Target(n) # NoObject
  BY <1>1, TargetIs
<1>5. At(state, r, i)
  BY <1>2, <1>3, <1>4 DEF At
<1>6. ~At(state', r, i)
  <2>1. CASE n.kind = "destroy"
    BY <1>1, <1>4, <2>1, DestroyState DEF At, Distinct
  <2>2. CASE n.kind = "deposed"
    BY <1>1, <1>3, <2>2, DestroyState DEF At, Distinct
  <2> QED
    BY <1>2, <2>1, <2>2
<1>7. \A x \in Res : x # r => ~At(state', x, i)
  <2>1. \A x \in Res : x # r => ~At(state, x, i)
    BY <1>1, <1>5, AtOne
  <2> QED
    BY <1>1, <2>1 DEF Frame, At
<1>8. \A x \in Res : \A j : At(state', x, j) => At(state, x, j)
  BY <1>1, <1>2, DestroyState DEF At, Frame
<1> QED
  BY <1>3, <1>5, <1>6, <1>7, <1>8, TrackedIs

\* What is done stays: no node changes the current object of a resource that is done, and what
\* it references is done or only updated.
LEMMA DoneStays ==
  ASSUME TypeInv, OrderInv, NEW n \in DOMAIN walk, NodeStep(n), NEW r \in Res, Done(r)
  PROVE  /\ state'.current[r] = state.current[r]
         /\ \A d \in config.refs[r] : Done(d) \/ change[d] = "Update"
         /\ n.kind = "create" => n.res # r
         /\ n.kind = "destroy" => n.res # r
<1>1. /\ running /\ walk[n] \in {"wait", "run"} /\ Frame(n.res) /\ n.res \in Res
      /\ n.kind \in {"create", "destroy", "deposed"}
  BY NodeFrame, NodeStateFrame DEF TypeInv, TypeOK, Node
<1>2. n.kind = "create" => n.res # r
  BY <1>1 DEF Done, TypeInv, NodesOK, Creating, IsReplace
<1>3. ASSUME n.kind = "destroy", n.res = r PROVE FALSE
  <2>1. n = Destroyer(r) /\ change[r] \in {"Delete", "DeleteThenCreate"}
    BY <1>3 DEF TypeInv, NodesOK
  <2>2. PICK k \in DOMAIN walk : k.kind = "create" /\ k.res = r /\ walk[k] = "ok"
    BY <2>1 DEF Done
  <2>3. change[r] = "DeleteThenCreate"
    BY <2>1, <2>2 DEF TypeInv, NodesOK, Creating, IsReplace
  <2>4. Destroyer(r) \in DOMAIN walk /\ <<k, Destroyer(r)>> \in edges
    BY <2>2, <2>3 DEF TypeInv, CreatorsOK
  <2>5. walk[Destroyer(r)] = "ok"
    BY <2>2, <2>4 DEF OrderInv, WalkOrder
  <2> QED
    BY <1>1, <2>1, <2>5
<1>4. state'.current[r] = state.current[r]
  BY <1>1, <1>2, <1>3, CurrentKept DEF Frame
<1>5. ASSUME NEW d \in config.refs[r] PROVE Done(d) \/ change[d] = "Update"
  <2>1. CASE change[r] = "NoOp"
    BY <1>1, <1>5, <2>1 DEF OrderInv, GraphOK, Done
  <2>2. CASE change[r] # "NoOp"
    <3>1. PICK k \in DOMAIN walk : k.kind = "create" /\ k.res = r /\ walk[k] = "ok"
      BY <2>2 DEF Done
    <3>2. config \in Configs
      BY <1>1 DEF OrderInv, GraphOK
    <3>3. d \in Res /\ d \in config.present /\ d \in Dependencies(config, r)
      BY <1>5, <3>2, RefsAreDependencies
    <3>4. change[d] \notin {"None", "Delete"} /\ change[d] \in Actions
      BY <1>1, <3>3 DEF OrderInv, GraphOK, TypeInv, TypeOK
    <3>5. CASE change[d] = "NoOp"
      BY <3>5 DEF Done
    <3>6. CASE change[d] # "NoOp"
      <4>1. d \in Creating(change)
        BY <3>3, <3>4, <3>6 DEF Creating, IsReplace, Actions
      <4>2. PICK j \in DOMAIN walk : j.kind = "create" /\ j.res = d
        BY <1>1, <3>3, <4>1 DEF OrderInv, GraphOK
      <4>3. <<k, j>> \in edges
        BY <1>1, <3>1, <3>3, <4>2 DEF OrderInv, GraphOK
      <4>4. walk[j] = "ok"
        BY <3>1, <4>3 DEF OrderInv, WalkOrder
      <4> QED
        BY <4>2, <4>4 DEF Done
    <3> QED
      BY <3>5, <3>6
  <2> QED
    BY <2>1, <2>2
<1> QED
  BY <1>2, <1>3, <1>4, <1>5

\* A resource that is to be updated keeps its object.
LEMMA UpdateStays ==
  ASSUME TypeInv, NEW n \in DOMAIN walk, NodeStep(n), NEW r \in Res, change[r] = "Update"
  PROVE  /\ state'.current[r] = NoObject <=> state.current[r] = NoObject
         /\ state.current[r] # NoObject => state'.current[r].id = state.current[r].id
         /\ state'.current[r] = state.current[r] \/ (Update(n) /\ n.res = r)
<1>1. /\ Frame(n.res) /\ n.res \in Res /\ n.kind \in {"create", "destroy", "deposed"}
  BY NodeStateFrame DEF TypeInv, TypeOK, Node
<1>2. CASE n.res # r \/ n.kind = "deposed"
  BY <1>1, <1>2, CurrentKept DEF Frame
<1>3. CASE n.res = r /\ n.kind = "create"
  <2>1. Start(n) \/ EndEarly(n) \/ Update(n)
    BY <1>3 DEF NodeStep, Create, CreateNothing, Creates, Destroy, DestroyFails
  <2>2. CASE Start(n)
    BY <1>3, <2>2, StartState
  <2>3. CASE EndEarly(n)
    BY <2>3 DEF EndEarly
  <2>4. CASE Update(n)
    BY <1>3, <2>4, UpdateState
  <2> QED
    BY <2>1, <2>2, <2>3, <2>4
<1>4. n.kind = "destroy" => n.res # r
  BY DEF TypeInv, NodesOK
<1> QED
  BY <1>1, <1>2, <1>3, <1>4

\* What an object uses depends on the identities of the current objects it references.
LEMMA UsesSame ==
  ASSUME NEW c, NEW s, NEW t, NEW r,
         \A d \in c.refs[r] : /\ s.current[d] = NoObject <=> t.current[d] = NoObject
                              /\ s.current[d] # NoObject => s.current[d].id = t.current[d].id
  PROVE  Uses(c, s, r) = Uses(c, t, r)
<1> DEFINE S == {x \in c.refs[r] : s.current[x] # NoObject}
           T == {x \in c.refs[r] : t.current[x] # NoObject}
<1>1. S = T /\ \A d \in S : s.current[d].id = t.current[d].id
  OBVIOUS
<1> QED
  BY <1>1 DEF Uses

\* What is done stays as it should be, whatever the other nodes do.
LEMMA GoodStays ==
  ASSUME TypeInv, OrderInv, Distinct(state), CleanOK, clean, NEW n \in DOMAIN walk, NodeStep(n),
         clean', NEW r \in Res, Done(r)
  PROVE  Good(r)'
<1>1. running /\ config' = config
  BY NodeFrame
<1> DEFINE o == state.current[r]
           i == o.id
<1>2. /\ o # NoObject /\ ~o.tainted /\ o.deps = Dependencies(config, r)
      /\ world[i] = Uses(config, state, r)
  BY <1>1 DEF CleanOK, Good
<1>3. state'.current[r] = o
  BY DoneStays
<1>4. Uses(config, state', r) = Uses(config, state, r)
  <2>1. config \in Configs
    BY <1>1 DEF OrderInv, GraphOK
  <2>2. ASSUME NEW d \in config.refs[r]
        PROVE  /\ state.current[d] = NoObject <=> state'.current[d] = NoObject
               /\ state.current[d] # NoObject => state.current[d].id = state'.current[d].id
    <3>1. d \in Res
      BY <2>1, <2>2, RefsAreDependencies
    <3>2. CASE Done(d)
      BY <3>1, <3>2, DoneStays
    <3>3. CASE change[d] = "Update"
      BY <3>1, <3>3, UpdateStays
    <3> QED
      BY <2>2, <3>2, <3>3, DoneStays
  <2> QED
    BY <2>2, UsesSame
<1>5. At(state, r, i) /\ i \in Existing
  <2>1. At(state, r, i)
    BY <1>2 DEF At
  <2> QED
    BY <1>1, <2>1, TrackedIs DEF CleanOK
<1>6. world'[i] = world[i]
  <2>1. CASE Start(n)
    BY <2>1 DEF Start
  <2>2. CASE Create(n)
    <3>1. NewId \notin Existing
      BY NewIdType DEF TypeInv
    <3> QED
      BY <1>5, <2>2, <3>1, CreateDone
  <2>3. CASE Update(n)
    <3>1. n.res # r /\ n.res \in Res
      BY <2>3, DoneStays, NodeStateFrame DEF Update, Updates
    <3>2. state.current[n.res] # NoObject
      BY <2>3, UpdateState
    <3>3. At(state, n.res, state.current[n.res].id)
      BY <3>2 DEF At
    <3>4. state.current[n.res].id # i /\ state.current[n.res].id \in Existing
      BY <1>1, <1>5, <3>1, <3>3, AtOne, TrackedIs DEF CleanOK
    <3>5. world' = [world EXCEPT ![state.current[n.res].id] = Uses(config, state, n.res)]
      BY <2>3, <3>4, UpdateDone
    <3> QED
      BY <1>5, <3>4, <3>5 DEF TypeInv, TypeOK, Existing
  <2>4. CASE Destroy(n)
    <3>1. Target(n).id # i
      <4>1. At(state', r, i)
        BY <1>2, <1>3 DEF At
      <4>2. i \in Tracked(state')
        BY <4>1, TrackedIs
      <4> QED
        BY <2>4, <4>2, DestroyUntracks
    <3>2. world' = Without(Target(n).id)
      BY <2>4 DEF Destroy
    <3> QED
      BY <1>5, <3>1, <3>2 DEF Without
  <2> QED
    BY <2>1, <2>2, <2>3, <2>4, CleanStep
<1> QED
  BY <1>1, <1>2, <1>3, <1>4, <1>6 DEF Good

\* A creator that succeeds leaves its resource as it should be.
LEMMA BecomesGood ==
  ASSUME TypeInv, OrderInv, Distinct(state), CleanOK, clean, NEW n \in DOMAIN walk,
         Create(n) \/ Update(n), NodeStep(n), clean'
  PROVE  Good(n.res)'
<1> DEFINE r == n.res
<1>1. running /\ config' = config /\ r \in Res /\ Frame(r) /\ n.kind = "create"
  BY NodeFrame, NodeStateFrame DEF Create, Update, Creates, Updates
<1>2. Uses(config, state', r) = Uses(config, state, r)
  <2>1. \A d \in config.refs[r] : d \in Res \ {r}
    BY <1>1, RefsAreDependencies DEF OrderInv, GraphOK
  <2> QED
    BY <1>1, <2>1, UsesSame DEF Frame
<1>3. CASE Create(n)
  <2>1. /\ state'.current[r] = Result(n, NewId, FALSE)
        /\ world' = [i \in Existing \union {NewId} |->
                       IF i = NewId THEN Uses(config, state, r) ELSE world[i]]
    BY <1>3, CreateDone
  <2>2. state'.current[r] # NoObject
    BY <1>3, CreateState
  <2>3. LET o == state'.current[r] IN o.id = NewId /\ ~o.tainted /\ o.deps = Dependencies(config, r)
    BY <2>1 DEF Result
  <2>4. world'[NewId] = Uses(config, state, r)
    BY <2>1
  <2> QED
    BY <1>1, <1>2, <2>2, <2>3, <2>4 DEF Good
<1>4. CASE Update(n)
  <2> DEFINE old == state.current[r]
  <2>1. change[r] = "Update"
    BY <1>4 DEF Update, Updates
  <2>2. old # NoObject /\ ~old.tainted
    BY <1>1, <2>1 DEF CleanOK
  <2>3. At(state, r, old.id)
    BY <2>2 DEF At
  <2>4. old.id \in Existing
    BY <1>1, <2>3, TrackedIs DEF CleanOK
  <2>5. /\ state'.current[r] = Result(n, old.id, old.tainted)
        /\ world' = [world EXCEPT ![old.id] = Uses(config, state, r)]
    BY <1>4, <2>4, UpdateDone
  <2>6. state'.current[r] # NoObject
    BY <1>4, UpdateState
  <2>7. LET o == state'.current[r] IN o.id = old.id /\ o.tainted = old.tainted /\ o.deps = Dependencies(config, r)
    BY <2>5, ResultIs
  <2>8. world'[old.id] = Uses(config, state, r)
    BY <2>4, <2>5 DEF Existing
  <2> QED
    BY <1>1, <1>2, <2>2, <2>6, <2>7, <2>8 DEF Good
<1> QED
  BY <1>3, <1>4

\* A node that does not fail brings the run forward.
LEMMA CleanNode ==
  ASSUME TypeInv, OrderInv, Distinct(state), CleanOK, NEW n \in DOMAIN walk, NodeStep(n)
  PROVE  CleanOK'
<1> SUFFICES ASSUME clean' PROVE CleanOK'
  BY DEF CleanOK
<1>1. /\ running /\ clean /\ change' = change /\ DOMAIN walk' = DOMAIN walk
      /\ n.res \in Res /\ Frame(n.res) /\ n \in Node
      /\ \A m \in DOMAIN walk : m # n => walk'[m] = walk[m]
  BY CleanStep, NodeFrame, NodeStateFrame DEF TypeInv, TypeOK
<1>2. \A m \in DOMAIN walk : walk'[m] # "fail"
  BY <1>1, CleanStep DEF CleanOK
<1>3. Tracked(state') \subseteq Existing'
  <2>1. Tracked(state) \subseteq Existing
    BY <1>1 DEF CleanOK
  <2>2. CASE Start(n)
    <3>1. \A i : At(state', n.res, i) <=> At(state, n.res, i)
      BY <2>2, StartState DEF At
    <3>2. Tracked(state') = Tracked(state)
      BY <1>1, <3>1, TrackedSame
    <3> QED
      BY <2>1, <2>2, <3>2 DEF Start, Existing
  <2>3. CASE Create(n)
    <3>1. Existing' = Existing \union {NewId}
      BY <2>3 DEF Create, Existing
    <3> QED
      BY <2>1, <3>1, NodeTracks
  <2>4. CASE Update(n)
    <3>1. \A i : At(state', n.res, i) <=> At(state, n.res, i)
      BY <2>4, UpdateState DEF At
    <3>2. Tracked(state') = Tracked(state)
      BY <1>1, <3>1, TrackedSame
    <3>3. Existing' = Existing
      BY <2>4 DEF Update, Existing
    <3> QED
      BY <2>1, <3>2, <3>3
  <2>5. CASE Destroy(n)
    BY <2>1, <2>5, DestroyUntracks, DestroyState
  <2> QED
    BY <2>2, <2>3, <2>4, <2>5, CleanStep
<1>4. ASSUME NEW r \in Res, NEW o \in state'.deposed[r]
      PROVE  Deposed(r, o.id) \in DOMAIN walk /\ walk'[Deposed(r, o.id)] # "ok"
  <2> DEFINE D(p) == Deposed(r, p.id)
  <2>0. \A p : D(p).kind = "deposed" /\ D(p).res = r /\ D(p).id = p.id
    BY DEF Deposed
  <2>1. \A p \in state.deposed[r] : D(p) \in DOMAIN walk /\ walk[D(p)] # "ok"
    BY <1>1 DEF CleanOK
  <2> HIDE DEF D
  <2>2. CASE r # n.res
    BY <1>1, <1>4, <2>0, <2>1, <2>2 DEF Frame, D
  <2>3. CASE r = n.res /\ Start(n)
    <3>1. CASE state' = state
      BY <1>1, <1>4, <2>1, <2>3, <3>1, CleanStep, NodeFrame DEF D
    <3>2. CASE /\ n.kind = "create" /\ change[n.res] = "CreateThenDelete"
               /\ state'.deposed[n.res] = state.deposed[n.res] \union {state.current[n.res]}
      <4>1. CASE o \in state.deposed[r]
        BY <1>1, <2>0, <2>1, <3>2, <4>1 DEF D
      <4>2. CASE o = state.current[r]
        <5>1. walk[n] = "wait"
          BY <2>3 DEF Start, Ready
        <5>2. o.id = n.id /\ D(o) \in DOMAIN walk
          BY <2>3, <3>2, <4>2, <5>1 DEF OrderInv, OldOK, D
        <5>3. <<D(o), n>> \in edges
          BY <1>1, <2>0, <2>3, <3>2, <5>2 DEF OrderInv, GraphOK
        <5>4. walk[D(o)] # "ok"
          BY <5>1, <5>2, <5>3 DEF OrderInv, WalkOrder
        <5>5. D(o) # n
          BY <2>0, <3>2
        <5> QED
          BY <1>1, <5>2, <5>4, <5>5 DEF D
      <4> QED
        BY <1>4, <2>3, <3>2, <4>1, <4>2
    <3> QED
      BY <2>3, <3>1, <3>2, StartState
  <2>4. CASE r = n.res /\ (Create(n) \/ Update(n))
    <3>1. n.kind = "create"
      BY <2>4 DEF Create, Update, Creates, Updates
    <3>2. state'.deposed[r] = state.deposed[r]
      BY <2>4, CreateState, UpdateState
    <3>3. D(o) # n
      BY <2>0, <3>1
    <3> QED
      BY <1>1, <1>4, <2>1, <3>2, <3>3 DEF D
  <2>5. CASE r = n.res /\ Destroy(n)
    <3>1. o \in state.deposed[r] /\ D(o) # n
      <4>1. CASE n.kind = "destroy"
        BY <1>4, <2>0, <2>5, <4>1, DestroyState
      <4>2. CASE n.kind # "destroy"
        <5>1. n.kind = "deposed" /\ o \in state.deposed[r] /\ o # Target(n)
          BY <1>4, <2>5, <4>2, DestroyState
        <5>2. o.id # n.id
          BY <2>5, <5>1, DestroyUntracks
        <5> QED
          BY <2>0, <5>1, <5>2
      <4> QED
        BY <4>1, <4>2
    <3> QED
      BY <1>1, <2>1, <3>1 DEF D
  <2> QED
    BY <2>2, <2>3, <2>4, <2>5, CleanStep
<1>5. ASSUME NEW r \in Res, change[r] = "None" PROVE state'.current[r] = NoObject
  <2>1. state.current[r] = NoObject
    BY <1>1, <1>5 DEF CleanOK
  <2>2. n.res = r => n.kind = "deposed"
    BY <1>1, <1>5 DEF TypeInv, NodesOK, Creating, IsReplace, Node
  <2> QED
    BY <1>1, <2>1, <2>2, CurrentKept DEF Frame
<1>6. ASSUME NEW r \in Res, change[r] = "Delete", walk'[Destroyer(r)] = "ok"
      PROVE  state'.current[r] = NoObject
  <2>1. Destroyer(r) \in DOMAIN walk /\ Destroyer(r).res = r /\ Destroyer(r).kind = "destroy"
    BY <1>1, <1>6 DEF OrderInv, GraphOK, Destroyer
  <2>2. CASE n = Destroyer(r)
    BY <1>6, <2>1, <2>2, CleanStep, DestroyState DEF Create, Update, Creates, Updates
  <2>3. CASE n # Destroyer(r)
    <3>1. state.current[r] = NoObject
      BY <1>1, <1>6, <2>1, <2>3 DEF CleanOK
    <3>2. n.res = r => n.kind = "deposed"
      BY <1>1, <1>6, <2>3 DEF TypeInv, NodesOK, Creating, IsReplace, Node
    <3> QED
      BY <1>1, <3>1, <3>2, CurrentKept DEF Frame
  <2> QED
    BY <2>2, <2>3
<1>7. ASSUME NEW r \in Res, change[r] = "Update"
      PROVE  state'.current[r] # NoObject /\ ~state'.current[r].tainted
  <2>1. state.current[r] # NoObject /\ ~state.current[r].tainted
    BY <1>1, <1>7 DEF CleanOK
  <2>2. CASE state'.current[r] = state.current[r]
    BY <2>1, <2>2
  <2>3. CASE Update(n) /\ n.res = r
    BY <1>1, <2>3, BecomesGood DEF Good
  <2> QED
    BY <1>7, <2>2, <2>3, UpdateStays
<1>8. ASSUME NEW r \in Res, Done(r)' PROVE Good(r)'
  <2>1. CASE Done(r)
    BY <1>1, <2>1, GoodStays
  <2>2. CASE ~Done(r)
    <3>1. n.kind = "create" /\ n.res = r /\ walk'[n] = "ok"
      BY <1>1, <1>8, <2>2 DEF Done
    <3>2. Create(n) \/ Update(n)
      BY <3>1, CleanStep DEF Destroy
    <3> QED
      BY <1>1, <3>1, <3>2, BecomesGood
  <2> QED
    BY <2>1, <2>2
<1> QED
  BY <1>1, <1>2, <1>3, <1>4, <1>5, <1>6, <1>7, <1>8 DEF CleanOK

-----------------------------------------------------------------------------
(***************************************************************************)
(* Planning.                                                               *)
(***************************************************************************)

\* What is planned for a resource follows from the configuration; nothing is left as it is
\* that is tainted or uses anything but the current objects.
LEMMA PlannedWhy ==
  ASSUME NEW c, NEW s, NEW chg, NEW r, NEW a \in PlannedAction(c, s, chg, r)
  PROVE  /\ r \in c.present <=> a \notin {"None", "Delete"}
         /\ a = "Update" => ~s.current[r].tainted
         /\ a = "NoOp" => ~s.current[r].tainted /\ MayBeNoOp(c, s, chg, r)
<1> DEFINE none == s.current[r] = NoObject
<1>1. CASE r \notin c.present /\ none
  BY <1>1 DEF PlannedAction
<1>2. CASE r \notin c.present /\ ~none
  BY <1>2 DEF PlannedAction
<1>3. CASE r \in c.present /\ none
  BY <1>3 DEF PlannedAction
<1>4. CASE r \in c.present /\ ~none
  <2>1. a \in IF s.current[r].tainted
              THEN {IF PlanCBD(c, r) THEN "CreateThenDelete" ELSE "DeleteThenCreate"}
              ELSE {IF PlanCBD(c, r) THEN "CreateThenDelete" ELSE "DeleteThenCreate", "Update"}
                   \union (IF MayBeNoOp(c, s, chg, r) THEN {"NoOp"} ELSE {})
    BY <1>4 DEF PlannedAction
  <2>2. CASE s.current[r].tainted
    BY <1>4, <2>1, <2>2
  <2>3. CASE ~s.current[r].tainted
    BY <1>4, <2>1, <2>3
  <2> QED
    BY <2>2, <2>3
<1> QED
  BY <1>1, <1>2, <1>3, <1>4

\* A resource that does not change gets its dependencies stored at once.
LEMMA FinalisedIs ==
  ASSUME NEW s \in State, NEW c, NEW chg, NEW r \in Res, chg[r] = "NoOp", s.current[r] # NoObject
  PROVE  LET t == Finalised(c, s, chg) IN
         /\ t.current[r].deps = Dependencies(c, r)
         /\ t.current[r].tainted = s.current[r].tainted
         /\ t.current[r].id = s.current[r].id
<1> DEFINE t == Finalised(c, s, chg)
           v == [s.current[r] EXCEPT !.deps = Dependencies(c, r)]
           C == [x \in Res |-> IF chg[x] = "NoOp" THEN [s.current[x] EXCEPT !.deps = Dependencies(c, x)]
                               ELSE s.current[x]]
<1>1. s.current[r] \in Object
  BY DEF State
<1>2. v.deps = Dependencies(c, r) /\ v.tainted = s.current[r].tainted /\ v.id = s.current[r].id
  BY <1>1 DEF Object
<1>3. C[r] = v
  OBVIOUS
<1>4. t = [s EXCEPT !.current = C]
  BY DEF Finalised
<1> HIDE DEF C, v
<1>5. t.current = C
  BY <1>4 DEF State
<1> QED
  BY <1>2, <1>3, <1>5

\* A creator depends on the creators of its dependencies, and whatever destroys a deposed
\* object of its resource depends on it.
LEMMA CreatorEdges ==
  ASSUME NEW c, NEW s, NEW chg, NEW n \in DiffNodes(chg, s), NEW m \in DiffNodes(chg, s),
         n.kind = "create"
  PROVE  /\ m.kind = "create" /\ m.res \in Dependencies(c, n.res) => <<n, m>> \in GraphEdges(c, s, chg)
         /\ m.kind = "deposed" /\ m.res = n.res => <<m, n>> \in GraphEdges(c, s, chg)
<1> DEFINE N == DiffNodes(chg, s)
           E == ReferenceEdges(c, N) \union DestroyEdges(c, s, N)
           I == {e \in E : e[1].kind = "create" /\ e[2].kind # "create" /\ DestroyCBD(s, e[2])}
<1>1. GraphEdges(c, s, chg) = (E \ I) \union {<<e[2], e[1]>> : e \in I}
  BY DEF GraphEdges, CBDEdges
<1>2. m.kind = "create" /\ m.res \in Dependencies(c, n.res) => <<n, m>> \in E
  BY DEF ReferenceEdges
<1>3. m.kind = "deposed" /\ m.res = n.res => <<n, m>> \in E
  BY DEF DestroyEdges
<1> HIDE DEF E
<1>4. m.kind = "create" /\ m.res \in Dependencies(c, n.res) => <<n, m>> \in E \ I
  BY <1>2
<1>5. m.kind = "deposed" /\ m.res = n.res => <<n, m>> \in I
  BY <1>3 DEF DestroyCBD
<1> HIDE DEF I
<1> QED
  BY <1>1, <1>4, <1>5

\* A plan starts a run in order, whatever state it finds.
LEMMA PlanStarts ==
  ASSUME TypeInv, Distinct(saved), LostOK, Plan
  PROVE  OrderInv' /\ Distinct(state)' /\ Distinct(saved)' /\ LostOK' /\ CleanOK'
<1>1. PICK c \in Configs, chg \in [Res -> Actions] :
        LET s == Refreshed(c, saved) IN
         /\ \A r \in Res : chg[r] \in PlannedAction(c, s, chg, r)
         /\ config' = c
         /\ change' = chg
         /\ state' = Finalised(c, s, chg)
         /\ edges' = GraphEdges(c, state', chg)
         /\ walk' = [n \in DiffNodes(chg, s) |->
                        IF Acyclic(DiffNodes(chg, s), edges') THEN "wait" ELSE "refused"]
  BY DEF Plan
<1> DEFINE s == Refreshed(c, saved)
           N == DiffNodes(chg, s)
           ac == Acyclic(N, edges')
<1>2. saved \in State /\ running' /\ clean' /\ UNCHANGED <<saved, world, lost>>
  BY DEF Plan, TypeInv, TypeOK
<1>3. /\ s \in State /\ state' \in State
      /\ \A r \in Res :
           /\ state'.deposed[r] = {o \in saved.deposed[r] : o.id \in Existing}
           /\ state'.current[r] # NoObject => saved.current[r] # NoObject
           /\ state'.current[r] # NoObject => state'.current[r].id = saved.current[r].id
           /\ chg[r] # "NoOp" => state'.current[r] = s.current[r]
           /\ s.current[r] = NoObject <=> state'.current[r] = NoObject
  BY <1>1, <1>2, PlannedState
<1>4. \A r \in Res : state'.current[r] # NoObject => state'.current[r].id = s.current[r].id
  <2> HIDE DEF s
  <2> SUFFICES ASSUME NEW r \in Res, state'.current[r] # NoObject
               PROVE  state'.current[r].id = s.current[r].id
    OBVIOUS
  <2>1. CASE chg[r] # "NoOp"
    BY <1>3, <2>1
  <2>2. CASE chg[r] = "NoOp"
    <3>1. s.current[r] # NoObject
      BY <1>3
    <3> QED
      BY <1>1, <1>3, <2>2, <3>1, FinalisedIs DEF s
  <2> QED
    BY <2>1, <2>2
<1>5. \A r \in Res : /\ s.current[r] = NoObject <=> chg[r] \in {"None", "Create"}
                     /\ r \in c.present <=> chg[r] \notin {"None", "Delete"}
                     /\ chg[r] \in {"Update", "NoOp"} => ~s.current[r].tainted
                     /\ chg[r] = "NoOp" => MayBeNoOp(c, s, chg, r)
  BY <1>1, PlannedChange, PlannedWhy
<1>6. Tracked(state') = Tracked(saved) \intersect Existing
  BY <1>1, <1>2, PlanTracks
<1>7. /\ DiffNodes(chg, state') = N
      /\ \A m : m \in N <=>
         /\ m \in Node
         /\ \/ /\ m.kind = "create" /\ m.res \in Creating(chg)
               /\ m.id = IF chg[m.res] = "CreateThenDelete" THEN state'.current[m.res].id ELSE 0
            \/ m.kind = "destroy" /\ m.id = 0 /\ chg[m.res] \in {"Delete", "DeleteThenCreate"}
            \/ /\ m.kind = "deposed"
               /\ \/ chg[m.res] = "CreateThenDelete" /\ m.id = state'.current[m.res].id
                  \/ \E o \in state'.deposed[m.res] : o.id = m.id
  BY <1>1, <1>2, PlanNodes
<1>8. \A r \in Res : chg[r] = "NoOp" => state'.current[r].deps = Dependencies(c, r)
                                        /\ ~state'.current[r].tainted
  BY <1>1, <1>3, <1>5, FinalisedIs
<1>9. \A r \in Res : chg[r] = "NoOp" => world[s.current[r].id] = Uses(c, s, r)
                       /\ \A d \in c.refs[r] : chg[d] \in {"NoOp", "Update"}
  BY <1>5 DEF MayBeNoOp
<1>10. config' = c /\ change' = chg /\ edges' = GraphEdges(c, state', chg)
       /\ walk' = [n \in N |-> IF ac THEN "wait" ELSE "refused"]
  BY <1>1
<1> HIDE DEF s, N
<1>11. DOMAIN walk' = N /\ \A n \in N : walk'[n] = (IF ac THEN "wait" ELSE "refused")
  BY <1>10
<1>12. ~Refused' => ac \/ N = {}
  BY <1>11 DEF Refused
<1>13. GraphOK'
  <2>1. \A r \in Creating(chg) : \E n \in N : n.kind = "create" /\ n.res = r
    <3> SUFFICES ASSUME NEW r \in Creating(chg) PROVE \E n \in N : n.kind = "create" /\ n.res = r
      OBVIOUS
    <3> DEFINE i == IF chg[r] = "CreateThenDelete" THEN state'.current[r].id ELSE 0
               n == Creator(r, i)
    <3>1. r \in Res
      BY DEF Creating
    <3>2. i \in Nat
      BY <1>3, <1>5, <3>1 DEF State, Object
    <3> HIDE DEF i
    <3>3. n \in Node /\ n.kind = "create" /\ n.res = r /\ n.id = i
      BY <3>1, <3>2 DEF Creator, Node
    <3> QED
      BY <1>7, <3>3 DEF i
  <2>2. \A r \in Res : chg[r] \in {"Delete", "DeleteThenCreate"} => Destroyer(r) \in N
    BY <1>7 DEF Destroyer, Node
  <2>3. \A n, m \in N : n.kind = "create" =>
          /\ m.kind = "create" /\ m.res \in Dependencies(c, n.res) => <<n, m>> \in edges'
          /\ m.kind = "deposed" /\ m.res = n.res => <<m, n>> \in edges'
    BY <1>7, <1>10, CreatorEdges
  <2>4. ~Refused' => Acyclic(N, edges')
    BY <1>12 DEF Acyclic
  <2>5. (GraphOK <=> (running =>
    /\ config \in Configs
    /\ \A r \in Res :
        /\ r \in config.present <=> change[r] \notin {"None", "Delete"}
        /\ change[r] = "NoOp" => \A d \in config.refs[r] : change[d] \in {"NoOp", "Update"}
        /\ r \in Creating(change) => \E n \in DOMAIN walk : n.kind = "create" /\ n.res = r
        /\ change[r] \in {"Delete", "DeleteThenCreate"} => Destroyer(r) \in DOMAIN walk
    /\ \A n, m \in DOMAIN walk : n.kind = "create" =>
        /\ m.kind = "create" /\ m.res \in Dependencies(config, n.res) => <<n, m>> \in edges
        /\ m.kind = "deposed" /\ m.res = n.res => <<m, n>> \in edges
    /\ ~Refused => Acyclic(DOMAIN walk, edges)))'
    BY DEF GraphOK
  <2> QED
    BY <1>5, <1>9, <1>10, <1>11, <2>1, <2>2, <2>3, <2>4, <2>5
<1>14. WalkOrder'
  BY <1>11 DEF WalkOrder
<1>15. DeposedOK'
  <2> SUFFICES ASSUME NEW m \in N, m.kind = "deposed", walk'[m] = "wait",
                      \A n \in N : walk'[n] = "wait"
               PROVE  \/ \E o \in state'.deposed[m.res] : o.id = m.id
                      \/ \E n \in N : n.kind = "create" /\ n.res = m.res
    BY <1>11 DEF DeposedOK, Pending
  <2>1. CASE chg[m.res] = "CreateThenDelete"
    <3>1. m.res \in Creating(chg)
      BY <1>7, <2>1 DEF Creating, IsReplace, Node
    <3> QED
      BY <1>2, <1>10, <1>11, <1>13, <3>1 DEF GraphOK, Creating
  <2>2. CASE chg[m.res] # "CreateThenDelete"
    BY <1>7, <2>2
  <2> QED
    BY <2>1, <2>2
<1>16. OldOK'
  <2> SUFFICES ASSUME NEW n \in N, n.kind = "create", chg[n.res] = "CreateThenDelete"
               PROVE  Deposed(n.res, n.id) \in N /\ state'.current[n.res].id = n.id
    BY <1>10, <1>11 DEF OldOK
  <2>1. n \in Node /\ n.id = state'.current[n.res].id
    BY <1>7
  <2> QED
    BY <1>7, <2>1 DEF Deposed, Node
<1>17. Distinct(state')
  <2>1. \A r \in Res : state'.deposed[r] \subseteq saved.deposed[r]
    BY <1>3
  <2> QED
    BY <1>3, <2>1 DEF Distinct
<1>18. LostOK'
  BY <1>2, <1>6 DEF LostOK
<1>19. CleanOK'
  <2>1. ASSUME NEW r \in Res, NEW o \in state'.deposed[r]
        PROVE  Deposed(r, o.id) \in N /\ walk'[Deposed(r, o.id)] # "ok"
    <3>1. o.id \in Nat
      BY <1>3, <2>1 DEF State, Object
    <3>2. Deposed(r, o.id) \in Node /\ Deposed(r, o.id).kind = "deposed"
          /\ Deposed(r, o.id).res = r /\ Deposed(r, o.id).id = o.id
      BY <3>1 DEF Deposed, Node
    <3> QED
      BY <1>7, <1>11, <2>1, <3>2
  <2>2. \A n \in N : walk'[n] \notin {"ok", "fail"}
    BY <1>11
  <2>3. ASSUME NEW r \in Res, Done(r)' PROVE Good(r)'
    <3>1. chg[r] = "NoOp"
      BY <1>10, <1>11, <2>2, <2>3 DEF Done
    <3>2. state'.current[r] # NoObject
      BY <1>3, <1>5, <3>1
    <3>3. Uses(c, s, r) = Uses(c, state', r)
      <4>1. \A d \in c.refs[r] : d \in Res
        BY RefsAreDependencies
      <4> QED
        BY <1>3, <1>4, <4>1, UsesSame
    <3> QED
      BY <1>2, <1>4, <1>8, <1>9, <1>10, <3>1, <3>2, <3>3 DEF Good
  <2>4. \A r \in Res :
          /\ chg[r] = "None" => state'.current[r] = NoObject
          /\ chg[r] = "Delete" => walk'[Destroyer(r)] # "ok"
          /\ chg[r] = "Update" => state'.current[r] # NoObject /\ ~state'.current[r].tainted
    <3>1. \A r \in Res : chg[r] = "Delete" => Destroyer(r) \in N
      BY <1>7 DEF Destroyer, Node
    <3> QED
      BY <1>3, <1>5, <2>2, <3>1
  <2>5. Tracked(state') \subseteq Existing'
    BY <1>2, <1>6 DEF Existing
  <2> QED
    BY <1>10, <1>11, <2>1, <2>2, <2>3, <2>4, <2>5 DEF CleanOK
<1> QED
  BY <1>2, <1>13, <1>14, <1>15, <1>16, <1>17, <1>18, <1>19 DEF OrderInv

-----------------------------------------------------------------------------
(***************************************************************************)
(* The end of a run, and the theorem.                                      *)
(***************************************************************************)

\* A node puts nothing into a state that a dead process had created.
LEMMA LostNode ==
  ASSUME TypeInv, LostOK, NEW n \in DOMAIN walk, NodeStep(n)
  PROVE  LostOK'
<1>1. lost' = lost /\ saved' \in {saved, state'}
  BY NodeFrame, NodeStateFrame
<1>2. Tracked(state') \subseteq Tracked(state) \union {NewId}
  BY NodeTracks
<1>3. NewId \notin lost
  BY NewIdType DEF TypeInv
<1> QED
  BY <1>1, <1>2, <1>3 DEF LostOK

\* A run without a failure ends only when every node has succeeded: of the others, one that
\* depends on none of them could start.
LEMMA AllSucceed ==
  ASSUME TypeInv, OrderInv, CleanOK, Finish, clean, ~Refused
  PROVE  \A n \in DOMAIN walk : walk[n] = "ok"
<1> DEFINE S == {n \in DOMAIN walk : walk[n] # "ok"}
<1>1. running /\ \A n \in DOMAIN walk : walk[n] # "run" /\ ~Ready(n)
  BY DEF Finish
<1>2. \A n \in S : walk[n] = "wait"
  BY <1>1 DEF TypeInv, TypeOK, CleanOK, Refused
<1>3. Acyclic(DOMAIN walk, edges)
  BY <1>1 DEF OrderInv, GraphOK
<1>4. S # {} => \E n \in S : \A m \in S : <<n, m>> \notin edges
  BY <1>3 DEF Acyclic
<1> QED
  BY <1>1, <1>2, <1>4 DEF Ready

\* When every node has succeeded, the state is what the configuration asks for.
LEMMA FinishConverges ==
  ASSUME TypeInv, OrderInv, LostOK, CleanOK, NothingForgotten, Finish, clean, ~Refused
  PROVE  CleanRunConverges'
<1>1. /\ running /\ saved' = state /\ config' = config /\ world' = world /\ lost' = lost
      /\ state \in State /\ config \in Configs
  BY DEF Finish, TypeInv, TypeOK, OrderInv, GraphOK
<1>2. \A n \in DOMAIN walk : walk[n] = "ok"
  BY AllSucceed
<1>3. Existing \ lost = Tracked(state)
  BY <1>1 DEF CleanOK, LostOK, NothingForgotten
<1>4. ASSUME NEW r \in Res
      PROVE  /\ state.deposed[r] = {}
             /\ r \notin config.present => state.current[r] = NoObject
             /\ r \in config.present => Good(r)
  <2>1. state.deposed[r] = {}
    BY <1>1, <1>2 DEF CleanOK
  <2>2. ASSUME r \notin config.present PROVE state.current[r] = NoObject
    <3>1. change[r] \in {"None", "Delete"}
      BY <1>1, <2>2 DEF OrderInv, GraphOK
    <3>2. change[r] = "Delete" => walk[Destroyer(r)] = "ok"
      BY <1>1, <1>2 DEF OrderInv, GraphOK
    <3> QED
      BY <1>1, <3>1, <3>2 DEF CleanOK
  <2>3. ASSUME r \in config.present PROVE Good(r)
    <3>1. change[r] \in Actions /\ change[r] \notin {"None", "Delete"}
      BY <1>1, <2>3 DEF OrderInv, GraphOK, TypeInv, TypeOK
    <3>2. change[r] = "NoOp" \/ r \in Creating(change)
      BY <3>1 DEF Actions, Creating, IsReplace
    <3>3. Done(r)
      BY <1>1, <1>2, <3>2 DEF OrderInv, GraphOK, Done
    <3> QED
      BY <1>1, <3>3 DEF CleanOK
  <2> QED
    BY <2>1, <2>2, <2>3
<1>5. Existing' = Existing
  BY <1>1 DEF Existing
<1> QED
  BY <1>1, <1>3, <1>4, <1>5 DEF CleanRunConverges, Good

\* A node that cannot start leaves the order as it was.
LEMMA StartFailsOrder ==
  ASSUME TypeInv, OrderInv, NEW n \in DOMAIN walk, StartFails(n)
  PROVE  OrderInv'
<1>a. /\ running /\ running' /\ UNCHANGED <<config, change, edges, state>>
      /\ DOMAIN walk' = DOMAIN walk /\ ~Refused /\ ~Refused'
      /\ \A m \in DOMAIN walk : walk'[m] \in {"wait", "run"} => walk'[m] = walk[m]
      /\ \A m \in DOMAIN walk : walk[m] \in {"wait", "fail"} => walk'[m] \in {"wait", "fail"}
  BY StartFailsFrame
<1>1. GraphOK'
  BY <1>a DEF OrderInv, GraphOK, Creating
<1>2. WalkOrder'
  <2> SUFFICES ASSUME NEW k \in DOMAIN walk, NEW m \in DOMAIN walk,
                      walk'[k] \in {"run", "ok", "fail"}, <<k, m>> \in edges
               PROVE  walk'[m] = "ok"
    BY StartFailsFrame DEF WalkOrder
  <2>1. walk[m] = "ok"
    <3>1. CASE k = n
      BY <3>1, StartFailsFrame
    <3>2. CASE k # n
      BY <3>2, StartFailsFrame DEF OrderInv, WalkOrder
    <3> QED
      BY <3>1, <3>2
  <2> QED
    BY <2>1, StartFailsFrame
<1>3. DeposedOK'
  BY <1>a DEF OrderInv, DeposedOK, Pending
<1>4. OldOK'
  BY <1>a DEF OrderInv, OldOK
<1> QED
  BY <1>1, <1>2, <1>3, <1>4 DEF OrderInv

ConvergenceInv == OrderInv /\ StateInv /\ CleanOK /\ CleanRunConverges

\* Before the first run there is nothing.
LEMMA ConvergenceInitial == Init => ConvergenceInv
<1> SUFFICES ASSUME Init PROVE ConvergenceInv
  OBVIOUS
<1>1. /\ ~running /\ DOMAIN walk = {} /\ lost = {} /\ DOMAIN world = {} /\ config.present = {}
      /\ state = saved
      /\ \A r \in Res : state.current[r] = NoObject /\ state.deposed[r] = {}
  BY DEF Init, NoState, NoConfig
<1>2. OrderInv
  BY <1>1 DEF OrderInv, GraphOK, WalkOrder, DeposedOK, OldOK
<1>3. StateInv
  BY <1>1 DEF StateInv, Distinct, LostOK
<1>4. Tracked(saved) = {}
  BY <1>1, TrackedIs DEF At
<1> QED
  BY <1>1, <1>2, <1>3, <1>4 DEF ConvergenceInv, CleanOK, CleanRunConverges, Existing

\* The end of a run, or of the process, leaves nothing under way.
LEMMA IdleStarts ==
  ASSUME Idle
  PROVE  OrderInv' /\ CleanOK'
<1>1. ~running' /\ DOMAIN walk' = {}
  BY DEF Idle
<1> QED
  BY <1>1 DEF OrderInv, GraphOK, WalkOrder, DeposedOK, OldOK, CleanOK

\* Every step keeps the invariant.
LEMMA ConvergenceStep ==
  ASSUME TypeInv, NothingForgotten, ConvergenceInv, [Next]_vars
  PROVE  ConvergenceInv'
<1> USE DEF ConvergenceInv, StateInv
<1>1. CASE Plan
  <2>1. running'
    BY <1>1 DEF Plan
  <2> QED
    BY <1>1, <2>1, PlanStarts DEF CleanRunConverges
<1>2. ASSUME NEW n \in DOMAIN walk, NodeStep(n) PROVE ConvergenceInv'
  <2>1. OrderInv'
    BY <1>2, GraphNode, WalkOrderNode, DeposedNode, OldNode DEF OrderInv
  <2>2. Distinct(state') /\ LostOK' /\ CleanOK'
    BY <1>2, DistinctNode, LostNode, CleanNode
  <2>3. Distinct(saved')
    BY <1>2, <2>2, NodeStateFrame
  <2>4. CleanRunConverges'
    BY <1>2, NodeFrame DEF CleanRunConverges
  <2> QED
    BY <2>1, <2>2, <2>3, <2>4
<1>3. CASE Finish
  <2>1. Idle /\ state' = saved' /\ saved' \in {saved, state} /\ lost' = lost
        /\ clean' = (clean /\ ~Refused)
    BY <1>3 DEF Finish
  <2>2. LostOK'
    BY <2>1 DEF LostOK
  <2>3. CleanRunConverges'
    <3>1. CASE clean /\ ~Refused
      BY <1>3, <3>1, FinishConverges
    <3>2. CASE ~(clean /\ ~Refused)
      BY <2>1, <3>2 DEF CleanRunConverges
    <3> QED
      BY <3>1, <3>2
  <2>4. Distinct(state') /\ Distinct(saved')
    BY <2>1
  <2> QED
    BY <2>1, <2>2, <2>3, <2>4, IdleStarts
<1>4. CASE Crash
  <2>1. Idle /\ state' = saved /\ saved' = saved /\ ~clean'
        /\ lost' = lost \union (fresh \ Tracked(saved))
    BY <1>4 DEF Crash
  <2>2. LostOK'
    BY <2>1 DEF LostOK
  <2> QED
    BY <2>1, <2>2, IdleStarts DEF CleanRunConverges
<1>5. CASE UNCHANGED vars
  <2> USE <1>5 DEF vars
  <2>1. OrderInv'
    BY DEF OrderInv, GraphOK, WalkOrder, DeposedOK, OldOK, Pending, Refused
  <2>2. Distinct(state)' /\ Distinct(saved)' /\ LostOK'
    BY DEF LostOK
  <2>3. CleanOK'
    BY DEF CleanOK, Done, Good, Existing
  <2>4. CleanRunConverges'
    BY DEF CleanRunConverges, Existing
  <2> QED
    BY <2>1, <2>2, <2>3, <2>4
<1>6. ASSUME NEW n \in DOMAIN walk, StartFails(n) PROVE ConvergenceInv'
  <2>1. OrderInv'
    BY <1>6, StartFailsOrder
  <2>2. Distinct(state') /\ Distinct(saved') /\ LostOK'
    BY <1>6, StartFailsFrame DEF LostOK
  <2>3. CleanOK' /\ CleanRunConverges'
    BY <1>6, StartFailsFrame DEF CleanOK, CleanRunConverges
  <2> QED
    BY <2>1, <2>2, <2>3
<1> QED
  BY <1>1, <1>2, <1>3, <1>4, <1>5, <1>6 DEF Next, NodeStep

\* The invariant holds throughout.
LEMMA ConvergenceInvariant == Spec => []ConvergenceInv
<1>1. TypeInv /\ NothingForgotten /\ ConvergenceInv /\ [Next]_vars => ConvergenceInv'
  BY ConvergenceStep
<1> QED
  BY <1>1, ConvergenceInitial, TypeInvariant, NothingIsForgotten, PTL DEF Spec

\* CleanRunConverges: after a run in which nothing failed, whatever the runs before it left,
\* exactly the configured objects are left, none of them tainted, each with the dependencies
\* of the configuration and using the current objects.
THEOREM CleanRunsConverge == Spec => []CleanRunConverges
<1>1. ConvergenceInv => CleanRunConverges
  BY DEF ConvergenceInv
<1> QED
  BY <1>1, ConvergenceInvariant, PTL

-----------------------------------------------------------------------------
(***************************************************************************)
(* What uses an object goes, or is changed, before it.                     *)
(***************************************************************************)

\* The destroyer is that of an object which was current when the run began.
OfCurrent(m) == m.kind = "destroy" \/ Creator(m.res, m.id) \in DOMAIN walk

\* As long as an object waits for its destruction or update, the edges are those of the
\* dependencies that the state has for it.
EdgeOK == running =>
    \A n, m \in DOMAIN walk : n.kind # "create" =>
        /\ m.kind # "create" /\ OfCurrent(m) /\ Pending(m) /\ m # n =>
            (n.res \in Target(m).deps => <<n, m>> \in edges)
        /\ Updates(m) /\ walk[m] # "ok" /\ Pending(n) /\ (n.kind = "deposed" \/ Target(n).cbd) =>
            (n.res \in state.current[m.res].deps \union Dependencies(config, m.res) =>
                <<n, m>> \in edges)

\* If o uses the object of n the state says so.
Finds(o, n) == Target(n).id \in world[o.id] => n.res \in o.deps

\* As long as nothing has ever failed, the state has all that an object which waits for its
\* destruction or update uses.
UseOK == running /\ faults = 0 =>
    \A n, m \in DOMAIN walk : n.kind # "create" /\ Pending(n) =>
        /\ m.kind # "create" /\ Pending(m) => Finds(Target(m), n)
        /\ Updates(m) /\ walk[m] # "ok" => Finds(state.current[m.res], n)

\* The saved state is complete, and has all that an object uses.
Settled ==
    \A r \in Res :
        /\ saved.deposed[r] = {}
        /\ saved.current[r] # NoObject =>
            \A i \in world[saved.current[r].id] :
                \E d \in saved.current[r].deps : saved.current[d] # NoObject /\ saved.current[d].id = i

\* If nothing has ever failed, a run starts from such a state.
FaultFree == faults = 0 =>
    /\ running => clean
    /\ ~running \/ Refused => Settled

UseInv == EdgeOK /\ UseOK /\ FaultFree

\* The object a destroyer waits for.
LEMMA PendingTarget ==
  ASSUME TypeInv, Distinct(state), NEW m \in DOMAIN walk, m.kind # "create", Pending(m)
  PROVE  /\ m.res \in Res /\ m.kind \in {"destroy", "deposed"}
         /\ Target(m) \in Object /\ Target(m) # NoObject /\ At(state, m.res, Target(m).id)
         /\ Target(m) \in Objects(state, m.res)
         /\ m.kind = "destroy" => Target(m) = state.current[m.res]
         /\ m.kind = "deposed" => Target(m).id = m.id
<1>1. m.res \in Res /\ m.kind \in {"destroy", "deposed"} /\ state \in State
  BY DEF TypeInv, TypeOK, Node
<1>2. \A o \in Objects(state, m.res) : o \in Object /\ o # NoObject /\ At(state, m.res, o.id)
  BY <1>1, ApplyAssumption DEF Objects, State, At
<1>3. CASE m.kind = "destroy"
  <2>1. Target(m) = state.current[m.res] /\ state.current[m.res] # NoObject
    BY <1>3 DEF Target, TypeInv, DestroyersOK
  <2>2. Target(m) \in Objects(state, m.res)
    BY <2>1 DEF Objects
  <2> QED
    BY <1>1, <1>2, <1>3, <2>1, <2>2
<1>4. CASE m.kind = "deposed"
  <2>1. \E o \in Objects(state, m.res) : o.id = m.id
    BY <1>4 DEF Objects, TypeInv, DestroyersOK
  <2>2. Target(m) \in Objects(state, m.res) /\ Target(m).id = m.id
    BY <1>4, <2>1 DEF Target
  <2> QED
    BY <1>1, <1>2, <1>4, <2>2
<1> QED
  BY <1>1, <1>3, <1>4

\* In a state with distinct identities an identity names one object.
LEMMA ObjectOne ==
  ASSUME NEW s, Distinct(s), NEW r \in Res, NEW o \in Objects(s, r), NEW p \in Objects(s, r),
         o.id = p.id
  PROVE  o = p
BY DEF Distinct, Objects

\* No other node takes its object from a destroyer.
LEMMA ObjectStays ==
  ASSUME TypeInv, OrderInv, Distinct(state), NEW k \in DOMAIN walk, NodeStep(k),
         NEW m \in DOMAIN walk, m.kind = "deposed", Pending(m), Pending(m)'
  PROVE  Target(m) \in Objects(state', m.res)
<1> DEFINE r == m.res
           o == Target(m)
<1>1. r \in Res /\ o \in Objects(state, r) /\ o.id = m.id /\ o # NoObject /\ At(state, r, o.id)
  BY PendingTarget
<1>2. Frame(k.res) /\ running /\ walk[k] \in {"wait", "run"} /\ m \in Node /\ k \in Node
      /\ (~Start(k) => walk[k] = "run" /\ walk'[k] \in {"ok", "fail"})
  BY NodeFrame, NodeStateFrame DEF TypeInv, TypeOK
<1>3. CASE k.res # r
  BY <1>1, <1>2, <1>3 DEF Frame, Objects
<1>4. CASE k = m
  <2>1. Start(k)
    BY <1>2, <1>4 DEF Pending
  <2>2. state' = state
    BY <1>4, <2>1, StartState
  <2> QED
    BY <1>1, <2>2
<1>5. CASE k # m /\ k.res = r /\ k.kind = "create"
  <2>1. CASE Start(k)
    BY <1>1, <1>5, <2>1, StartState DEF Objects
  <2>2. CASE EndEarly(k)
    BY <1>1, <2>2 DEF EndEarly
  <2>3. CASE Create(k)
    BY <1>1, <1>5, <2>3, CreateState DEF Objects
  <2>4. CASE CreateNothing(k)
    <3>1. CASE state' = state
      BY <1>1, <3>1
    <3>2. CASE state' # state
      <4>1. /\ state.current[r] = NoObject /\ state'.current[r] # NoObject
            /\ state'.current[r] \in state.deposed[r] /\ state'.current[r].id = k.id
            /\ state'.deposed[r] = {x \in state.deposed[r] : x.id # k.id}
        BY <1>5, <2>4, <3>2, CreateNothingState
      <4>2. o \in state.deposed[r]
        BY <1>1, <4>1 DEF Objects
      <4>3. o.id = k.id => o = state'.current[r]
        BY <1>1, <4>1, <4>2 DEF Distinct
      <4> QED
        BY <4>1, <4>2, <4>3 DEF Objects
    <3> QED
      BY <3>1, <3>2
  <2>5. CASE Update(k)
    <3>1. change[r] # "CreateThenDelete"
      BY <1>5, <2>5 DEF Update, Updates
    <3>2. \E p \in state.deposed[r] : p.id = m.id
      BY <3>1 DEF TypeInv, DestroyersOK
    <3>3. o \in state.deposed[r]
      BY <1>1, <3>2 DEF Distinct, Objects
    <3> QED
      BY <1>5, <2>5, <3>3, UpdateState DEF Objects
  <2> QED
    BY <1>5, <2>1, <2>2, <2>3, <2>4, <2>5 DEF NodeStep, Destroy, DestroyFails
<1>6. CASE k # m /\ k.res = r /\ k.kind = "destroy"
  <2>1. change[r] # "CreateThenDelete"
    BY <1>6 DEF TypeInv, NodesOK
  <2>2. \E p \in state.deposed[r] : p.id = m.id
    BY <2>1 DEF TypeInv, DestroyersOK
  <2>3. o \in state.deposed[r]
    BY <1>1, <2>2 DEF Distinct, Objects
  <2>4. state'.deposed[r] = state.deposed[r]
    <3>1. CASE Start(k)
      BY <1>6, <3>1, StartState
    <3>2. CASE EndEarly(k)
      BY <3>2 DEF EndEarly
    <3>3. CASE Destroy(k)
      BY <1>6, <3>3, DestroyState
    <3>4. CASE DestroyFails(k)
      BY <1>6, <3>4, DestroyFailsState
    <3> QED
      BY <1>6, <3>1, <3>2, <3>3, <3>4
      DEF NodeStep, Create, CreateNothing, Update, Creates, Updates
  <2> QED
    BY <2>3, <2>4 DEF Objects
<1>7. CASE k # m /\ k.res = r /\ k.kind = "deposed"
  <2>1. k.id # m.id
    BY <1>2, <1>7 DEF Node
  <2>2. CASE Start(k)
    BY <1>1, <1>7, <2>2, StartState
  <2>3. CASE EndEarly(k)
    BY <1>1, <2>3 DEF EndEarly
  <2>4. CASE Destroy(k)
    BY <1>1, <1>7, <2>1, <2>4, DestroyState DEF Objects
  <2>5. CASE DestroyFails(k)
    BY <1>1, <1>7, <2>1, <2>5, DestroyFailsState DEF Objects
  <2> QED
    BY <1>7, <2>2, <2>3, <2>4, <2>5
    DEF NodeStep, Create, CreateNothing, Update, Creates, Updates
<1> QED
  BY <1>2, <1>3, <1>4, <1>5, <1>6, <1>7 DEF Node

\* A destroyer that waits or runs keeps its object, as it is.
LEMMA TargetKept ==
  ASSUME TypeInv, OrderInv, Distinct(state), Distinct(state'), NEW k \in DOMAIN walk, NodeStep(k),
         NEW m \in DOMAIN walk, m.kind # "create", Pending(m)'
  PROVE  Pending(m) /\ Target(m)' = Target(m) /\ At(state', m.res, Target(m).id)
<1>1. Pending(m) /\ (k = m => Start(k))
  BY NodeFrame DEF Pending
<1>2. m.res \in Res /\ m.kind \in {"destroy", "deposed"} /\ k.kind \in {"create", "destroy", "deposed"}
      /\ Frame(k.res)
  BY NodeStateFrame DEF TypeInv, TypeOK, Node
<1>3. CASE m.kind = "destroy"
  <2>1. state'.current[m.res] = state.current[m.res]
    <3>1. CASE k.res # m.res
      BY <1>2, <3>1 DEF Frame
    <3>2. CASE k.res = m.res /\ k.kind = "deposed"
      BY <3>2, CurrentKept
    <3>3. CASE k.res = m.res /\ k.kind = "destroy"
      <4>1. k = m
        BY <1>3, <3>3 DEF TypeInv, NodesOK
      <4> QED
        BY <1>1, <1>3, <4>1, StartState
    <3>4. CASE k.res = m.res /\ k.kind = "create"
      <4>1. m = Destroyer(m.res) /\ change[m.res] = "DeleteThenCreate"
        BY <1>3, <3>4 DEF TypeInv, NodesOK, Creating, IsReplace
      <4>2. walk[k] # "run"
        BY <1>1, <3>4, <4>1 DEF TypeInv, CreatorsOK, Pending
      <4>3. Start(k)
        BY <4>2, NodeFrame
      <4> QED
        BY <3>4, <4>1, <4>3, StartState
    <3> QED
      BY <1>2, <3>1, <3>2, <3>3, <3>4
  <2>2. Target(m) = state.current[m.res] /\ Target(m) # NoObject
    BY <1>1, <1>3, PendingTarget
  <2> QED
    BY <1>1, <1>3, <2>1, <2>2 DEF Target, At
<1>4. CASE m.kind = "deposed"
  <2>1. Target(m).id = m.id
    BY <1>1, <1>4, PendingTarget
  <2>2. Target(m) \in Objects(state', m.res)
    BY <1>1, <1>4, ObjectStays
  <2>3. Target(m)' = CHOOSE o \in Objects(state', m.res) : o.id = m.id
    BY <1>4 DEF Target, Objects
  <2>4. Target(m)' \in Objects(state', m.res) /\ Target(m)'.id = m.id
    BY <2>1, <2>2, <2>3
  <2>5. Target(m)' = Target(m)
    BY <1>2, <2>1, <2>2, <2>4, ObjectOne
  <2> QED
    BY <1>1, <2>2, <2>5 DEF Objects, At
<1> QED
  BY <1>2, <1>3, <1>4

\* A resource whose update has not succeeded keeps its object, with the dependencies that the
\* state had, or after a failure those of the configuration.
LEMMA UpdaterKept ==
  ASSUME TypeInv, NEW k \in DOMAIN walk, NodeStep(k),
         NEW m \in DOMAIN walk, Updates(m), walk'[m] # "ok"
  PROVE  /\ walk[m] # "ok" /\ m.res \in Res
         /\ \/ state'.current[m.res] = state.current[m.res]
            \/ /\ state'.current[m.res].deps = Dependencies(config, m.res)
               /\ state'.current[m.res].id = state.current[m.res].id
               /\ k = m /\ walk'[k] = "fail"
<1>1. m.res \in Res /\ m.kind = "create" /\ change[m.res] = "Update" /\ state \in State
  BY DEF Updates, TypeInv, TypeOK, Node
<1>2. walk[m] # "ok"
  BY NodeFrame
<1>3. CASE ~(Update(k) /\ k.res = m.res)
  BY <1>1, <1>2, <1>3, UpdateStays
<1>4. CASE Update(k) /\ k.res = m.res
  <2>1. k = m
    BY <1>1, <1>4 DEF Update, Updates, TypeInv, NodesOK
  <2>2. walk'[k] = "fail"
    BY <1>4, <2>1, NodeFrame DEF Start, Update, Ends
  <2>3. PICK returned \in BOOLEAN :
          state' = [state EXCEPT !.current[m.res] =
                        IF returned THEN Result(m, state.current[m.res].id, state.current[m.res].tainted)
                        ELSE [state.current[m.res] EXCEPT !.deps = Dependencies(config, m.res)]]
    BY <1>4, <2>1 DEF Update
  <2>4. state.current[m.res] \in Object
    BY <1>1, <1>4, UpdateState DEF State
  <2>5. state'.current[m.res] =
          IF returned THEN Result(m, state.current[m.res].id, state.current[m.res].tainted)
          ELSE [state.current[m.res] EXCEPT !.deps = Dependencies(config, m.res)]
    BY <1>1, <2>3 DEF State
  <2>6. state'.current[m.res].deps = Dependencies(config, m.res)
        /\ state'.current[m.res].id = state.current[m.res].id
    <3>1. CASE returned
      BY <2>5, <3>1, ResultIs
    <3>2. CASE ~returned
      BY <2>4, <2>5, <3>2 DEF Object
    <3> QED
      BY <3>1, <3>2
  <2> QED
    BY <1>1, <1>2, <2>1, <2>2, <2>6
<1> QED
  BY <1>3, <1>4

\* The edges stay those of the state.
LEMMA EdgeNode ==
  ASSUME TypeInv, OrderInv, Distinct(state), Distinct(state'), EdgeOK,
         NEW k \in DOMAIN walk, NodeStep(k)
  PROVE  EdgeOK'
<1>1. /\ running /\ change' = change /\ edges' = edges /\ config' = config
      /\ DOMAIN walk' = DOMAIN walk
  BY NodeFrame
<1>2. ASSUME NEW n \in DOMAIN walk, NEW m \in DOMAIN walk, n.kind # "create",
             m.kind # "create", OfCurrent(m), Pending(m)', m # n, n.res \in Target(m)'.deps
      PROVE  <<n, m>> \in edges
  BY <1>1, <1>2, TargetKept DEF EdgeOK
<1>3. ASSUME NEW n \in DOMAIN walk, NEW m \in DOMAIN walk, n.kind # "create",
             Updates(m), walk'[m] # "ok", Pending(n)', n.kind = "deposed" \/ Target(n)'.cbd,
             n.res \in state'.current[m.res].deps \union Dependencies(config, m.res)
      PROVE  <<n, m>> \in edges
  <2>1. Pending(n) /\ Target(n)' = Target(n)
    BY <1>3, TargetKept
  <2>2. /\ walk[m] # "ok"
        /\ \/ state'.current[m.res] = state.current[m.res]
           \/ state'.current[m.res].deps = Dependencies(config, m.res)
    BY <1>3, UpdaterKept
  <2>3. n.res \in state.current[m.res].deps \union Dependencies(config, m.res)
    BY <1>3, <2>2
  <2> QED
    BY <1>1, <1>3, <2>1, <2>2, <2>3 DEF EdgeOK
<1>4. \A m : OfCurrent(m)' <=> OfCurrent(m)
  BY <1>1 DEF OfCurrent
<1>5. \A m : Updates(m)' <=> Updates(m)
  BY <1>1 DEF Updates
<1> QED
  BY <1>1, <1>2, <1>3, <1>4, <1>5 DEF EdgeOK

\* If nothing fails, only an update of it changes what an object uses.
LEMMA WorldKept ==
  ASSUME TypeInv, CleanOK, NEW k \in DOMAIN walk, NodeStep(k), clean', NEW i \in Tracked(state),
         Update(k) => i # state.current[k.res].id,
         Destroy(k) => i # Target(k).id
  PROVE  world'[i] = world[i]
<1>1. clean /\ running /\ (Start(k) \/ Create(k) \/ Update(k) \/ Destroy(k))
  BY CleanStep, NodeFrame
<1>2. i \in Existing
  BY <1>1 DEF CleanOK
<1>3. CASE Start(k)
  BY <1>3 DEF Start
<1>4. CASE Create(k)
  BY <1>2, <1>4, NewIdType DEF Create, TypeInv
<1>5. CASE Update(k)
  <2>1. k.res \in Res /\ state.current[k.res] # NoObject
    BY <1>5, UpdateState
  <2>2. At(state, k.res, state.current[k.res].id)
    BY <2>1 DEF At
  <2>3. state.current[k.res].id \in Existing
    BY <1>1, <2>1, <2>2, TrackedIs DEF CleanOK
  <2>4. world' = [world EXCEPT ![state.current[k.res].id] = Uses(config, state, k.res)]
    BY <1>5, <2>3, UpdateDone
  <2> QED
    BY <1>5, <2>4
<1>6. CASE Destroy(k)
  BY <1>2, <1>6 DEF Destroy, Without
<1> QED
  BY <1>1, <1>3, <1>4, <1>5, <1>6

\* An update that changes the object of m would be that of m itself.
LEMMA UpdateOfOther ==
  ASSUME TypeInv, Distinct(state), NEW k \in DOMAIN walk, Update(k),
         NEW m \in DOMAIN walk, m.kind # "create", Pending(m)
  PROVE  Target(m).id # state.current[k.res].id
<1> SUFFICES ASSUME Target(m).id = state.current[k.res].id PROVE FALSE
  OBVIOUS
<1>1. k.res \in Res /\ state.current[k.res] # NoObject
  BY UpdateState
<1>2. /\ m.res \in Res /\ At(state, m.res, Target(m).id) /\ m.kind \in {"destroy", "deposed"}
      /\ m.kind = "deposed" => Target(m).id = m.id
  BY PendingTarget
<1>3. m.res = k.res
  <2>1. At(state, k.res, Target(m).id)
    BY <1>1 DEF At
  <2> QED
    BY <1>1, <1>2, <2>1, AtOne
<1>4. change[m.res] = "Update"
  BY <1>3 DEF Update, Updates
<1>5. m.kind = "deposed"
  BY <1>2, <1>4 DEF TypeInv, NodesOK
<1>6. \E o \in state.deposed[m.res] : o.id = m.id
  BY <1>4, <1>5 DEF TypeInv, DestroyersOK
<1> QED
  BY <1>1, <1>2, <1>3, <1>5, <1>6 DEF Distinct

\* As long as nothing fails the state knows what is used.
LEMMA UseNode ==
  ASSUME TypeInv, OrderInv, Distinct(state), Distinct(state'), CleanOK, UseOK, FaultFree,
         NEW k \in DOMAIN walk, NodeStep(k)
  PROVE  UseOK' /\ FaultFree'
<1>1. /\ running /\ running' /\ change' = change /\ DOMAIN walk' = DOMAIN walk
      /\ ~Refused'
  BY NodeFrame, NotRefused
<1>2. ASSUME faults' = 0 PROVE faults = 0 /\ clean'
  <2>1. faults \in Nat
    BY DEF TypeInv, TypeOK
  <2>2. CASE Start(k)
    BY <1>1, <1>2, <2>2 DEF Start, hist, FaultFree
  <2>3. ASSUME NEW ok \in BOOLEAN, Ends(k, ok) PROVE faults = 0 /\ clean'
    BY <1>1, <1>2, <2>1, <2>3 DEF Ends, FaultFree
  <2>4. ~Start(k) => \E ok \in BOOLEAN : Ends(k, ok)
    BY DEF NodeStep, EndEarly, Create, CreateNothing, Update, Destroy, DestroyFails
  <2> QED
    BY <2>2, <2>3, <2>4
<1>3. FaultFree'
  BY <1>1, <1>2 DEF FaultFree
<1> SUFFICES ASSUME faults' = 0, NEW n \in DOMAIN walk, NEW m \in DOMAIN walk,
                    n.kind # "create", Pending(n)'
             PROVE  /\ m.kind # "create" /\ Pending(m)' => Finds(Target(m), n)'
                    /\ Updates(m) /\ walk'[m] # "ok" => Finds(state.current[m.res], n)'
  BY <1>1, <1>3 DEF UseOK, Updates
<1>4. faults = 0 /\ clean /\ clean'
  BY <1>1, <1>2 DEF FaultFree
<1>5. Pending(n) /\ Target(n)' = Target(n)
  BY TargetKept
<1>6. ASSUME Destroy(k) PROVE Target(k).id \notin Tracked(state')
  BY <1>6, DestroyUntracks
<1>7. ASSUME m.kind # "create", Pending(m)' PROVE Finds(Target(m), n)'
  <2>1. Pending(m) /\ Target(m)' = Target(m) /\ At(state', m.res, Target(m).id)
    BY <1>7, TargetKept
  <2>2. m.res \in Res /\ At(state, m.res, Target(m).id)
    BY <1>7, <2>1, PendingTarget
  <2>3. Target(m).id \in Tracked(state) /\ Target(m).id \in Tracked(state')
    BY <2>1, <2>2, TrackedIs
  <2>4. Update(k) => Target(m).id # state.current[k.res].id
    BY <1>7, <2>1, UpdateOfOther
  <2>5. world'[Target(m).id] = world[Target(m).id]
    BY <1>4, <1>6, <2>3, <2>4, WorldKept
  <2>6. Finds(Target(m), n)
    BY <1>1, <1>4, <1>5, <1>7, <2>1 DEF UseOK
  <2> QED
    BY <1>5, <2>1, <2>5, <2>6 DEF Finds
<1>8. ASSUME Updates(m), walk'[m] # "ok" PROVE Finds(state.current[m.res], n)'
  <2> DEFINE o == state.current[m.res]
  <2>1. walk[m] # "ok" /\ m.res \in Res /\ state'.current[m.res] = o
    <3>1. walk'[k] # "fail"
      BY <1>4, CleanStep
    <3> QED
      BY <1>8, <3>1, UpdaterKept
  <2>2. o # NoObject
    BY <1>1, <1>4, <1>8, <2>1 DEF CleanOK, Updates
  <2>3. o.id \in Tracked(state) /\ o.id \in Tracked(state')
    BY <2>1, <2>2, TrackedIs DEF At
  <2>4. ASSUME Update(k) PROVE o.id # state.current[k.res].id
    <3>1. k.res \in Res /\ state.current[k.res] # NoObject
      BY <2>4, UpdateState
    <3>2. k.res = m.res => k = m
      BY <1>8, <2>4 DEF Update, Updates, TypeInv, NodesOK
    <3>3. walk'[k] = "ok"
      BY <1>4, <2>4, CleanStep DEF Update, Ends, Start, Ready
    <3>4. k.res # m.res
      BY <1>8, <3>2, <3>3
    <3> QED
      BY <2>1, <2>2, <3>1, <3>4 DEF Distinct
  <2>5. world'[o.id] = world[o.id]
    BY <1>4, <1>6, <2>3, <2>4, WorldKept
  <2>6. Finds(o, n)
    BY <1>1, <1>4, <1>5, <1>8, <2>1 DEF UseOK
  <2> QED
    BY <1>5, <2>1, <2>5, <2>6 DEF Finds
<1> QED
  BY <1>7, <1>8

\* The edges that the dependencies in the state lead to: a destroyer depends on the
\* destroyers of what uses its resource and, if it is create_before_destroy, on the creators.
LEMMA DestroyerEdges ==
  ASSUME NEW c, NEW s, NEW chg, NEW n \in DiffNodes(chg, s), NEW m \in DiffNodes(chg, s),
         n.kind # "create", s.current[m.res] # NoObject, n.res \in s.current[m.res].deps
  PROVE  /\ m.kind # "create" => <<n, m>> \in GraphEdges(c, s, chg)
         /\ m.kind = "create" /\ DestroyCBD(s, n) => <<n, m>> \in GraphEdges(c, s, chg)
<1> DEFINE N == DiffNodes(chg, s)
           E == ReferenceEdges(c, N) \union DestroyEdges(c, s, N)
           I == {e \in E : e[1].kind = "create" /\ e[2].kind # "create" /\ DestroyCBD(s, e[2])}
<1>1. GraphEdges(c, s, chg) = (E \ I) \union {<<e[2], e[1]>> : e \in I}
  BY DEF GraphEdges, CBDEdges
<1>2. n.res \in StateDependencies(c, s, m)
  BY DEF StateDependencies
<1>3. m.kind # "create" => <<n, m>> \in E
  BY <1>2 DEF DestroyEdges
<1>4. m.kind = "create" => <<m, n>> \in E
  BY <1>2 DEF DestroyEdges
<1> HIDE DEF E
<1>5. m.kind # "create" => <<n, m>> \in E \ I
  BY <1>3
<1>6. m.kind = "create" /\ DestroyCBD(s, n) => <<m, n>> \in I
  BY <1>4
<1> HIDE DEF I
<1> QED
  BY <1>1, <1>5, <1>6

\* Refreshing keeps the dependencies in the state, and adds those of the configuration.
LEMMA RefreshedDeps ==
  ASSUME NEW s \in State, NEW c, NEW r \in Res, Refreshed(c, s).current[r] # NoObject
  PROVE  /\ s.current[r].deps \subseteq Refreshed(c, s).current[r].deps
         /\ r \in c.present => Dependencies(c, r) \subseteq Refreshed(c, s).current[r].deps
<1> DEFINE v == [s.current[r] EXCEPT !.cbd = PlanCBD(c, r), !.deps = @ \union Dependencies(c, r)]
<1>1. Refreshed(c, s).current[r] =
        IF s.current[r] = NoObject \/ s.current[r].id \notin Existing THEN NoObject
        ELSE IF r \in c.present THEN v ELSE s.current[r]
  BY DEF Refreshed
<1>2. s.current[r] # NoObject
  BY <1>1
<1>3. s.current[r] \in Object
  BY <1>2 DEF State
<1>4. v.deps = s.current[r].deps \union Dependencies(c, r)
  BY <1>3 DEF Object
<1> HIDE DEF v
<1> QED
  BY <1>1, <1>4

\* A plan sets up the edges of the dependencies in the state, and a state that is complete
\* has all of them.
LEMMA PlanUses ==
  ASSUME TypeInv, Distinct(saved), LostOK, FaultFree, Plan
  PROVE  UseInv'
<1>1. PICK c \in Configs, chg \in [Res -> Actions] :
        LET s == Refreshed(c, saved) IN
         /\ \A r \in Res : chg[r] \in PlannedAction(c, s, chg, r)
         /\ config' = c
         /\ change' = chg
         /\ state' = Finalised(c, s, chg)
         /\ edges' = GraphEdges(c, state', chg)
         /\ walk' = [n \in DiffNodes(chg, s) |->
                        IF Acyclic(DiffNodes(chg, s), edges') THEN "wait" ELSE "refused"]
  BY DEF Plan
<1> DEFINE s == Refreshed(c, saved)
           N == DiffNodes(chg, s)
<1>2. /\ saved \in State /\ running' /\ clean' /\ ~running
      /\ saved' = saved /\ world' = world /\ faults' = faults
  BY DEF Plan, TypeInv, TypeOK
<1>3. /\ state' \in State
      /\ \A r \in Res :
           /\ state'.deposed[r] = {o \in saved.deposed[r] : o.id \in Existing}
           /\ state'.current[r] # NoObject => saved.current[r] # NoObject
           /\ state'.current[r] # NoObject => state'.current[r].id = saved.current[r].id
           /\ chg[r] # "NoOp" => state'.current[r] = s.current[r]
           /\ s.current[r] = NoObject <=> state'.current[r] = NoObject
  BY <1>1, <1>2, PlannedState
<1>4. \A r \in Res : /\ s.current[r] = NoObject <=> chg[r] \in {"None", "Create"}
                     /\ r \in c.present <=> chg[r] \notin {"None", "Delete"}
  BY <1>1, PlannedChange, PlannedWhy
<1>5. /\ DiffNodes(chg, state') = N
      /\ \A m : m \in N <=>
         /\ m \in Node
         /\ \/ /\ m.kind = "create" /\ m.res \in Creating(chg)
               /\ m.id = IF chg[m.res] = "CreateThenDelete" THEN state'.current[m.res].id ELSE 0
            \/ m.kind = "destroy" /\ m.id = 0 /\ chg[m.res] \in {"Delete", "DeleteThenCreate"}
            \/ /\ m.kind = "deposed"
               /\ \/ chg[m.res] = "CreateThenDelete" /\ m.id = state'.current[m.res].id
                  \/ \E o \in state'.deposed[m.res] : o.id = m.id
  BY <1>1, <1>2, PlanNodes
<1>6. \A r \in Res : s.current[r] # NoObject =>
        /\ saved.current[r].deps \subseteq s.current[r].deps
        /\ r \in c.present => Dependencies(c, r) \subseteq s.current[r].deps
  BY <1>2, RefreshedDeps
<1>7. config' = c /\ change' = chg /\ edges' = GraphEdges(c, state', chg) /\ DOMAIN walk' = N
  BY <1>1
<1>8. Distinct(state')
  BY PlanStarts
<1> HIDE DEF s, N
<1>9. ASSUME NEW m \in N, m.kind # "create",
             m.kind = "destroy" \/ Creator(m.res, m.id) \in N \/ state'.deposed[m.res] = {}
      PROVE  /\ m.res \in Res /\ chg[m.res] \in {"Delete", "DeleteThenCreate", "CreateThenDelete"}
             /\ state'.current[m.res] # NoObject /\ Target(m)' = state'.current[m.res]
  <2>1. m \in Node /\ m.res \in Res
    BY <1>5 DEF Node
  <2>2. CASE m.kind = "destroy"
    BY <1>3, <1>4, <1>5, <2>1, <2>2 DEF Target
  <2>3. CASE m.kind = "deposed"
    <3>1. chg[m.res] = "CreateThenDelete" /\ m.id = state'.current[m.res].id
      <4>1. CASE state'.deposed[m.res] = {}
        BY <1>5, <2>3, <4>1
      <4>2. CASE Creator(m.res, m.id) \in N /\ state'.deposed[m.res] # {}
        <5>1. Creator(m.res, m.id).kind = "create" /\ Creator(m.res, m.id).res = m.res
              /\ Creator(m.res, m.id).id = m.id
          BY DEF Creator
        <5>2. m.id = IF chg[m.res] = "CreateThenDelete" THEN state'.current[m.res].id ELSE 0
          BY <1>5, <4>2, <5>1
        <5>3. \A o \in state'.deposed[m.res] : o.id # 0
          BY <1>3, <2>1 DEF State, Object
        <5> QED
          BY <1>5, <2>3, <5>2, <5>3
      <4> QED
        BY <1>9, <2>3, <4>1, <4>2
    <3>2. state'.current[m.res] # NoObject
      BY <1>3, <1>4, <2>1, <3>1
    <3>3. state'.current[m.res] \in Objects(state', m.res)
      BY <3>2 DEF Objects
    <3>4. Target(m)' = CHOOSE o \in Objects(state', m.res) : o.id = m.id
      BY <2>3 DEF Target, Objects
    <3>5. Target(m)' \in Objects(state', m.res) /\ Target(m)'.id = m.id
      BY <3>1, <3>3, <3>4
    <3>6. Target(m)' = state'.current[m.res]
      BY <1>8, <2>1, <3>1, <3>3, <3>5, ObjectOne
    <3> QED
      BY <2>1, <3>1, <3>2, <3>6
  <2> QED
    BY <1>9, <2>1, <2>2, <2>3 DEF Node
<1>10. EdgeOK'
  <2>1. ASSUME NEW n \in N, NEW m \in N, n.kind # "create", m.kind # "create",
               m.kind = "destroy" \/ Creator(m.res, m.id) \in N, n.res \in Target(m)'.deps
        PROVE  <<n, m>> \in edges'
    <3>1. state'.current[m.res] # NoObject /\ Target(m)' = state'.current[m.res]
      BY <1>9, <2>1
    <3> QED
      BY <1>5, <1>7, <2>1, <3>1, DestroyerEdges
  <2>2. ASSUME NEW n \in N, NEW m \in N, n.kind # "create", m.kind = "create",
               chg[m.res] = "Update", n.kind = "deposed" \/ Target(n)'.cbd,
               n.res \in state'.current[m.res].deps \union Dependencies(c, m.res)
        PROVE  <<n, m>> \in edges'
    <3>1. m.res \in Res /\ n.kind \in {"destroy", "deposed"}
      BY <1>5, <2>2 DEF Node
    <3>2. state'.current[m.res] # NoObject /\ n.res \in state'.current[m.res].deps
      BY <1>3, <1>4, <1>6, <2>2, <3>1
    <3>3. DestroyCBD(state', n)
      BY <1>9, <2>2, <3>1 DEF DestroyCBD
    <3> QED
      BY <1>5, <1>7, <2>2, <3>2, <3>3, DestroyerEdges
  <2>3. \A m : OfCurrent(m)' <=> m.kind = "destroy" \/ Creator(m.res, m.id) \in N
    BY <1>7 DEF OfCurrent
  <2>4. \A m : Updates(m)' <=> m.kind = "create" /\ chg[m.res] = "Update"
    BY <1>7 DEF Updates
  <2> QED
    BY <1>7, <2>1, <2>2, <2>3, <2>4 DEF EdgeOK
<1>11. UseOK'
  <2> SUFFICES ASSUME faults = 0, NEW n \in N, NEW m \in N, n.kind # "create"
               PROVE  /\ m.kind # "create" => Finds(Target(m), n)'
                      /\ Updates(m)' => Finds(state.current[m.res], n)'
    BY <1>2, <1>7 DEF UseOK
  <2>1. Settled
    BY <1>2 DEF FaultFree
  <2>2. \A r \in Res : state'.deposed[r] = {}
    BY <1>3, <2>1 DEF Settled
  <2>3. n.res \in Res /\ m.res \in Res
    BY <1>5 DEF Node
  <2>4. state'.current[n.res] # NoObject /\ Target(n)' = state'.current[n.res]
    BY <1>9, <2>2, <2>3
  <2>5. ASSUME state'.current[m.res] # NoObject, chg[m.res] # "NoOp"
        PROVE  Finds(state.current[m.res], n)'
    <3> SUFFICES ASSUME state'.current[n.res].id \in world[state'.current[m.res].id]
                 PROVE  n.res \in state'.current[m.res].deps
      BY <1>2, <2>4 DEF Finds
    <3>1. saved.current[n.res] # NoObject /\ saved.current[m.res] # NoObject
          /\ saved.current[n.res].id \in world[saved.current[m.res].id]
      BY <1>3, <2>3, <2>4, <2>5
    <3>2. PICK d \in saved.current[m.res].deps :
            saved.current[d] # NoObject /\ saved.current[d].id = saved.current[n.res].id
      BY <2>1, <2>3, <3>1 DEF Settled
    <3>3. d \in Res
      BY <1>2, <2>3, <3>1 DEF State, Object
    <3>4. d = n.res
      BY <2>3, <3>1, <3>2, <3>3 DEF Distinct
    <3> QED
      BY <1>3, <1>6, <2>3, <2>5, <3>2, <3>4
  <2>6. ASSUME m.kind # "create" PROVE Finds(Target(m), n)'
    <3>1. /\ Target(m)' = state'.current[m.res] /\ state'.current[m.res] # NoObject
          /\ chg[m.res] # "NoOp"
      BY <1>9, <2>2, <2>3, <2>6
    <3> QED
      BY <2>5, <3>1 DEF Finds
  <2>7. ASSUME Updates(m)' PROVE Finds(state.current[m.res], n)'
    <3>1. chg[m.res] = "Update"
      BY <1>7, <2>7 DEF Updates
    <3>2. state'.current[m.res] # NoObject
      BY <1>3, <1>4, <2>3, <3>1
    <3> QED
      BY <2>5, <3>1, <3>2
  <2> QED
    BY <2>6, <2>7
<1>12. FaultFree'
  <2>1. Settled => Settled'
    BY <1>2 DEF Settled
  <2> QED
    BY <1>2, <2>1 DEF FaultFree
<1> QED
  BY <1>10, <1>11, <1>12 DEF UseInv

\* A run that ends without any failure leaves a complete state.
LEMMA FinishSettles ==
  ASSUME TypeInv, NothingForgotten, ConvergenceInv, FaultFree, Finish
  PROVE  FaultFree'
<1> SUFFICES ASSUME faults' = 0 PROVE ~running' /\ Settled'
  BY DEF FaultFree
<1>1. /\ running /\ ~running' /\ faults = 0 /\ world' = world /\ config' = config
      /\ saved' = IF Refused THEN saved ELSE state
      /\ clean' = (clean /\ ~Refused)
  BY DEF Finish, Idle, hist
<1>2. CASE Refused
  BY <1>1, <1>2 DEF FaultFree, Settled
<1>3. CASE ~Refused
  <2>1. clean
    BY <1>1 DEF FaultFree
  <2>2. CleanRunConverges'
    BY <1>3, <2>1, FinishConverges DEF ConvergenceInv, StateInv
  <2>3. clean'
    BY <1>1, <1>3, <2>1
  <2>4. config \in Configs
    BY <1>1 DEF ConvergenceInv, OrderInv, GraphOK
  <2>5. \A r \in Res :
          /\ saved'.deposed[r] = {}
          /\ saved'.current[r] # NoObject =>
               /\ saved'.current[r].deps = Dependencies(config, r)
               /\ world[saved'.current[r].id] = Uses(config, saved', r)
    BY <1>1, <2>2, <2>3 DEF CleanRunConverges
  <2>6. ASSUME NEW r \in Res, saved'.current[r] # NoObject, NEW i \in world[saved'.current[r].id]
        PROVE  \E d \in saved'.current[r].deps :
                 saved'.current[d] # NoObject /\ saved'.current[d].id = i
    <3>1. PICK d \in config.refs[r] : saved'.current[d] # NoObject /\ saved'.current[d].id = i
      BY <2>5, <2>6 DEF Uses
    <3>2. d \in Dependencies(config, r)
      BY <2>4, <3>1, RefsAreDependencies
    <3> QED
      BY <2>5, <2>6, <3>1, <3>2
  <2> QED
    BY <1>1, <2>5, <2>6 DEF Settled
<1> QED
  BY <1>1, <1>2, <1>3

\* Every step keeps the invariant.
LEMMA UseStep ==
  ASSUME TypeInv, NothingForgotten, ConvergenceInv, ConvergenceInv', UseInv, [Next]_vars
  PROVE  UseInv'
<1>1. Distinct(state) /\ Distinct(saved) /\ Distinct(state') /\ OrderInv /\ CleanOK /\ LostOK
  BY DEF ConvergenceInv, StateInv
<1>2. CASE Plan
  BY <1>1, <1>2, PlanUses DEF UseInv
<1>3. ASSUME NEW n \in DOMAIN walk, NodeStep(n) PROVE UseInv'
  BY <1>1, <1>3, EdgeNode, UseNode DEF UseInv
<1>4. CASE Finish
  <2>1. ~running'
    BY <1>4 DEF Finish, Idle
  <2>2. FaultFree'
    BY <1>4, FinishSettles DEF UseInv
  <2> QED
    BY <2>1, <2>2 DEF UseInv, EdgeOK, UseOK
<1>5. CASE Crash
  <2>1. ~running' /\ faults' = faults + 1 /\ faults \in Nat
    BY <1>5 DEF Crash, Idle, TypeInv, TypeOK
  <2>2. faults' # 0
    BY <2>1
  <2> QED
    BY <2>1, <2>2 DEF UseInv, EdgeOK, UseOK, FaultFree
<1>6. CASE UNCHANGED vars
  <2> USE <1>6 DEF vars
  <2>1. \A n : Target(n)' = Target(n)
    BY DEF Target, Objects
  <2>2. EdgeOK'
    BY <2>1 DEF UseInv, EdgeOK, OfCurrent, Pending, Updates
  <2>3. UseOK'
    BY <2>1 DEF UseInv, UseOK, Finds, Pending, Updates
  <2>4. FaultFree'
    BY DEF UseInv, FaultFree, Settled, Refused
  <2> QED
    BY <2>2, <2>3, <2>4 DEF UseInv
<1>7. ASSUME NEW n \in DOMAIN walk, StartFails(n) PROVE UseInv'
  <2>1. /\ running /\ UNCHANGED <<config, change, edges, state>> /\ DOMAIN walk' = DOMAIN walk
        /\ \A m \in DOMAIN walk : walk'[m] \in {"wait", "run"} => walk'[m] = walk[m]
        /\ \A m \in DOMAIN walk : walk'[m] # "ok" => walk[m] # "ok"
    BY <1>7, StartFailsFrame
  <2>2. \A m : Target(m)' = Target(m)
    BY <2>1 DEF Target, Objects
  <2>3. EdgeOK'
    BY <2>1, <2>2 DEF UseInv, EdgeOK, OfCurrent, Pending, Updates
  <2>4. UseOK' /\ FaultFree'
    BY <1>7, StartFailsFrame DEF UseOK, FaultFree
  <2> QED
    BY <2>3, <2>4 DEF UseInv
<1> QED
  BY <1>2, <1>3, <1>4, <1>5, <1>6, <1>7 DEF Next, NodeStep

\* The order of the walk is that of the dependencies throughout.
LEMMA UseInvariant == Spec => []UseInv
<1>1. Init => UseInv
  <2> SUFFICES ASSUME Init PROVE UseInv
    OBVIOUS
  <2>1. ~running /\ \A r \in Res : saved.current[r] = NoObject /\ saved.deposed[r] = {}
    BY DEF Init, NoState
  <2> QED
    BY <2>1 DEF UseInv, EdgeOK, UseOK, FaultFree, Settled
<1>2. TypeInv /\ NothingForgotten /\ ConvergenceInv /\ ConvergenceInv' /\ UseInv /\ [Next]_vars
        => UseInv'
  BY UseStep
<1> QED
  BY <1>1, <1>2, TypeInvariant, NothingIsForgotten, ConvergenceInvariant, PTL DEF Spec

\* UsersDestroyedFirst: of two objects that a run destroys, the one that uses the other goes
\* first, if the state tells of the use or nothing has ever failed.
THEOREM UsersAreDestroyedFirst == Spec => []UsersDestroyedFirst
<1>1. TypeInv /\ ConvergenceInv /\ UseInv => UsersDestroyedFirst
  <2> SUFFICES ASSUME TypeInv, ConvergenceInv, UseInv,
                      NEW n \in DOMAIN walk, NEW m \in DOMAIN walk,
                      n.kind # "create", walk[n] = "run",
                      m.kind # "create", Pending(m), m # n, OfCurrent(m),
                      Recorded(Target(m), n.res), Target(n).id \in world[Target(m).id]
               PROVE  FALSE
    BY DEF UsersDestroyedFirst, Pending, OfCurrent
  <2>1. running /\ Pending(n)
    BY DEF TypeInv, IdleOK, Pending
  <2>2. n.res \in Target(m).deps
    BY <2>1 DEF Recorded, UseInv, UseOK, Finds
  <2>3. <<n, m>> \in edges
    BY <2>1, <2>2 DEF UseInv, EdgeOK
  <2>4. walk[m] = "ok"
    BY <2>3 DEF ConvergenceInv, OrderInv, WalkOrder
  <2> QED
    BY <2>4 DEF Pending
<1> QED
  BY <1>1, TypeInvariant, ConvergenceInvariant, UseInvariant, PTL

\* UsersUpdatedFirst: an object that is create_before_destroy is destroyed only after the
\* updates that make others stop using it, if the state tells of the use or nothing has
\* ever failed.
THEOREM UsersAreUpdatedFirst == Spec => []UsersUpdatedFirst
<1>1. TypeInv /\ ConvergenceInv /\ UseInv => UsersUpdatedFirst
  <2> SUFFICES ASSUME TypeInv, ConvergenceInv, UseInv,
                      NEW n \in DOMAIN walk, NEW m \in DOMAIN walk,
                      n.kind # "create", walk[n] = "run", n.kind = "deposed" \/ Target(n).cbd,
                      Updates(m), walk[m] # "ok",
                      Recorded(state.current[m.res], n.res),
                      Target(n).id \in world[state.current[m.res].id]
               PROVE  FALSE
    BY DEF UsersUpdatedFirst
  <2>1. running /\ Pending(n)
    BY DEF TypeInv, IdleOK, Pending
  <2>2. n.res \in state.current[m.res].deps
    BY <2>1 DEF Recorded, UseInv, UseOK, Finds
  <2>3. <<n, m>> \in edges
    BY <2>1, <2>2 DEF UseInv, EdgeOK
  <2> QED
    BY <2>3 DEF ConvergenceInv, OrderInv, WalkOrder
<1> QED
  BY <1>1, TypeInvariant, ConvergenceInvariant, UseInvariant, PTL

-----------------------------------------------------------------------------
(***************************************************************************)
(* The graphs that have a cycle.                                           *)
(***************************************************************************)

\* A graph that is refused is that of the state, and has a cycle.
RefusedGraph == Refused =>
    /\ DOMAIN walk = DiffNodes(change, state) /\ edges = GraphEdges(config, state, change)
    /\ ~Acyclic(DOMAIN walk, edges)
    /\ \A r \in Res : /\ change[r] = "CreateThenDelete" => state.current[r] # NoObject
                      /\ change[r] = "DeleteThenCreate" => ~state.current[r].cbd

\* A set of numbers has a least one.
LEMMA LeastNat ==
  ASSUME NEW T \in SUBSET Nat, T # {}
  PROVE  \E x \in T : \A y \in T : x <= y
<1> DEFINE R == OpToRel(<, Nat)
<1>1. \A x, y \in Nat : y < x => <<y, x>> \in R
  BY DEF OpToRel
<1>2. IsWellFoundedOn(R, Nat)
  BY NatLessThanWellFounded
<1> HIDE DEF R
<1>3. PICK x \in T : \A y \in T : ~(<<y, x>> \in R)
  BY <1>2, WFMin
<1>4. \A y \in T : ~(y < x)
  BY <1>1, <1>3
<1>5. \A y \in T : x <= y
  BY <1>4
<1> QED
  BY <1>5

\* In a set of nodes there is one whose resource has the lowest rank, and one with the highest.
LEMMA RankedNodes ==
  ASSUME NEW k \in Nat, NEW rank \in [Res -> 1..k], NEW T, T # {}, \A n \in T : n.res \in Res
  PROVE  /\ \E n \in T : \A m \in T : ~(rank[m.res] < rank[n.res])
         /\ \E n \in T : \A m \in T : ~(rank[n.res] < rank[m.res])
<1>1. \A n \in T : rank[n.res] \in Nat /\ rank[n.res] <= k /\ k - rank[n.res] \in Nat
  OBVIOUS
<1>2. \E n \in T : \A m \in T : ~(rank[m.res] < rank[n.res])
  <2> DEFINE S == {rank[n.res] : n \in T}
  <2>1. S \in SUBSET Nat /\ S # {}
    BY <1>1
  <2>2. PICK x \in S : \A y \in S : x <= y
    <3> HIDE DEF S
    <3> QED
      BY <2>1, LeastNat
  <2>3. PICK n \in T : x = rank[n.res]
    BY <2>2
  <2>4. \A m \in T : rank[n.res] <= rank[m.res]
    BY <2>2, <2>3
  <2> QED
    BY <1>1, <2>4
<1>3. \E n \in T : \A m \in T : ~(rank[n.res] < rank[m.res])
  <2> DEFINE S == {k - rank[n.res] : n \in T}
  <2>1. S \in SUBSET Nat /\ S # {}
    BY <1>1
  <2>2. PICK x \in S : \A y \in S : x <= y
    <3> HIDE DEF S
    <3> QED
      BY <2>1, LeastNat
  <2>3. PICK n \in T : x = k - rank[n.res]
    BY <2>2
  <2>4. \A m \in T : k - rank[n.res] <= k - rank[m.res]
    BY <2>2, <2>3
  <2> QED
    BY <1>1, <2>4
<1> QED
  BY <1>2, <1>3

\* Where the edges of a node lead: a creator depends on the creators of its dependencies and
\* on destroyers that are not create_before_destroy; a destroyer depends on the destroyers of
\* what uses its resource, and on creators only if it is create_before_destroy.
LEMMA EdgeShape ==
  ASSUME NEW c, NEW s, NEW chg, NEW n, NEW m, <<n, m>> \in GraphEdges(c, s, chg)
  PROVE  /\ n.kind = "create" /\ m.kind = "create" => m.res \in Dependencies(c, n.res)
         /\ n.kind = "create" /\ m.kind # "create" => ~DestroyCBD(s, m)
         /\ n.kind # "create" /\ m.kind # "create" => n.res \in StateDependencies(c, s, m)
         /\ n.kind # "create" /\ m.kind = "create" => DestroyCBD(s, n)
<1> DEFINE N == DiffNodes(chg, s)
           E == ReferenceEdges(c, N) \union DestroyEdges(c, s, N)
           I == {e \in E : e[1].kind = "create" /\ e[2].kind # "create" /\ DestroyCBD(s, e[2])}
<1>1. GraphEdges(c, s, chg) = (E \ I) \union {<<e[2], e[1]>> : e \in I}
  BY DEF GraphEdges, CBDEdges
<1>2. \A x, y : <<x, y>> \in E =>
        \/ x.kind = "create" /\ y.kind = "create" /\ y.res \in Dependencies(c, x.res)
        \/ y.kind # "create" /\ (x.kind # "create" => x.res \in StateDependencies(c, s, y))
  BY DEF ReferenceEdges, DestroyEdges
<1>3. \A e \in E : e = <<e[1], e[2]>>
  BY DEF ReferenceEdges, DestroyEdges
<1> HIDE DEF E
<1>4. CASE <<n, m>> \in E \ I
  BY <1>2, <1>4
<1>5. CASE \E e \in I : <<n, m>> = <<e[2], e[1]>>
  BY <1>5
<1> HIDE DEF I
<1> QED
  BY <1>1, <1>4, <1>5

\* If the resources are in order, an edge between destroyers leads to a higher rank, and an
\* edge between creators to a lower one.
LEMMA EdgeRank ==
  ASSUME NEW c, NEW s \in State, NEW chg, NEW n, NEW m, <<n, m>> \in GraphEdges(c, s, chg),
         n.res \in Res, m.res \in Res, NEW rank,
         \A r \in Res : \A d \in Dependencies(c, r) : rank[d] < rank[r],
         \A r \in Res : s.current[r] # NoObject => \A d \in s.current[r].deps : rank[d] < rank[r]
  PROVE  /\ n.kind = "create" /\ m.kind = "create" => rank[m.res] < rank[n.res]
         /\ n.kind # "create" /\ m.kind # "create" =>
              /\ rank[n.res] < rank[m.res]
              /\ s.current[m.res] # NoObject /\ n.res \in s.current[m.res].deps
<1>1. /\ n.kind = "create" /\ m.kind = "create" => m.res \in Dependencies(c, n.res)
      /\ n.kind # "create" /\ m.kind # "create" => n.res \in StateDependencies(c, s, m)
  BY EdgeShape
<1>2. n.kind # "create" /\ m.kind # "create" =>
        s.current[m.res] # NoObject /\ n.res \in s.current[m.res].deps
  BY <1>1 DEF StateDependencies
<1> QED
  BY <1>1, <1>2

\* The object of r depends on that of d, which is destroyed before the changes of the run,
\* while an object of r is destroyed after them.
Mixed(s, chg, r, d) ==
    /\ \/ chg[r] = "CreateThenDelete" \/ s.deposed[r] # {}
       \/ chg[r] = "Delete" /\ s.current[r].cbd
    /\ s.current[r] # NoObject /\ d \in s.current[r].deps
    /\ chg[d] \in {"Delete", "DeleteThenCreate"}
    /\ ~s.current[d].cbd

\* A graph without a cycle: the resources are in order, and nothing is created or no object
\* is destroyed after the changes that depends on one destroyed before them.  In every set
\* of nodes the last of the early destroyers, the first of the creators or the last of the
\* late destroyers depends on none of the others.
LEMMA OrderedIsAcyclic ==
  ASSUME NEW c, NEW s \in State, NEW chg, NEW k \in Nat, NEW rank \in [Res -> 1..k],
         \A r \in Res : \A d \in Dependencies(c, r) : rank[d] < rank[r],
         \A r \in Res : s.current[r] # NoObject => \A d \in s.current[r].deps : rank[d] < rank[r],
         \A r \in Res : chg[r] = "CreateThenDelete" => s.current[r] # NoObject,
         \A r \in Res : chg[r] = "DeleteThenCreate" => ~s.current[r].cbd,
         Creating(chg) = {} \/ \A r, d \in Res : ~Mixed(s, chg, r, d)
  PROVE  Acyclic(DiffNodes(chg, s), GraphEdges(c, s, chg))
<1> DEFINE E == GraphEdges(c, s, chg)
<1> SUFFICES ASSUME NEW S \in SUBSET DiffNodes(chg, s), S # {}
             PROVE  \E n \in S : \A m \in S : <<n, m>> \notin E
  BY DEF Acyclic
<1>1. \A n \in S :
        /\ n.res \in Res
        /\ n.kind = "create" => n.res \in Creating(chg)
        /\ n.kind \notin {"create", "deposed"} => chg[n.res] \in {"Delete", "DeleteThenCreate"}
        /\ n.kind = "deposed" => chg[n.res] = "CreateThenDelete" \/ s.deposed[n.res] # {}
  BY DiffNodesAre DEF Node
<1>2. \A n, m \in S : <<n, m>> \in E =>
        /\ n.kind = "create" /\ m.kind = "create" => rank[m.res] < rank[n.res]
        /\ n.kind # "create" /\ m.kind # "create" =>
             /\ rank[n.res] < rank[m.res]
             /\ s.current[m.res] # NoObject /\ n.res \in s.current[m.res].deps
        /\ n.kind = "create" /\ m.kind # "create" => ~DestroyCBD(s, m)
        /\ n.kind # "create" /\ m.kind = "create" => DestroyCBD(s, n)
  BY <1>1, EdgeRank, EdgeShape
<1> HIDE DEF E
<1> DEFINE Early == {n \in S : n.kind # "create" /\ ~DestroyCBD(s, n)}
           Makers == {n \in S : n.kind = "create"}
\* Every set of nodes has one of lowest and one of highest rank.
<1>3. \A T \in SUBSET S : T # {} =>
        /\ \E n \in T : \A m \in T : ~(rank[m.res] < rank[n.res])
        /\ \E n \in T : \A m \in T : ~(rank[n.res] < rank[m.res])
  <2> SUFFICES ASSUME NEW T \in SUBSET S, T # {}
               PROVE  /\ \E n \in T : \A m \in T : ~(rank[m.res] < rank[n.res])
                      /\ \E n \in T : \A m \in T : ~(rank[n.res] < rank[m.res])
    OBVIOUS
  <2>1. \A n \in T : n.res \in Res
    BY <1>1
  <2> QED
    BY <2>1, RankedNodes
<1>4. CASE Makers = {}
  <2>1. PICK n \in S : \A m \in S : ~(rank[n.res] < rank[m.res])
    BY <1>3
  <2>2. \A m \in S : m.kind # "create"
    BY <1>4
  <2> QED
    BY <1>2, <2>1, <2>2
<1>5. CASE Makers # {} /\ Early = {}
  <2>1. PICK n \in Makers : \A m \in Makers : ~(rank[m.res] < rank[n.res])
    <3>1. Makers \in SUBSET S
      OBVIOUS
    <3> HIDE DEF Makers
    <3> QED
      BY <1>3, <1>5, <3>1
  <2>2. \A m \in S : m.kind # "create" => DestroyCBD(s, m)
    BY <1>5
  <2>3. \A m \in S : m.kind = "create" => ~(rank[m.res] < rank[n.res])
    BY <2>1
  <2> QED
    BY <1>2, <2>1, <2>2, <2>3
<1>6. CASE Makers # {} /\ Early # {}
  <2>1. \A r, d \in Res : ~Mixed(s, chg, r, d)
    BY <1>1, <1>6
  <2>2. PICK n \in Early : \A m \in Early : ~(rank[n.res] < rank[m.res])
    <3>1. Early \in SUBSET S
      OBVIOUS
    <3> HIDE DEF Early
    <3> QED
      BY <1>3, <1>6, <3>1
  <2>3. n \in S /\ n.kind # "create" /\ ~DestroyCBD(s, n)
    BY <2>2
  <2>4. n.res \in Res /\ chg[n.res] \in {"Delete", "DeleteThenCreate"} /\ ~s.current[n.res].cbd
    BY <1>1, <2>3 DEF DestroyCBD
  <2> SUFFICES ASSUME NEW m \in S, <<n, m>> \in E PROVE FALSE
    BY <2>3
  <2>5. /\ m.kind # "create" /\ rank[n.res] < rank[m.res]
        /\ s.current[m.res] # NoObject /\ n.res \in s.current[m.res].deps
    BY <1>2, <2>3
  <2>6. CASE ~DestroyCBD(s, m)
    BY <2>2, <2>5, <2>6
  <2>7. CASE m.kind = "deposed"
    BY <1>1, <2>1, <2>4, <2>5, <2>7 DEF Mixed
  <2>8. CASE m.kind # "deposed" /\ DestroyCBD(s, m)
    <3>1. m.res \in Res /\ s.current[m.res].cbd /\ chg[m.res] = "Delete"
      BY <1>1, <2>5, <2>8 DEF DestroyCBD
    <3> QED
      BY <2>1, <2>4, <2>5, <3>1 DEF Mixed
  <2> QED
    BY <2>6, <2>7, <2>8
<1> QED
  BY <1>4, <1>5, <1>6

\* A plan that is refused leaves its graph as it was built.
LEMMA PlanRefused ==
  ASSUME TypeInv, Plan
  PROVE  RefusedGraph'
<1>1. PICK c \in Configs, chg \in [Res -> Actions] :
        LET s == Refreshed(c, saved) IN
         /\ \A r \in Res : chg[r] \in PlannedAction(c, s, chg, r)
         /\ config' = c
         /\ change' = chg
         /\ state' = Finalised(c, s, chg)
         /\ edges' = GraphEdges(c, state', chg)
         /\ walk' = [n \in DiffNodes(chg, s) |->
                        IF Acyclic(DiffNodes(chg, s), edges') THEN "wait" ELSE "refused"]
  BY DEF Plan
<1> DEFINE s == Refreshed(c, saved)
           N == DiffNodes(chg, s)
           ac == Acyclic(N, edges')
<1>2. saved \in State
  BY DEF TypeInv, TypeOK
<1>3. \A r \in Res :
        /\ r \in c.present /\ state'.current[r] # NoObject => state'.current[r].cbd = PlanCBD(c, r)
        /\ s.current[r] = NoObject <=> state'.current[r] = NoObject
  BY <1>1, <1>2, PlannedState
<1>4. \A r \in Res :
        /\ state'.current[r] = NoObject <=> chg[r] \in {"None", "Create"}
        /\ chg[r] = "DeleteThenCreate" => r \in c.present /\ ~PlanCBD(c, r)
  BY <1>1, <1>3, PlannedChange
<1>5. \A r \in Res : /\ chg[r] = "CreateThenDelete" => state'.current[r] # NoObject
                     /\ chg[r] = "DeleteThenCreate" => ~state'.current[r].cbd
  BY <1>3, <1>4
<1>6. DiffNodes(chg, state') = N
  BY <1>1, <1>2, PlanNodes
<1>7. walk' = [n \in N |-> IF ac THEN "wait" ELSE "refused"]
  BY <1>1
<1>8. change' = chg /\ edges' = GraphEdges(c, state', chg) /\ config' = c
  BY <1>1
<1> HIDE DEF s, N, ac
<1>9. DOMAIN walk' = N /\ (Refused' => ~ac)
  BY <1>7 DEF Refused
<1> QED
  BY <1>5, <1>6, <1>8, <1>9 DEF RefusedGraph, ac

\* CycleNeedsMixedOrder: a plan whose graph has a cycle has turned dependencies round, or
\* creates something while it destroys an object after the changes that depends on one
\* destroyed before them.
THEOREM CyclesNeedMixedOrder == Spec => []CycleNeedsMixedOrder
<1>1. Init => RefusedGraph
  BY DEF Init, RefusedGraph, Refused
<1>2. TypeInv /\ RefusedGraph /\ [Next]_vars => RefusedGraph'
  <2> SUFFICES ASSUME TypeInv, RefusedGraph, [Next]_vars PROVE RefusedGraph'
    OBVIOUS
  <2>1. CASE Plan
    BY <2>1, PlanRefused
  <2>2. ASSUME NEW n \in DOMAIN walk, NodeStep(n) PROVE RefusedGraph'
    BY <2>2, NotRefused DEF RefusedGraph
  <2>3. CASE Finish \/ Crash
    BY <2>3 DEF Finish, Crash, Idle, RefusedGraph, Refused
  <2>4. CASE UNCHANGED vars
    BY <2>4 DEF vars, RefusedGraph, Refused
  <2>5. ASSUME NEW n \in DOMAIN walk, StartFails(n) PROVE RefusedGraph'
    BY <2>5, StartFailsFrame DEF RefusedGraph
  <2> QED
    BY <2>1, <2>2, <2>3, <2>4, <2>5 DEF Next, NodeStep
<1>3. TypeInv /\ RefusedGraph => CycleNeedsMixedOrder
  <2> SUFFICES ASSUME TypeInv, RefusedGraph, Refused, Ordered
               PROVE  Creating(change) # {} /\ \E r, d \in Res : Mixed(state, change, r, d)
    BY DEF CycleNeedsMixedOrder, Mixed
  <2>1. state \in State /\ Cardinality(Res) \in Nat
    BY ApplyAssumption, FS_CardinalityType DEF TypeInv, TypeOK
  <2>2. PICK rank \in [Res -> 1..Cardinality(Res)] :
          \A r \in Res : \A d \in AnyDependencies(r) : rank[d] < rank[r]
    BY DEF Ordered
  <2>3. \A r \in Res : \A d \in Dependencies(config, r) : rank[d] < rank[r]
    BY <2>2 DEF AnyDependencies
  <2>4. \A r \in Res : state.current[r] # NoObject =>
          \A d \in state.current[r].deps : rank[d] < rank[r]
    BY <2>2 DEF AnyDependencies
  <2>5. /\ ~Acyclic(DiffNodes(change, state), GraphEdges(config, state, change))
        /\ \A r \in Res : /\ change[r] = "CreateThenDelete" => state.current[r] # NoObject
                          /\ change[r] = "DeleteThenCreate" => ~state.current[r].cbd
    BY DEF RefusedGraph
  <2> QED
    BY <2>1, <2>3, <2>4, <2>5, OrderedIsAcyclic
<1> QED
  BY <1>1, <1>2, <1>3, TypeInvariant, PTL DEF Spec
=============================================================================
