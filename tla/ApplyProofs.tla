---------------------------- MODULE ApplyProofs ----------------------------
(***************************************************************************)
(* Proofs about Apply, for any resources, configurations and bounds.       *)
(***************************************************************************)
EXTENDS Apply, FiniteSetTheorems, TLAPS

Pending(n) == walk[n] \in {"wait", "run"}

\* The number of objects is finite, so that there is always a new identity.
FiniteInv ==
    /\ IsFiniteSet(Existing) /\ IsFiniteSet(lost) /\ IsFiniteSet(fresh)
    /\ IsFiniteSet(Tracked(state)) /\ IsFiniteSet(Tracked(saved))

\* A resource has at most one creator and one destroyer of its current object, as its change asks for.
NodesOK ==
    \A n \in DOMAIN walk :
        /\ n.kind = "create" =>
            /\ n.res \in Creating(change)
            /\ n.id # 0 => change[n.res] = "CreateThenDelete"
            /\ \A m \in DOMAIN walk : m.kind = "create" /\ m.res = n.res => m = n
        /\ n.kind = "destroy" => n = Destroyer(n.res) /\ change[n.res] \in {"Delete", "DeleteThenCreate"}

\* A creator finds what its change expects: no current object that it would overwrite, or
\* the one to update or to depose.  If the old object has to be destroyed first, the
\* creator waits for that.
CreatorsOK ==
    \A n \in DOMAIN walk : n.kind = "create" =>
        LET r == n.res  none == state.current[n.res] = NoObject IN
        /\ change[r] = "Create" /\ Pending(n) => none
        /\ change[r] = "Update" /\ Pending(n) => ~none
        /\ change[r] = "CreateThenDelete" => (walk[n] = "wait" => ~none) /\ (walk[n] = "run" => none)
        /\ change[r] = "DeleteThenCreate" =>
            /\ Destroyer(r) \in DOMAIN walk /\ <<n, Destroyer(r)>> \in edges
            /\ walk[n] = "run" => walk[Destroyer(r)] = "ok"
            /\ walk[Destroyer(r)] = "ok" /\ Pending(n) => none

\* A destroyer finds its object, which for a CreateThenDelete may still be the current one.
DestroyersOK ==
    \A n \in DOMAIN walk : Pending(n) =>
        /\ n.kind = "destroy" => state.current[n.res] # NoObject
        /\ n.kind = "deposed" =>
            \/ \E o \in state.deposed[n.res] : o.id = n.id
            \/ /\ change[n.res] = "CreateThenDelete"
               /\ state.current[n.res] # NoObject /\ state.current[n.res].id = n.id

\* A graph that is refused is refused as a whole, before anything is created.
RefusedOK == Refused => fresh = {} /\ \A n \in DOMAIN walk : walk[n] = "refused"

\* Nothing is under way between runs.
IdleOK == ~running => DOMAIN walk = {} /\ fresh = {} /\ state = saved

TypeInv == TypeOK /\ FiniteInv /\ NodesOK /\ CreatorsOK /\ DestroyersOK /\ RefusedOK /\ IdleOK

\* The objects that exist are in the working state, and those that were there before
\* the run in the snapshot saved last.
TrackedInv ==
    /\ Existing \subseteq Tracked(state) \union lost
    /\ Existing \subseteq Tracked(saved) \union fresh \union lost
-----------------------------------------------------------------------------
(***************************************************************************)
(* The state.                                                              *)
(***************************************************************************)

\* A state has an object of r with this identity.
At(s, r, i) ==
    \/ s.current[r] # NoObject /\ s.current[r].id = i
    \/ \E o \in s.deposed[r] : o.id = i

\* What a state tracks, object by object.
LEMMA TrackedIs ==
  ASSUME NEW s, NEW i
  PROVE  i \in Tracked(s) <=> \E r \in Res : At(s, r, i)
BY DEF Tracked, Objects, At

\* SyncState.SetResourceInstanceCurrent.
LEMMA SetCurrent ==
  ASSUME NEW s \in State, NEW r \in Res, NEW v \in {NoObject} \union Object
  PROVE  LET t == [s EXCEPT !.current[r] = v] IN
         /\ t \in State
         /\ t.current = [s.current EXCEPT ![r] = v] /\ t.deposed = s.deposed
BY DEF State

\* SyncState.SetResourceInstanceDeposed.
LEMMA SetDeposed ==
  ASSUME NEW s \in State, NEW r \in Res, NEW D \in SUBSET Object
  PROVE  LET t == [s EXCEPT !.deposed[r] = D] IN
         /\ t \in State
         /\ t.current = s.current /\ t.deposed = [s.deposed EXCEPT ![r] = D]
BY DEF State

\* Only the objects of r change.
Frame(r) ==
    \A x \in Res \ {r} :
        state'.current[x] = state.current[x] /\ state'.deposed[x] = state.deposed[x]

\* The identity of a new object is unused.
LEMMA NewIdType ==
  ASSUME FiniteInv
  PROVE  NewId \in Nat \ {0} /\ NewId \notin Existing \union Tracked(state) \union lost
<1> DEFINE used == Existing \union Tracked(state) \union Tracked(saved) \union lost
<1>1. IsFiniteSet(used)
  BY FS_Union DEF FiniteInv
<1>2. Cardinality(used) \in Nat
  BY <1>1, FS_CardinalityType
<1>3. \E i \in 1..(Cardinality(used) + 1) : i \notin used
  <2> SUFFICES ASSUME 1..(Cardinality(used) + 1) \in SUBSET used PROVE FALSE
    OBVIOUS
  <2>1. Cardinality(1..(Cardinality(used) + 1)) <= Cardinality(used)
    BY <1>1, FS_Subset
  <2>2. Cardinality(1..(Cardinality(used) + 1)) = Cardinality(used) + 1
    BY <1>2, FS_Interval
  <2> QED
    BY <1>2, <2>1, <2>2
<1>4. NewId = CHOOSE i \in 1..(Cardinality(used) + 1) : i \notin used
  BY DEF NewId
<1> HIDE DEF used
<1>5. NewId \in 1..(Cardinality(used) + 1) /\ NewId \notin used
  BY <1>3, <1>4
<1> QED
  BY <1>2, <1>5 DEF used

\* The object that a creator stores.
LEMMA ResultType ==
  ASSUME NEW n, NEW i \in Nat \ {0}, NEW tainted \in BOOLEAN
  PROVE  Result(n, i, tainted) \in Object /\ Result(n, i, tainted).id = i
BY DEF Result, Object, Dependencies, ApplyCBD, ForcedCBD

\* The objects that a new one uses.
LEMMA UsesType ==
  ASSUME NEW c, NEW s \in State, NEW r, c.refs[r] \subseteq Res
  PROVE  Uses(c, s, r) \subseteq Nat
BY DEF Uses, State, Object
-----------------------------------------------------------------------------
(***************************************************************************)
(* What the nodes do to the state.                                         *)
(***************************************************************************)

\* A node that starts: the creator of a CreateThenDelete deposes the current object.
LEMMA StartState ==
  ASSUME TypeInv, NEW n \in DOMAIN walk, Start(n)
  PROVE  /\ n.res \in Res /\ state' \in State /\ Frame(n.res)
         /\ \/ ~(n.kind = "create" /\ change[n.res] = "CreateThenDelete") /\ state' = state
            \/ /\ n.kind = "create" /\ change[n.res] = "CreateThenDelete"
               /\ state.current[n.res] # NoObject /\ state'.current[n.res] = NoObject
               /\ state'.deposed[n.res] = state.deposed[n.res] \union {state.current[n.res]}
<1>1. n.res \in Res /\ state \in State
  BY DEF TypeInv, TypeOK, Node
<1>2. CASE n.kind = "create" /\ change[n.res] = "CreateThenDelete"
  <2> DEFINE D == state.deposed[n.res] \union {state.current[n.res]}
  <2>1. state.current[n.res] # NoObject
    BY <1>2 DEF Start, Ready, TypeInv, CreatorsOK
  <2>2. D \in SUBSET Object
    BY <1>1, <2>1 DEF State
  <2>3. state' = [state EXCEPT !.deposed[n.res] = D, !.current[n.res] = NoObject]
    BY <1>2 DEF Start, Depose
  <2> HIDE DEF D
  <2>4. /\ state' \in State
        /\ state'.current = [state.current EXCEPT ![n.res] = NoObject]
        /\ state'.deposed = [state.deposed EXCEPT ![n.res] = D]
    BY <1>1, <2>2, <2>3 DEF State
  <2> QED
    BY <1>1, <1>2, <2>1, <2>4 DEF Frame, State, D
<1>3. CASE ~(n.kind = "create" /\ change[n.res] = "CreateThenDelete")
  BY <1>1, <1>3 DEF Start, Frame
<1> QED
  BY <1>2, <1>3

\* A creator finds no current object.
LEMMA CreatorFindsNone ==
  ASSUME TypeInv, NEW n \in DOMAIN walk, Creates(n), walk[n] = "run"
  PROVE  n.res \in Res /\ state.current[n.res] = NoObject
BY DEF TypeInv, TypeOK, Node, Creates, CreatorsOK, Pending

\* Create stores the new object beside the deposed ones and restores none of them.
LEMMA CreateState ==
  ASSUME TypeInv, NEW n \in DOMAIN walk, Create(n)
  PROVE  /\ n.res \in Res /\ state' \in State /\ Frame(n.res)
         /\ state.current[n.res] = NoObject /\ state'.current[n.res] # NoObject
         /\ state'.current[n.res].id = NewId
         /\ state'.deposed[n.res] = state.deposed[n.res]
<1>1. n.res \in Res /\ state.current[n.res] = NoObject /\ state \in State
  BY CreatorFindsNone DEF Create, Ends, TypeInv, TypeOK
<1>2. PICK ok \in BOOLEAN, tainted \in BOOLEAN :
        state' = LET s == [state EXCEPT !.current[n.res] = Result(n, NewId, tainted)]
                 IN  IF tainted THEN MaybeRestore(s, n.res, n.id) ELSE s
  BY DEF Create
<1> DEFINE v == Result(n, NewId, tainted)
           s == [state EXCEPT !.current[n.res] = v]
<1>3. v \in Object /\ v.id = NewId /\ v # NoObject
  BY NewIdType, ResultType, ApplyAssumption DEF TypeInv
<1> HIDE DEF v
<1>4. /\ s \in State
      /\ s.current = [state.current EXCEPT ![n.res] = v] /\ s.deposed = state.deposed
  BY <1>1, <1>3, SetCurrent
<1>5. s.current[n.res] = v
  BY <1>1, <1>4 DEF State
<1>6. state' = IF tainted THEN MaybeRestore(s, n.res, n.id) ELSE s
  BY <1>2 DEF v
<1> HIDE DEF s
<1>7. state' = s
  BY <1>3, <1>5, <1>6 DEF MaybeRestore
<1> QED
  BY <1>1, <1>3, <1>4, <1>5, <1>7 DEF Frame, State

\* A creation that fails without an object may put the deposed object back.
LEMMA CreateNothingState ==
  ASSUME TypeInv, NEW n \in DOMAIN walk, CreateNothing(n)
  PROVE  /\ n.res \in Res /\ state' \in State /\ Frame(n.res)
         /\ state.current[n.res] = NoObject
         /\ \/ state' = state
            \/ /\ change[n.res] = "CreateThenDelete"
               /\ state'.current[n.res] # NoObject
               /\ state'.current[n.res] \in state.deposed[n.res]
               /\ state'.current[n.res].id = n.id
               /\ state'.deposed[n.res] = {o \in state.deposed[n.res] : o.id # n.id}
<1>1. n.res \in Res /\ state.current[n.res] = NoObject /\ state \in State /\ n.kind = "create"
  BY CreatorFindsNone DEF CreateNothing, Creates, Ends, TypeInv, TypeOK
<1> DEFINE old == {o \in state.deposed[n.res] : o.id = n.id}
           v == CHOOSE o \in old : TRUE
           D == state.deposed[n.res] \ old
<1>2. state' = IF state.current[n.res] # NoObject \/ old = {} THEN state
               ELSE [state EXCEPT !.current[n.res] = v, !.deposed[n.res] = D]
  BY DEF CreateNothing, MaybeRestore
<1>3. CASE old = {}
  BY <1>1, <1>2, <1>3 DEF Frame
<1>4. CASE old # {}
  <2>1. v \in old
    BY <1>4
  <2>2. v \in Object /\ v # NoObject /\ v.id = n.id /\ v \in state.deposed[n.res] /\ D \in SUBSET Object
    BY <1>1, <2>1, ApplyAssumption DEF State
  <2>3. change[n.res] = "CreateThenDelete"
    BY <1>1, <2>2 DEF TypeInv, NodesOK, Object
  <2>4. D = {o \in state.deposed[n.res] : o.id # n.id}
    OBVIOUS
  <2> HIDE DEF v, D
  <2>5. /\ state' \in State
        /\ state'.current = [state.current EXCEPT ![n.res] = v]
        /\ state'.deposed = [state.deposed EXCEPT ![n.res] = D]
    BY <1>1, <1>2, <1>4, <2>2 DEF State
  <2> QED
    BY <1>1, <2>2, <2>3, <2>4, <2>5 DEF Frame, State
<1> QED
  BY <1>3, <1>4

\* An update keeps the identity of the object.
LEMMA UpdateState ==
  ASSUME TypeInv, NEW n \in DOMAIN walk, Update(n)
  PROVE  /\ n.res \in Res /\ state' \in State /\ Frame(n.res)
         /\ state.current[n.res] # NoObject /\ state'.current[n.res] # NoObject
         /\ state'.current[n.res].id = state.current[n.res].id
         /\ state'.deposed[n.res] = state.deposed[n.res]
<1> DEFINE old == state.current[n.res]
<1>1. n.res \in Res /\ old # NoObject /\ state \in State
  BY DEF Update, Updates, Ends, TypeInv, TypeOK, Node, CreatorsOK, Pending
<1>2. old \in Object
  BY <1>1 DEF State
<1>3. PICK returned \in BOOLEAN :
        state' = [state EXCEPT !.current[n.res] =
                    IF returned THEN Result(n, old.id, old.tainted)
                    ELSE [old EXCEPT !.deps = Dependencies(config, n.res)]]
  BY DEF Update
<1> DEFINE v == IF returned THEN Result(n, old.id, old.tainted)
                ELSE [old EXCEPT !.deps = Dependencies(config, n.res)]
<1>4. v \in Object /\ v.id = old.id
  <2>1. old.id \in Nat \ {0} /\ old.tainted \in BOOLEAN
    BY <1>2 DEF Object
  <2>2. CASE returned
    BY <2>1, <2>2, ResultType
  <2>3. CASE ~returned
    BY <1>2, <2>3 DEF Object, Dependencies
  <2> QED
    BY <2>2, <2>3
<1> HIDE DEF v
<1>5. v # NoObject
  BY <1>4, ApplyAssumption
<1>6. state' = [state EXCEPT !.current[n.res] = v]
  BY <1>3 DEF v
<1>7. /\ state' \in State
      /\ state'.current = [state.current EXCEPT ![n.res] = v] /\ state'.deposed = state.deposed
  BY <1>1, <1>4, <1>6, SetCurrent
<1> QED
  BY <1>1, <1>4, <1>5, <1>7 DEF Frame, State
\* A destroyer finds its object: the current one, or one with the identity of the node.
LEMMA TargetIs ==
  ASSUME TypeInv, NEW n \in DOMAIN walk, walk[n] = "run", n.kind # "create"
  PROVE  /\ n.res \in Res /\ Target(n) \in Object /\ Target(n) # NoObject
         /\ n.kind = "destroy" => Target(n) = state.current[n.res]
         /\ n.kind # "destroy" =>
              /\ n.kind = "deposed" /\ Target(n).id = n.id
              /\ Target(n) \in state.deposed[n.res] \/ Target(n) = state.current[n.res]
<1>1. n.res \in Res /\ n.kind \in {"destroy", "deposed"} /\ state \in State
  BY DEF TypeInv, TypeOK, Node
<1>2. CASE n.kind = "destroy"
  BY <1>1, <1>2 DEF Target, TypeInv, DestroyersOK, Pending, State
<1>3. CASE n.kind = "deposed"
  <2>1. \E o \in Objects(state, n.res) : o.id = n.id
    BY <1>3 DEF Objects, TypeInv, DestroyersOK, Pending
  <2>2. Target(n) \in Objects(state, n.res) /\ Target(n).id = n.id
    BY <1>3, <2>1 DEF Target
  <2>3. \A o \in Objects(state, n.res) :
          o \in Object /\ (o \in state.deposed[n.res] \/ o = state.current[n.res])
    BY <1>1 DEF Objects, State
  <2> QED
    BY <1>1, <1>3, <2>2, <2>3, ApplyAssumption
<1> QED
  BY <1>1, <1>2, <1>3

\* Destroy takes the object out of the state and out of the world.
LEMMA DestroyState ==
  ASSUME TypeInv, NEW n \in DOMAIN walk, Destroy(n)
  PROVE  /\ n.res \in Res /\ state' \in State /\ Frame(n.res)
         /\ Existing' = Existing \ {Target(n).id} /\ world' \in [Existing' -> SUBSET Nat]
         /\ n.kind = "destroy" =>
              /\ Target(n) = state.current[n.res]
              /\ state'.current[n.res] = NoObject
              /\ state'.deposed[n.res] = state.deposed[n.res]
         /\ n.kind # "destroy" =>
              /\ n.kind = "deposed" /\ Target(n).id = n.id
              /\ state'.current[n.res] = state.current[n.res]
              /\ state'.deposed[n.res] = state.deposed[n.res] \ {Target(n)}
<1>1. n.kind # "create" /\ walk[n] = "run" /\ state' = Leave(n, {}) /\ world' = Without(Target(n).id)
  BY DEF Destroy, Ends
<1>2. state \in State /\ world \in [Existing -> SUBSET Nat]
  BY DEF TypeInv, TypeOK
<1>3. Existing' = Existing \ {Target(n).id} /\ world' \in [Existing' -> SUBSET Nat]
  BY <1>1, <1>2 DEF Without, Existing
<1>4. CASE n.kind = "destroy"
  <2>1. state' = [state EXCEPT !.current[n.res] = NoObject]
    BY <1>1, <1>4 DEF Leave
  <2>2. /\ state' \in State
        /\ state'.current = [state.current EXCEPT ![n.res] = NoObject] /\ state'.deposed = state.deposed
    <3>1. n.res \in Res
      BY <1>1, TargetIs
    <3> QED
      BY <1>2, <2>1, <3>1, SetCurrent
  <2> QED
    BY <1>1, <1>2, <1>3, <1>4, <2>2, TargetIs DEF Frame, State
<1>5. CASE n.kind # "destroy"
  <2> DEFINE D == state.deposed[n.res] \ {Target(n)}
  <2>1. state' = [state EXCEPT !.deposed[n.res] = D]
    BY <1>1, <1>5 DEF Leave
  <2>2. D \in SUBSET Object /\ n.res \in Res
    BY <1>1, <1>2, TargetIs DEF State
  <2> HIDE DEF D
  <2>3. /\ state' \in State
        /\ state'.current = state.current /\ state'.deposed = [state.deposed EXCEPT ![n.res] = D]
    BY <1>2, <2>1, <2>2, SetDeposed
  <2> QED
    BY <1>1, <1>2, <1>3, <1>5, <2>2, <2>3, TargetIs DEF Frame, State, D
<1> QED
  BY <1>4, <1>5

\* A destruction that fails leaves an object with the same identity, also if it is gone.
LEMMA DestroyFailsState ==
  ASSUME TypeInv, NEW n \in DOMAIN walk, DestroyFails(n)
  PROVE  /\ n.res \in Res /\ state' \in State /\ Frame(n.res)
         /\ Existing' \in {Existing, Existing \ {Target(n).id}}
         /\ world' \in [Existing' -> SUBSET Nat]
         /\ n.kind = "destroy" =>
              /\ Target(n) = state.current[n.res] /\ Target(n) # NoObject
              /\ state'.current[n.res] # NoObject
              /\ state'.current[n.res].id = Target(n).id
              /\ state'.deposed[n.res] = state.deposed[n.res]
         /\ n.kind # "destroy" =>
              /\ n.kind = "deposed" /\ Target(n).id = n.id
              /\ state'.current[n.res] = state.current[n.res]
              /\ Target(n) \in state.deposed[n.res] \/ Target(n) = state.current[n.res]
              /\ \E o \in Object : /\ o.id = Target(n).id
                                   /\ state'.deposed[n.res] =
                                        (state.deposed[n.res] \ {Target(n)}) \union {o}
<1>1. PICK returned \in BOOLEAN, gone \in BOOLEAN :
        /\ state' = Leave(n, {IF returned THEN [Target(n) EXCEPT !.cbd = FALSE] ELSE Target(n)})
        /\ world' = IF gone THEN Without(Target(n).id) ELSE world
  BY DEF DestroyFails
<1>2. n.kind # "create" /\ walk[n] = "run" /\ state \in State /\ world \in [Existing -> SUBSET Nat]
  BY DEF DestroyFails, Ends, TypeInv, TypeOK
<1>3. Existing' \in {Existing, Existing \ {Target(n).id}} /\ world' \in [Existing' -> SUBSET Nat]
  BY <1>1, <1>2 DEF Without, Existing
<1> DEFINE v == IF returned THEN [Target(n) EXCEPT !.cbd = FALSE] ELSE Target(n)
<1>4. Target(n) \in Object /\ n.res \in Res
  BY <1>2, TargetIs
<1>5. v \in Object /\ v.id = Target(n).id
  BY <1>4 DEF Object
<1>6. state' = Leave(n, {v})
  BY <1>1
<1> HIDE DEF v
<1>7. v # NoObject
  BY <1>5, ApplyAssumption
<1>8. CASE n.kind = "destroy"
  <2>1. (CHOOSE o \in {v} : TRUE) = v
    OBVIOUS
  <2>2. state' = [state EXCEPT !.current[n.res] = v]
    BY <1>6, <1>8, <2>1 DEF Leave
  <2>3. /\ state' \in State
        /\ state'.current = [state.current EXCEPT ![n.res] = v] /\ state'.deposed = state.deposed
    BY <1>2, <1>4, <1>5, <2>2, SetCurrent
  <2> QED
    BY <1>2, <1>3, <1>4, <1>5, <1>7, <1>8, <2>3, TargetIs DEF Frame, State
<1>9. CASE n.kind # "destroy"
  <2> DEFINE D == (state.deposed[n.res] \ {Target(n)}) \union {v}
  <2>1. state' = [state EXCEPT !.deposed[n.res] = D]
    BY <1>6, <1>9 DEF Leave
  <2>2. D \in SUBSET Object
    BY <1>2, <1>4, <1>5 DEF State
  <2>3. n.kind = "deposed" /\ Target(n).id = n.id /\
          (Target(n) \in state.deposed[n.res] \/ Target(n) = state.current[n.res])
    BY <1>2, <1>9, TargetIs
  <2> HIDE DEF D
  <2>4. /\ state' \in State
        /\ state'.current = state.current /\ state'.deposed = [state.deposed EXCEPT ![n.res] = D]
    BY <1>2, <1>4, <2>1, <2>2, SetDeposed
  <2> QED
    BY <1>2, <1>3, <1>4, <1>5, <1>9, <2>3, <2>4 DEF Frame, State, D
<1> QED
  BY <1>8, <1>9
-----------------------------------------------------------------------------
(***************************************************************************)
(* Planning.                                                               *)
(***************************************************************************)

\* The action that is planned fits what the refreshed state has.
LEMMA PlannedChange ==
  ASSUME NEW c, NEW s, NEW chg, NEW r, NEW a \in PlannedAction(c, s, chg, r)
  PROVE  /\ s.current[r] = NoObject <=> a \in {"None", "Create"}
         /\ a = "DeleteThenCreate" => r \in c.present /\ ~PlanCBD(c, r)
<1> DEFINE none == s.current[r] = NoObject
<1>1. CASE r \notin c.present /\ none
  BY <1>1 DEF PlannedAction
<1>2. CASE r \notin c.present /\ ~none
  BY <1>2 DEF PlannedAction
<1>3. CASE r \in c.present /\ none
  BY <1>3 DEF PlannedAction
<1>4. CASE r \in c.present /\ ~none
  <2>1. a \in {IF PlanCBD(c, r) THEN "CreateThenDelete" ELSE "DeleteThenCreate", "Update", "NoOp"}
    BY <1>4 DEF PlannedAction
  <2> QED
    BY <1>4, <2>1
<1> QED
  BY <1>1, <1>2, <1>3, <1>4

\* The state a run starts from has the objects of the saved one that still exist; what is
\* configured carries the create_before_destroy of the plan.
LEMMA PlannedState ==
  ASSUME NEW s0 \in State, NEW c, NEW chg, NEW s, NEW t,
         s = Refreshed(c, s0), t = Finalised(c, s, chg),
         \A r \in Res : chg[r] \in PlannedAction(c, s, chg, r)
  PROVE  /\ s \in State /\ t \in State
         /\ \A r \in Res :
              /\ t.deposed[r] = {o \in s0.deposed[r] : o.id \in Existing}
              /\ t.current[r] # NoObject <=> s0.current[r] # NoObject /\ s0.current[r].id \in Existing
              /\ t.current[r] # NoObject => t.current[r].id = s0.current[r].id
              /\ r \in c.present /\ t.current[r] # NoObject => t.current[r].cbd = PlanCBD(c, r)
              /\ chg[r] # "NoOp" => t.current[r] = s.current[r]
              /\ s.current[r] = NoObject <=> t.current[r] = NoObject
              /\ t.deposed[r] = s.deposed[r]
<1> DEFINE cur(r) == IF s0.current[r] = NoObject \/ s0.current[r].id \notin Existing THEN NoObject
                     ELSE IF r \in c.present
                          THEN [s0.current[r] EXCEPT !.cbd = PlanCBD(c, r),
                                                     !.deps = @ \union Dependencies(c, r)]
                          ELSE s0.current[r]
           fin(r) == IF chg[r] = "NoOp" THEN [s.current[r] EXCEPT !.deps = Dependencies(c, r)]
                     ELSE s.current[r]
<1>1. s = [current |-> [r \in Res |-> cur(r)],
           deposed |-> [r \in Res |-> {o \in s0.deposed[r] : o.id \in Existing}]]
  BY DEF Refreshed
<1>2. \A r \in Res :
        /\ cur(r) \in {NoObject} \union Object
        /\ cur(r) # NoObject <=> s0.current[r] # NoObject /\ s0.current[r].id \in Existing
        /\ cur(r) # NoObject => cur(r).id = s0.current[r].id
        /\ r \in c.present /\ cur(r) # NoObject => cur(r).cbd = PlanCBD(c, r)
  <2> SUFFICES ASSUME NEW r \in Res
               PROVE  /\ cur(r) \in {NoObject} \union Object
                      /\ cur(r) # NoObject <=> s0.current[r] # NoObject /\ s0.current[r].id \in Existing
                      /\ cur(r) # NoObject => cur(r).id = s0.current[r].id
                      /\ r \in c.present /\ cur(r) # NoObject => cur(r).cbd = PlanCBD(c, r)
    OBVIOUS
  <2>0. CASE s0.current[r] = NoObject \/ s0.current[r].id \notin Existing
    BY <2>0
  <2> SUFFICES ASSUME ~(s0.current[r] = NoObject \/ s0.current[r].id \notin Existing)
               PROVE  /\ cur(r) \in Object /\ cur(r).id = s0.current[r].id
                      /\ r \in c.present => cur(r).cbd = PlanCBD(c, r)
    <3>1. cur(r) \in Object => cur(r) # NoObject
      BY ApplyAssumption
    <3> HIDE DEF cur
    <3> QED
      BY <2>0, <3>1
  <2>1. s0.current[r] \in Object /\ PlanCBD(c, r) \in BOOLEAN /\ Dependencies(c, r) \subseteq Res
    BY DEF State, PlanCBD, ForcedCBD, Dependencies
  <2>2. CASE r \in c.present
    <3>1. cur(r) = [s0.current[r] EXCEPT !.cbd = PlanCBD(c, r), !.deps = @ \union Dependencies(c, r)]
      BY <2>2
    <3> HIDE DEF cur
    <3> QED
      BY <2>1, <3>1 DEF Object
  <2>3. CASE r \notin c.present
    BY <2>1, <2>3
  <2> QED
    BY <2>2, <2>3
<1> HIDE DEF cur
<1>3. /\ s \in State
      /\ \A r \in Res : /\ s.current[r] = cur(r)
                        /\ s.deposed[r] = {o \in s0.deposed[r] : o.id \in Existing}
  <2> DEFINE C == [r \in Res |-> cur(r)]
             D == [r \in Res |-> {o \in s0.deposed[r] : o.id \in Existing}]
  <2>1. C \in [Res -> {NoObject} \union Object] /\ \A r \in Res : C[r] = cur(r)
    BY <1>2
  <2>2. /\ D \in [Res -> SUBSET Object]
        /\ \A r \in Res : D[r] = {o \in s0.deposed[r] : o.id \in Existing}
    BY DEF State
  <2>3. s = [current |-> C, deposed |-> D]
    BY <1>1
  <2> HIDE DEF C, D
  <2> QED
    BY <2>1, <2>2, <2>3 DEF State
<1>4. t = [s EXCEPT !.current = [r \in Res |-> fin(r)]]
  BY DEF Finalised
<1>5. \A r \in Res :
        /\ fin(r) \in {NoObject} \union Object
        /\ fin(r) = NoObject <=> s.current[r] = NoObject
        /\ fin(r) # NoObject => fin(r).id = s.current[r].id /\ fin(r).cbd = s.current[r].cbd
  <2> SUFFICES ASSUME NEW r \in Res
               PROVE  /\ fin(r) \in {NoObject} \union Object
                      /\ fin(r) = NoObject <=> s.current[r] = NoObject
                      /\ fin(r) # NoObject => fin(r).id = s.current[r].id /\ fin(r).cbd = s.current[r].cbd
    OBVIOUS
  <2>1. CASE chg[r] = "NoOp"
    <3>1. s.current[r] # NoObject
      BY <2>1, PlannedChange
    <3>2. s.current[r] \in Object /\ Dependencies(c, r) \subseteq Res
      BY <1>3, <3>1 DEF State, Dependencies
    <3>3. fin(r) = [s.current[r] EXCEPT !.deps = Dependencies(c, r)]
      BY <2>1
    <3> HIDE DEF fin
    <3>4. fin(r) \in Object /\ fin(r).id = s.current[r].id /\ fin(r).cbd = s.current[r].cbd
      BY <3>2, <3>3 DEF Object
    <3> QED
      BY <3>1, <3>4, ApplyAssumption
  <2>2. CASE chg[r] # "NoOp"
    BY <1>3, <2>2 DEF State
  <2> QED
    BY <2>1, <2>2
<1>6. \A r \in Res : chg[r] # "NoOp" => fin(r) = s.current[r]
  OBVIOUS
<1> HIDE DEF fin
<1>7. t \in State /\ \A r \in Res : t.current[r] = fin(r) /\ t.deposed[r] = s.deposed[r]
  <2> DEFINE C == [r \in Res |-> fin(r)]
  <2>1. C \in [Res -> {NoObject} \union Object] /\ \A r \in Res : C[r] = fin(r)
    BY <1>5
  <2>2. t = [s EXCEPT !.current = C]
    BY <1>4
  <2> HIDE DEF C
  <2> QED
    BY <1>3, <2>1, <2>2 DEF State
<1> QED
  BY <1>2, <1>3, <1>5, <1>6, <1>7
\* The nodes of DiffTransformer, kind by kind.
LEMMA DiffNodesAre ==
  ASSUME NEW s \in State, NEW chg, NEW m,
         \A r \in Res : chg[r] = "CreateThenDelete" => s.current[r] # NoObject
  PROVE  m \in DiffNodes(chg, s) <=>
           /\ m \in Node
           /\ \/ /\ m.kind = "create" /\ m.res \in Creating(chg)
                 /\ m.id = IF chg[m.res] = "CreateThenDelete" THEN s.current[m.res].id ELSE 0
              \/ m.kind = "destroy" /\ m.id = 0 /\ chg[m.res] \in {"Delete", "DeleteThenCreate"}
              \/ /\ m.kind = "deposed"
                 /\ \/ chg[m.res] = "CreateThenDelete" /\ m.id = s.current[m.res].id
                    \/ \E o \in s.deposed[m.res] : o.id = m.id
<1> DEFINE key(r) == IF chg[r] = "CreateThenDelete" THEN s.current[r].id ELSE 0
<1>1. \A r \in Res : key(r) \in Nat
  BY DEF State, Object
<1>2. \A r \in Res : \A o \in s.deposed[r] : o.id \in Nat
  BY DEF State, Object
<1>3. m \in DiffNodes(chg, s) <=>
        \/ \E r \in Creating(chg) : m = Creator(r, key(r))
        \/ \E r \in Res : chg[r] \in {"Delete", "DeleteThenCreate"} /\ m = Destroyer(r)
        \/ \E r \in Res : chg[r] = "CreateThenDelete" /\ m = Deposed(r, key(r))
        \/ \E r \in Res : \E o \in s.deposed[r] : m = Deposed(r, o.id)
  BY DEF DiffNodes
<1>4. \A r \in Res : chg[r] = "CreateThenDelete" => key(r) = s.current[r].id
  OBVIOUS
<1>5. m \in Node => m.res \in Res /\ m = [kind |-> m.kind, res |-> m.res, id |-> m.id]
  BY DEF Node
<1> HIDE DEF key
<1>6. ASSUME m \in DiffNodes(chg, s)
      PROVE  /\ m \in Node
             /\ \/ m.kind = "create" /\ m.res \in Creating(chg) /\ m.id = key(m.res)
                \/ m.kind = "destroy" /\ m.id = 0 /\ chg[m.res] \in {"Delete", "DeleteThenCreate"}
                \/ /\ m.kind = "deposed"
                   /\ \/ chg[m.res] = "CreateThenDelete" /\ m.id = key(m.res)
                      \/ \E o \in s.deposed[m.res] : o.id = m.id
  <2>1. ASSUME NEW r \in Creating(chg), m = Creator(r, key(r))
        PROVE  m \in Node /\ m.kind = "create" /\ m.res \in Creating(chg) /\ m.id = key(m.res)
    BY <1>1, <2>1 DEF Creator, Node, Creating
  <2>2. ASSUME NEW r \in Res, chg[r] \in {"Delete", "DeleteThenCreate"}, m = Destroyer(r)
        PROVE  m \in Node /\ m.kind = "destroy" /\ m.id = 0 /\ m.res = r
    BY <2>2 DEF Destroyer, Node
  <2>3. ASSUME NEW r \in Res, NEW i \in Nat, m = Deposed(r, i)
        PROVE  m \in Node /\ m.kind = "deposed" /\ m.res = r /\ m.id = i
    BY <2>3 DEF Deposed, Node
  <2> QED
    BY <1>1, <1>2, <1>3, <1>6, <2>1, <2>2, <2>3
<1>7. ASSUME m \in Node,
             \/ m.kind = "create" /\ m.res \in Creating(chg) /\ m.id = key(m.res)
             \/ m.kind = "destroy" /\ m.id = 0 /\ chg[m.res] \in {"Delete", "DeleteThenCreate"}
             \/ /\ m.kind = "deposed"
                /\ \/ chg[m.res] = "CreateThenDelete" /\ m.id = key(m.res)
                   \/ \E o \in s.deposed[m.res] : o.id = m.id
      PROVE  m \in DiffNodes(chg, s)
  BY <1>3, <1>5, <1>7 DEF Creator, Destroyer, Deposed
<1>8. m.res \in Creating(chg) => m.res \in Res
  BY DEF Creating
<1>9. m \in Node /\ m.res \in Creating(chg) =>
        key(m.res) = IF chg[m.res] = "CreateThenDelete" THEN s.current[m.res].id ELSE 0
  BY DEF key
<1> QED
  BY <1>4, <1>5, <1>6, <1>7, <1>8, <1>9

\* The edges connect nodes, and the creator of a DeleteThenCreate depends on the destroyer
\* of the old object unless that one is create_before_destroy.
LEMMA GraphEdgesAre ==
  ASSUME NEW c, NEW s, NEW chg
  PROVE  /\ GraphEdges(c, s, chg) \subseteq DiffNodes(chg, s) \X DiffNodes(chg, s)
         /\ \A n, m \in DiffNodes(chg, s) :
              n.kind = "create" /\ m.kind = "destroy" /\ n.res = m.res /\ ~s.current[n.res].cbd
                => <<n, m>> \in GraphEdges(c, s, chg)
<1> DEFINE N == DiffNodes(chg, s)
           E == ReferenceEdges(c, N) \union DestroyEdges(c, s, N)
           I == {e \in E : e[1].kind = "create" /\ e[2].kind # "create" /\ DestroyCBD(s, e[2])}
<1>1. GraphEdges(c, s, chg) = (E \ I) \union {<<e[2], e[1]>> : e \in I}
  BY DEF GraphEdges, CBDEdges
<1>2. E \subseteq N \X N
  BY DEF ReferenceEdges, DestroyEdges
<1>3. \A n, m \in N : n.kind = "create" /\ m.kind # "create" /\ n.res = m.res => <<n, m>> \in E
  BY DEF DestroyEdges
<1> HIDE DEF N, E
<1>4. \A e \in I : <<e[2], e[1]>> \in N \X N
  BY <1>2
<1>5. ASSUME NEW n \in N, NEW m \in N,
             n.kind = "create", m.kind = "destroy", n.res = m.res, ~s.current[n.res].cbd
      PROVE  <<n, m>> \in E \ I
  <2>1. ~DestroyCBD(s, m)
    BY <1>5 DEF DestroyCBD
  <2>2. <<n, m>> \in E
    BY <1>3, <1>5
  <2> QED
    BY <2>1, <2>2
<1> HIDE DEF I
<1> QED
  BY <1>1, <1>2, <1>4, <1>5 DEF N, I
\* Refreshing and planning lose no object that exists.
LEMMA PlanTracks ==
  ASSUME NEW s0 \in State, NEW c, NEW chg, NEW s, NEW t,
         s = Refreshed(c, s0), t = Finalised(c, s, chg),
         \A r \in Res : chg[r] \in PlannedAction(c, s, chg, r)
  PROVE  Tracked(t) = Tracked(s0) \intersect Existing
<1>1. \A r \in Res : \A i : At(t, r, i) <=> At(s0, r, i) /\ i \in Existing
  <2> SUFFICES ASSUME NEW r \in Res, NEW i PROVE At(t, r, i) <=> At(s0, r, i) /\ i \in Existing
    OBVIOUS
  <2>1. /\ t.deposed[r] = {o \in s0.deposed[r] : o.id \in Existing}
        /\ t.current[r] # NoObject <=> s0.current[r] # NoObject /\ s0.current[r].id \in Existing
        /\ t.current[r] # NoObject => t.current[r].id = s0.current[r].id
    BY PlannedState
  <2> QED
    BY <2>1 DEF At
<1>2. \A i : i \in Tracked(t) <=> i \in Tracked(s0) /\ i \in Existing
  BY <1>1, TrackedIs
<1> QED
  BY <1>2

\* The nodes of a plan, in terms of the state that the run starts from.
LEMMA PlanNodes ==
  ASSUME NEW s0 \in State, NEW c, NEW chg, NEW s, NEW t,
         s = Refreshed(c, s0), t = Finalised(c, s, chg),
         \A r \in Res : chg[r] \in PlannedAction(c, s, chg, r)
  PROVE  /\ DiffNodes(chg, t) = DiffNodes(chg, s)
         /\ \A m : m \in DiffNodes(chg, s) <=>
              /\ m \in Node
              /\ \/ /\ m.kind = "create" /\ m.res \in Creating(chg)
                    /\ m.id = IF chg[m.res] = "CreateThenDelete" THEN t.current[m.res].id ELSE 0
                 \/ m.kind = "destroy" /\ m.id = 0 /\ chg[m.res] \in {"Delete", "DeleteThenCreate"}
                 \/ /\ m.kind = "deposed"
                    /\ \/ chg[m.res] = "CreateThenDelete" /\ m.id = t.current[m.res].id
                       \/ \E o \in t.deposed[m.res] : o.id = m.id
<1>1. /\ s \in State /\ t \in State
      /\ \A r \in Res : /\ chg[r] # "NoOp" => t.current[r] = s.current[r]
                        /\ t.deposed[r] = s.deposed[r]
  BY PlannedState
<1>2. \A r \in Res : chg[r] = "CreateThenDelete" =>
        t.current[r] # NoObject /\ s.current[r] = t.current[r]
  BY <1>1, PlannedChange
<1>3. \A m : m \in Node => m.res \in Res
  BY DEF Node
<1>4. \A m : m \in DiffNodes(chg, t) <=>
        /\ m \in Node
        /\ \/ /\ m.kind = "create" /\ m.res \in Creating(chg)
              /\ m.id = IF chg[m.res] = "CreateThenDelete" THEN t.current[m.res].id ELSE 0
           \/ m.kind = "destroy" /\ m.id = 0 /\ chg[m.res] \in {"Delete", "DeleteThenCreate"}
           \/ /\ m.kind = "deposed"
              /\ \/ chg[m.res] = "CreateThenDelete" /\ m.id = t.current[m.res].id
                 \/ \E o \in t.deposed[m.res] : o.id = m.id
  BY <1>1, <1>2, DiffNodesAre
<1>5. \A m : m \in DiffNodes(chg, s) <=>
        /\ m \in Node
        /\ \/ /\ m.kind = "create" /\ m.res \in Creating(chg)
              /\ m.id = IF chg[m.res] = "CreateThenDelete" THEN s.current[m.res].id ELSE 0
           \/ m.kind = "destroy" /\ m.id = 0 /\ chg[m.res] \in {"Delete", "DeleteThenCreate"}
           \/ /\ m.kind = "deposed"
              /\ \/ chg[m.res] = "CreateThenDelete" /\ m.id = s.current[m.res].id
                 \/ \E o \in s.deposed[m.res] : o.id = m.id
  BY <1>1, <1>2, DiffNodesAre
<1>6. \A m : m \in DiffNodes(chg, t) <=> m \in DiffNodes(chg, s)
  <2> SUFFICES ASSUME NEW m PROVE m \in DiffNodes(chg, t) <=> m \in DiffNodes(chg, s)
    OBVIOUS
  <2> QED
    BY <1>1, <1>2, <1>3, <1>4, <1>5
<1>7. DiffNodes(chg, t) = DiffNodes(chg, s)
  BY <1>6
<1> QED
  BY <1>4, <1>7

\* A plan sets up nodes that will find the objects they expect.
LEMMA PlanPreserves ==
  ASSUME TypeInv, Plan
  PROVE  TypeInv'
<1>1. PICK c \in Configs, chg \in [Res -> Actions] :
        LET s == Refreshed(c, saved) IN
         /\ \A r \in Res : chg[r] \in PlannedAction(c, s, chg, r)
         /\ config' = c
         /\ change' = chg
         /\ state' = Finalised(c, s, chg)
         /\ edges' = GraphEdges(c, state', chg)
         /\ walk' = [n \in DiffNodes(chg, s) |->
                        IF Acyclic(DiffNodes(chg, s), edges') THEN "wait" ELSE "refused"]
  BY DEF Plan
<1> DEFINE s == Refreshed(c, saved)
           N == DiffNodes(chg, s)
           ac == Acyclic(N, edges')
<1>2. /\ running' = TRUE /\ fresh' = {} /\ clean' = TRUE /\ runs' = runs + 1 /\ runs < MaxRuns
      /\ UNCHANGED <<saved, world, lost, faults>>
  BY DEF Plan
<1>3. saved \in State
  BY DEF TypeInv, TypeOK
<1>4. /\ s \in State /\ state' \in State
      /\ \A r \in Res :
           /\ r \in c.present /\ state'.current[r] # NoObject => state'.current[r].cbd = PlanCBD(c, r)
           /\ chg[r] # "NoOp" => state'.current[r] = s.current[r]
           /\ s.current[r] = NoObject <=> state'.current[r] = NoObject
           /\ state'.deposed[r] = s.deposed[r]
  BY <1>1, <1>3, PlannedState
<1>5. \A r \in Res :
        /\ state'.current[r] = NoObject <=> chg[r] \in {"None", "Create"}
        /\ chg[r] = "DeleteThenCreate" => r \in c.present /\ ~PlanCBD(c, r)
  BY <1>1, <1>4, PlannedChange
<1>6. Tracked(state') = Tracked(saved) \intersect Existing
  BY <1>1, <1>3, PlanTracks
<1>7. walk' = [n \in N |-> IF ac THEN "wait" ELSE "refused"]
  BY <1>1
<1>8. change' = chg /\ config' = c /\ edges' = GraphEdges(c, state', chg)
  BY <1>1
<1>9. /\ DiffNodes(chg, state') = N
      /\ \A m : m \in N <=>
         /\ m \in Node
         /\ \/ /\ m.kind = "create" /\ m.res \in Creating(chg)
               /\ m.id = IF chg[m.res] = "CreateThenDelete" THEN state'.current[m.res].id ELSE 0
            \/ m.kind = "destroy" /\ m.id = 0 /\ chg[m.res] \in {"Delete", "DeleteThenCreate"}
            \/ /\ m.kind = "deposed"
               /\ \/ chg[m.res] = "CreateThenDelete" /\ m.id = state'.current[m.res].id
                  \/ \E o \in state'.deposed[m.res] : o.id = m.id
  BY <1>1, <1>3, PlanNodes
<1> HIDE DEF s
<1>10. /\ edges' \subseteq N \X N
       /\ \A n, m \in N : n.kind = "create" /\ m.kind = "destroy" /\ n.res = m.res
                            /\ ~state'.current[n.res].cbd => <<n, m>> \in edges'
  BY <1>8, <1>9, GraphEdgesAre
<1> HIDE DEF N
<1>12. DOMAIN walk' = N /\ \A n \in N : walk'[n] = (IF ac THEN "wait" ELSE "refused")
  BY <1>7
<1> HIDE DEF ac
<1>13. TypeOK'
  <2>1. N \subseteq Node
    BY <1>9
  <2>2. walk' \in [DOMAIN walk' -> {"wait", "run", "ok", "fail", "refused"}]
    BY <1>7
  <2>3. runs' \in 0..MaxRuns
    <3>1. runs \in 0..MaxRuns /\ MaxRuns \in Nat
      BY ApplyAssumption DEF TypeInv, TypeOK
    <3> QED
      BY <1>2, <3>1
  <2> QED
    BY <1>2, <1>4, <1>8, <1>10, <1>12, <2>1, <2>2, <2>3 DEF TypeInv, TypeOK, Existing
<1>14. FiniteInv'
  <2>1. IsFiniteSet(Tracked(state'))
    BY <1>6, FS_Subset DEF TypeInv, FiniteInv
  <2> QED
    BY <1>2, <2>1, FS_EmptySet DEF TypeInv, FiniteInv, Existing
<1>15. NodesOK'
  <2> SUFFICES ASSUME NEW n \in N
               PROVE  /\ n.kind = "create" =>
                          /\ n.res \in Creating(chg)
                          /\ n.id # 0 => chg[n.res] = "CreateThenDelete"
                          /\ \A m \in N : m.kind = "create" /\ m.res = n.res => m = n
                      /\ n.kind = "destroy" =>
                          n = Destroyer(n.res) /\ chg[n.res] \in {"Delete", "DeleteThenCreate"}
    BY <1>8, <1>12 DEF NodesOK
  <2>1. \A m \in N : m \in Node /\ m = [kind |-> m.kind, res |-> m.res, id |-> m.id]
    BY <1>9 DEF Node
  <2> QED
    BY <1>9, <2>1 DEF Destroyer
<1>16. CreatorsOK'
  <2> SUFFICES ASSUME NEW n \in N, n.kind = "create", walk'[n] \in {"wait", "refused"},
                      \A m \in N : walk'[m] # "ok"
               PROVE  /\ chg[n.res] = "Create" => state'.current[n.res] = NoObject
                      /\ chg[n.res] \in {"Update", "CreateThenDelete"} => state'.current[n.res] # NoObject
                      /\ chg[n.res] = "DeleteThenCreate" =>
                           Destroyer(n.res) \in N /\ <<n, Destroyer(n.res)>> \in edges'
    BY <1>8, <1>12 DEF CreatorsOK, Pending
  <2>1. n.res \in Res
    BY <1>9 DEF Creating
  <2>2. CASE chg[n.res] = "DeleteThenCreate"
    <3> DEFINE d == Destroyer(n.res)
    <3>1. d \in Node /\ d.kind = "destroy" /\ d.id = 0 /\ d.res = n.res
      BY <2>1 DEF Destroyer, Node
    <3>2. d \in N
      BY <1>9, <2>2, <3>1
    <3>3. ~state'.current[n.res].cbd
      BY <1>4, <1>5, <2>1, <2>2
    <3> QED
      BY <1>10, <2>2, <3>1, <3>2, <3>3
  <2> QED
    BY <1>5, <2>1, <2>2
<1>17. DestroyersOK'
  <2> SUFFICES ASSUME NEW n \in N
               PROVE  /\ n.kind = "destroy" => state'.current[n.res] # NoObject
                      /\ n.kind = "deposed" =>
                          \/ \E o \in state'.deposed[n.res] : o.id = n.id
                          \/ /\ chg[n.res] = "CreateThenDelete"
                             /\ state'.current[n.res] # NoObject /\ state'.current[n.res].id = n.id
    BY <1>8, <1>12 DEF DestroyersOK, Pending
  <2>1. n.res \in Res
    BY <1>9 DEF Node
  <2> QED
    BY <1>5, <1>9, <2>1
<1>18. RefusedOK'
  BY <1>2, <1>12 DEF RefusedOK, Refused
<1>19. IdleOK'
  BY <1>2 DEF IdleOK
<1> QED
  BY <1>13, <1>14, <1>15, <1>16, <1>17, <1>18, <1>19 DEF TypeInv
-----------------------------------------------------------------------------
(***************************************************************************)
(* The nodes keep the invariant.                                           *)
(***************************************************************************)
NodeStep(n) ==
    \/ Start(n) \/ EndEarly(n) \/ Create(n) \/ CreateNothing(n) \/ Update(n)
    \/ Destroy(n) \/ DestroyFails(n)

\* A node moves on by itself; the graph stays.
LEMMA NodeFrame ==
  ASSUME TypeInv, NEW n \in DOMAIN walk, NodeStep(n)
  PROVE  /\ running /\ running' /\ change' = change /\ edges' = edges /\ config' = config
         /\ lost' = lost /\ runs' = runs
         /\ DOMAIN walk' = DOMAIN walk
         /\ \A m \in DOMAIN walk : m # n => walk'[m] = walk[m]
         /\ \/ /\ Start(n) /\ walk[n] = "wait" /\ walk'[n] = "run" /\ UNCHANGED <<clean, faults>>
               /\ \A m \in DOMAIN walk : <<n, m>> \in edges => walk[m] = "ok"
            \/ ~Start(n) /\ walk[n] = "run" /\ walk'[n] \in {"ok", "fail"}
         /\ walk' \in [DOMAIN walk -> {"wait", "run", "ok", "fail", "refused"}]
         /\ clean' \in BOOLEAN /\ faults' \in 0..MaxFaults
<1> USE DEF TypeInv, TypeOK, graph, hist
<1>1. CASE Start(n)
  BY <1>1 DEF Start, Ready
<1>2. ASSUME NEW ok \in BOOLEAN, Ends(n, ok), ~Start(n)
      PROVE  /\ running /\ running' /\ change' = change /\ edges' = edges /\ config' = config
             /\ lost' = lost /\ runs' = runs
             /\ DOMAIN walk' = DOMAIN walk
             /\ \A m \in DOMAIN walk : m # n => walk'[m] = walk[m]
             /\ walk[n] = "run" /\ walk'[n] \in {"ok", "fail"}
             /\ walk' \in [DOMAIN walk -> {"wait", "run", "ok", "fail", "refused"}]
             /\ clean' \in BOOLEAN /\ faults' \in 0..MaxFaults
  BY <1>2, ApplyAssumption DEF Ends
<1>3. CASE ~Start(n)
  <2>1. \E ok \in BOOLEAN : Ends(n, ok)
    BY <1>3 DEF NodeStep, EndEarly, Create, CreateNothing, Update, Destroy, DestroyFails
  <2> QED
    BY <1>2, <1>3, <2>1
<1> QED
  BY <1>1, <1>3

\* Each node changes the objects of its own resource only.
LEMMA NodeStateFrame ==
  ASSUME TypeInv, NEW n \in DOMAIN walk, NodeStep(n)
  PROVE  /\ n.res \in Res /\ state' \in State /\ Frame(n.res)
         /\ saved' \in {saved, state'}
         /\ Existing' \subseteq Nat \ {0} /\ world' \in [Existing' -> SUBSET Nat]
         /\ fresh' \subseteq Nat
<1>1. /\ n.res \in Res /\ state \in State /\ Existing \subseteq Nat \ {0}
      /\ world \in [Existing -> SUBSET Nat] /\ fresh \subseteq Nat
      /\ config.refs[n.res] \subseteq Res
  <2>1. config.refs[n.res] \subseteq Res
    BY ApplyAssumption DEF TypeInv, TypeOK, Node, NoConfig, Config
  <2> QED
    BY <2>1 DEF TypeInv, TypeOK, Node
<1>2. Uses(config, state, n.res) \subseteq Nat
  BY <1>1, UsesType
<1>3. CASE Start(n)
  BY <1>1, <1>3, StartState DEF Start, Existing
<1>4. CASE EndEarly(n)
  BY <1>1, <1>4 DEF EndEarly, Frame, Existing
<1>5. CASE Create(n)
  <2>1. /\ world' = [i \in Existing \union {NewId} |->
                       IF i = NewId THEN Uses(config, state, n.res) ELSE world[i]]
        /\ fresh' = fresh \union {NewId} /\ StateHook
    BY <1>5 DEF Create
  <2>2. NewId \in Nat \ {0}
    BY NewIdType DEF TypeInv
  <2>3. Existing' = Existing \union {NewId}
    BY <2>1 DEF Existing
  <2>4. world' \in [Existing' -> SUBSET Nat]
    BY <1>1, <1>2, <2>1, <2>3
  <2> QED
    BY <1>1, <1>5, <2>1, <2>2, <2>3, <2>4, CreateState DEF StateHook
<1>6. CASE CreateNothing(n)
  BY <1>1, <1>6, CreateNothingState DEF CreateNothing, StateHook, Existing
<1>7. CASE Update(n)
  <2>1. Existing' = Existing /\ world' \in [Existing -> SUBSET Nat]
    BY <1>1, <1>2, <1>7 DEF Update, Existing
  <2>2. fresh' = fresh /\ StateHook
    BY <1>7 DEF Update
  <2> QED
    BY <1>1, <1>7, <2>1, <2>2, UpdateState DEF StateHook
<1>8. CASE Destroy(n)
  BY <1>1, <1>8, DestroyState DEF Destroy, StateHook
<1>9. CASE DestroyFails(n)
  BY <1>1, <1>9, DestroyFailsState DEF DestroyFails, StateHook
<1> QED
  BY <1>3, <1>4, <1>5, <1>6, <1>7, <1>8, <1>9 DEF NodeStep
\* A change of the objects of r that keeps their identities leaves the others alone.
LEMMA TrackedSame ==
  ASSUME NEW r \in Res, Frame(r), \A i : At(state', r, i) <=> At(state, r, i)
  PROVE  Tracked(state') = Tracked(state)
<1>1. \A x \in Res : \A i : At(state', x, i) <=> At(state, x, i)
  BY DEF Frame, At
<1>2. \A i : i \in Tracked(state') <=> i \in Tracked(state)
  BY <1>1, TrackedIs
<1> QED
  BY <1>2

\* A node keeps track of every object, apart from one that it creates or destroys.
LEMMA NodeTracks ==
  ASSUME TypeInv, NEW n \in DOMAIN walk, NodeStep(n)
  PROVE  /\ Existing' \subseteq Existing \union (fresh' \intersect Tracked(state'))
         /\ fresh \subseteq fresh' /\ fresh' \subseteq fresh \union {NewId}
         /\ Tracked(state') \subseteq Tracked(state) \union {NewId}
         /\ Existing' \intersect Tracked(state) \subseteq Tracked(state')
<1> DEFINE r == n.res
<1>1. r \in Res /\ Frame(r) /\ state \in State /\ state' \in State
  BY NodeStateFrame DEF TypeInv, TypeOK
<1>2. ASSUME Existing' \subseteq Existing, fresh' = fresh, \A i : At(state', r, i) <=> At(state, r, i)
      PROVE  /\ Existing' \subseteq Existing \union (fresh' \intersect Tracked(state'))
             /\ fresh \subseteq fresh' /\ fresh' \subseteq fresh \union {NewId}
             /\ Tracked(state') \subseteq Tracked(state) \union {NewId}
             /\ Existing' \intersect Tracked(state) \subseteq Tracked(state')
  <2>1. Tracked(state') = Tracked(state)
    BY <1>1, <1>2, TrackedSame
  <2> QED
    BY <1>2, <2>1
<1>3. CASE Start(n)
  <2>1. \A i : At(state', r, i) <=> At(state, r, i)
    BY <1>3, StartState DEF At
  <2> QED
    BY <1>2, <1>3, <2>1 DEF Start, Existing
<1>4. CASE EndEarly(n)
  BY <1>2, <1>4 DEF EndEarly, Existing
<1>5. CASE Create(n)
  <2>1. \A i : At(state', r, i) <=> At(state, r, i) \/ i = NewId
    BY <1>5, CreateState DEF At
  <2>2. \A x \in Res : \A i : x # r => (At(state', x, i) <=> At(state, x, i))
    BY <1>1 DEF Frame, At
  <2>3. \A i : i \in Tracked(state') <=> i \in Tracked(state) \/ i = NewId
    BY <1>1, <2>1, <2>2, TrackedIs
  <2>4. Existing' = Existing \union {NewId} /\ fresh' = fresh \union {NewId}
    BY <1>5 DEF Create, Existing
  <2> QED
    BY <2>3, <2>4
<1>6. CASE CreateNothing(n)
  <2>1. \A i : At(state', r, i) <=> At(state, r, i)
    BY <1>6, CreateNothingState DEF At
  <2> QED
    BY <1>2, <1>6, <2>1 DEF CreateNothing, Existing
<1>7. CASE Update(n)
  <2>1. \A i : At(state', r, i) <=> At(state, r, i)
    BY <1>7, UpdateState DEF At
  <2>2. Existing' = Existing
    BY <1>7 DEF Update, Existing
  <2> QED
    BY <1>2, <1>7, <2>1, <2>2 DEF Update
<1>8. CASE Destroy(n)
  <2>1. \A i : /\ At(state', r, i) => At(state, r, i)
               /\ At(state, r, i) => At(state', r, i) \/ i = Target(n).id
    BY <1>8, DestroyState DEF At
  <2>2. \A x \in Res : \A i : x # r => (At(state', x, i) <=> At(state, x, i))
    BY <1>1 DEF Frame, At
  <2>3. \A i : /\ i \in Tracked(state') => i \in Tracked(state)
               /\ i \in Tracked(state) => i \in Tracked(state') \/ i = Target(n).id
    BY <2>1, <2>2, TrackedIs
  <2>4. Existing' = Existing \ {Target(n).id} /\ fresh' = fresh
    BY <1>8, DestroyState DEF Destroy
  <2> QED
    BY <2>3, <2>4
<1>9. CASE DestroyFails(n)
  <2>1. walk[n] = "run" /\ n.kind # "create"
    BY <1>9 DEF DestroyFails, Ends
  <2>2. \A i : At(state', r, i) <=> At(state, r, i)
    BY <1>9, <2>1, DestroyFailsState, TargetIs DEF At
  <2>3. Existing' \subseteq Existing /\ fresh' = fresh
    BY <1>9, DestroyFailsState DEF DestroyFails
  <2> QED
    BY <1>2, <2>2, <2>3
<1> QED
  BY <1>3, <1>4, <1>5, <1>6, <1>7, <1>8, <1>9 DEF NodeStep
\* No creator finds an object that it would overwrite, whatever the other nodes do.
LEMMA CreatorsPreserved ==
  ASSUME TypeInv, NEW n \in DOMAIN walk, NodeStep(n)
  PROVE  CreatorsOK'
<1>1. /\ change' = change /\ edges' = edges /\ DOMAIN walk' = DOMAIN walk
      /\ \A m \in DOMAIN walk : m # n => walk'[m] = walk[m]
      /\ n.res \in Res /\ Frame(n.res)
  BY NodeFrame, NodeStateFrame
<1> DEFINE OK(m) ==
      LET none == state'.current[m.res] = NoObject
          pending == walk'[m] \in {"wait", "run"} IN
      /\ change[m.res] = "Create" /\ pending => none
      /\ change[m.res] = "Update" /\ pending => ~none
      /\ change[m.res] = "CreateThenDelete" =>
            (walk'[m] = "wait" => ~none) /\ (walk'[m] = "run" => none)
      /\ change[m.res] = "DeleteThenCreate" =>
            /\ Destroyer(m.res) \in DOMAIN walk /\ <<m, Destroyer(m.res)>> \in edges
            /\ walk'[m] = "run" => walk'[Destroyer(m.res)] = "ok"
            /\ walk'[Destroyer(m.res)] = "ok" /\ pending => none
<1> SUFFICES ASSUME NEW m \in DOMAIN walk, m.kind = "create" PROVE OK(m)
  BY <1>1 DEF CreatorsOK, Pending
<1>2. m.res \in Res /\ n \in Node /\ m.res \in Creating(change) /\ Destroyer(m.res).res = m.res
      /\ Destroyer(m.res).kind = "destroy"
  BY DEF TypeInv, TypeOK, Node, NodesOK, Destroyer
<1>3. LET none == state.current[m.res] = NoObject IN
      /\ change[m.res] = "Create" /\ Pending(m) => none
      /\ change[m.res] = "Update" /\ Pending(m) => ~none
      /\ change[m.res] = "CreateThenDelete" =>
            (walk[m] = "wait" => ~none) /\ (walk[m] = "run" => none)
      /\ change[m.res] = "DeleteThenCreate" =>
            /\ Destroyer(m.res) \in DOMAIN walk /\ <<m, Destroyer(m.res)>> \in edges
            /\ walk[m] = "run" => walk[Destroyer(m.res)] = "ok"
            /\ walk[Destroyer(m.res)] = "ok" /\ Pending(m) => none
  BY DEF TypeInv, CreatorsOK
<1>4. CASE m.res # n.res
  <2>1. walk'[m] = walk[m] /\ state'.current[m.res] = state.current[m.res]
    BY <1>1, <1>2, <1>4 DEF Frame
  <2>2. change[m.res] = "DeleteThenCreate" => walk'[Destroyer(m.res)] = walk[Destroyer(m.res)]
    BY <1>1, <1>2, <1>3, <1>4
  <2> QED
    BY <1>3, <2>1, <2>2 DEF Pending
<1>5. CASE m = n
  <2>1. CASE Start(n)
    <3>1. walk[n] = "wait" /\ walk'[n] = "run"
          /\ \A x \in DOMAIN walk : <<n, x>> \in edges => walk[x] = "ok"
      BY <2>1, NodeFrame DEF Start, Ready
    <3>2. Destroyer(m.res) # n
      BY <1>2, <1>5
    <3>3. CASE change[m.res] = "CreateThenDelete"
      BY <1>5, <2>1, <3>1, <3>3, StartState
    <3>4. CASE change[m.res] # "CreateThenDelete"
      <4>1. state' = state
        BY <1>5, <2>1, <3>4, StartState
      <4> QED
        BY <1>1, <1>3, <1>5, <3>1, <3>2, <3>4, <4>1 DEF Pending
    <3> QED
      BY <3>3, <3>4
  <2>2. CASE ~Start(n)
    <3>1. walk'[n] \in {"ok", "fail"} /\ walk[n] = "run"
      BY <2>2, NodeFrame
    <3>2. change[m.res] = "DeleteThenCreate" => walk'[Destroyer(m.res)] = walk[Destroyer(m.res)]
      BY <1>1, <1>2, <1>3, <1>5
    <3> QED
      BY <1>3, <1>5, <3>1, <3>2
  <2> QED
    BY <2>1, <2>2
<1>6. CASE m # n /\ m.res = n.res
  <2>1. n.kind \in {"destroy", "deposed"} /\ walk'[m] = walk[m]
    BY <1>1, <1>2, <1>6 DEF TypeInv, NodesOK, Node
  <2>2. CASE n.kind = "destroy"
    <3>1. n = Destroyer(m.res) /\ change[m.res] = "DeleteThenCreate"
      BY <1>2, <1>6, <2>2 DEF TypeInv, NodesOK, Creating, IsReplace
    <3>2. Pending(n)
      BY NodeFrame DEF Pending
    <3>3. walk[m] # "run"
      BY <1>3, <3>1, <3>2 DEF Pending
    <3>4. walk'[n] = "ok" => state'.current[m.res] = NoObject
      <4>1. walk'[n] = "ok" => Destroy(n)
        BY <2>2 DEF NodeStep, Start, EndEarly, Create, CreateNothing, Update, Creates, Updates,
                    DestroyFails, Ends
      <4> QED
        BY <1>6, <2>2, <4>1, DestroyState
    <3> QED
      BY <1>3, <2>1, <3>1, <3>3, <3>4
  <2>3. CASE n.kind = "deposed"
    <3>1. state'.current[n.res] = state.current[n.res]
      BY <2>3, StartState, DestroyState, DestroyFailsState
         DEF NodeStep, EndEarly, Create, CreateNothing, Update, Creates, Updates
    <3>2. change[m.res] = "DeleteThenCreate" => walk'[Destroyer(m.res)] = walk[Destroyer(m.res)]
      BY <1>1, <1>2, <1>3, <2>3
    <3> QED
      BY <1>3, <1>6, <2>1, <3>1, <3>2 DEF Pending
  <2> QED
    BY <2>1, <2>2, <2>3
<1> QED
  BY <1>4, <1>5, <1>6
\* Every destroyer finds its object, whatever the other nodes do.
LEMMA DestroyersPreserved ==
  ASSUME TypeInv, NEW n \in DOMAIN walk, NodeStep(n)
  PROVE  DestroyersOK'
<1>1. /\ change' = change /\ DOMAIN walk' = DOMAIN walk
      /\ \A m \in DOMAIN walk : m # n => walk'[m] = walk[m]
      /\ n.res \in Res /\ Frame(n.res)
  BY NodeFrame, NodeStateFrame
<1> DEFINE Here(s, m) ==
      \/ \E o \in s.deposed[m.res] : o.id = m.id
      \/ /\ change[m.res] = "CreateThenDelete"
         /\ s.current[m.res] # NoObject /\ s.current[m.res].id = m.id
<1> SUFFICES ASSUME NEW m \in DOMAIN walk, walk'[m] \in {"wait", "run"}
             PROVE  /\ m.kind = "destroy" => state'.current[m.res] # NoObject
                    /\ m.kind = "deposed" => Here(state', m)
  BY <1>1 DEF DestroyersOK, Pending
<1>2. m \in Node /\ n \in Node /\ m.res \in Res
  BY DEF TypeInv, TypeOK, Node
<1>3. Pending(m) /\ (m = n => Start(n))
  BY <1>1, NodeFrame DEF Pending
<1>4. /\ m.kind = "destroy" => state.current[m.res] # NoObject
      /\ m.kind = "deposed" => Here(state, m)
  BY <1>3 DEF TypeInv, DestroyersOK
<1>5. CASE m.res # n.res
  BY <1>1, <1>2, <1>4, <1>5 DEF Frame
<1>6. CASE m.res = n.res /\ m.kind = "destroy"
  <2>1. m = Destroyer(m.res) /\ change[m.res] \in {"Delete", "DeleteThenCreate"}
    BY <1>6 DEF TypeInv, NodesOK
  <2>2. n.kind = "create" => change[n.res] = "DeleteThenCreate" /\ walk[n] # "run"
    <3> SUFFICES ASSUME n.kind = "create" PROVE change[n.res] = "DeleteThenCreate" /\ walk[n] # "run"
      OBVIOUS
    <3>1. n.res \in Creating(change)
      BY DEF TypeInv, NodesOK
    <3>2. change[n.res] = "DeleteThenCreate"
      BY <1>6, <2>1, <3>1 DEF Creating, IsReplace
    <3>3. walk[n] = "run" => walk[m] = "ok"
      <4>1. Destroyer(n.res) = m
        BY <1>6, <2>1
      <4> QED
        BY <3>2, <4>1 DEF TypeInv, CreatorsOK
    <3> QED
      BY <1>3, <3>2, <3>3 DEF Pending
  <2>3. CASE Start(n)
    BY <1>4, <1>6, <2>2, <2>3, StartState
  <2>4. CASE ~Start(n)
    <3>1. walk[n] = "run" /\ m # n
      BY <1>3, <2>4, NodeFrame
    <3>2. n.kind \in {"destroy", "deposed"}
      BY <1>2, <2>2, <3>1 DEF Node
    <3>3. n.kind = "deposed"
      BY <1>6, <2>1, <3>1, <3>2 DEF TypeInv, NodesOK
    <3>4. state'.current[n.res] = state.current[n.res]
      BY <2>4, <3>3, DestroyState, DestroyFailsState
         DEF NodeStep, EndEarly, Create, CreateNothing, Update, Creates, Updates
    <3> QED
      BY <1>4, <1>6, <3>4
  <2> QED
    BY <2>3, <2>4
<1>7. CASE m.res = n.res /\ m.kind = "deposed"
  <2>1. Here(state, m)
    BY <1>4, <1>7
  <2>2. CASE Start(n)
    BY <1>7, <2>1, <2>2, StartState
  <2>3. CASE EndEarly(n)
    <3>1. state' = state
      BY <2>3 DEF EndEarly
    <3> QED
      BY <1>7, <2>1, <3>1
  <2>4. CASE Create(n)
    BY <1>7, <2>1, <2>4, CreateState
  <2>5. CASE CreateNothing(n)
    BY <1>7, <2>1, <2>5, CreateNothingState
  <2>6. CASE Update(n)
    BY <1>7, <2>1, <2>6, UpdateState
  <2>7. n.kind = "destroy" => change[n.res] \in {"Delete", "DeleteThenCreate"}
    BY DEF TypeInv, NodesOK
  <2>8. ASSUME n.kind = "deposed", ~Start(n) PROVE n.id # m.id
    BY <1>2, <1>3, <1>7, <2>8 DEF Node
  <2>9. CASE Destroy(n)
    <3>1. ~Start(n)
      BY <2>9 DEF Start, Ready, Destroy, Ends
    <3> QED
      BY <1>7, <2>1, <2>7, <2>8, <2>9, <3>1, DestroyState
  <2>10. CASE DestroyFails(n)
    <3>1. ~Start(n)
      BY <2>10 DEF Start, Ready, DestroyFails, Ends
    <3> QED
      BY <1>7, <2>1, <2>7, <2>8, <2>10, <3>1, DestroyFailsState
  <2> QED
    BY <2>2, <2>3, <2>4, <2>5, <2>6, <2>9, <2>10 DEF NodeStep
<1> QED
  BY <1>5, <1>6, <1>7

\* A node keeps the whole invariant.
LEMMA NodePreserves ==
  ASSUME TypeInv, NEW n \in DOMAIN walk, NodeStep(n)
  PROVE  TypeInv'
<1>1. TypeOK'
  <2>1. edges' \subseteq (DOMAIN walk') \X (DOMAIN walk') /\ change' \in [Res -> Actions]
    BY NodeFrame DEF TypeInv, TypeOK
  <2>2. saved' \in State
    BY NodeStateFrame DEF TypeInv, TypeOK
  <2> QED
    BY <2>1, <2>2, NodeFrame, NodeStateFrame DEF TypeInv, TypeOK
<1>2. FiniteInv'
  <2> USE DEF TypeInv, FiniteInv
  <2>1. lost' = lost /\ saved' \in {saved, state'}
    BY NodeFrame, NodeStateFrame
  <2>2. IsFiniteSet(Tracked(state) \union {NewId}) /\ IsFiniteSet(fresh \union {NewId})
    BY FS_AddElement
  <2>3. IsFiniteSet(Tracked(state')) /\ IsFiniteSet(fresh')
    BY <2>2, NodeTracks, FS_Subset
  <2>4. IsFiniteSet(Existing \union fresh') /\ Existing' \subseteq Existing \union fresh'
    BY <2>3, FS_Union, NodeTracks
  <2>5. IsFiniteSet(Existing')
    BY <2>4, FS_Subset
  <2> QED
    BY <2>1, <2>3, <2>5
<1>3. NodesOK'
  BY NodeFrame DEF TypeInv, NodesOK
<1>4. RefusedOK'
  <2>1. \A m \in DOMAIN walk : walk[m] # "refused"
    BY NodeFrame DEF TypeInv, RefusedOK, Refused
  <2>2. \A m \in DOMAIN walk' : walk'[m] # "refused"
    BY <2>1, NodeFrame
  <2> QED
    BY <2>2 DEF RefusedOK, Refused
<1>5. IdleOK'
  BY NodeFrame DEF IdleOK
<1> QED
  BY <1>1, <1>2, <1>3, <1>4, <1>5, CreatorsPreserved, DestroyersPreserved DEF TypeInv

\* A node that cannot start has failed, and that is all.
LEMMA StartFailsFrame ==
  ASSUME TypeInv, NEW n \in DOMAIN walk, StartFails(n)
  PROVE  /\ running /\ running'
         /\ UNCHANGED <<config, change, edges, state, saved, world, fresh, lost, runs>>
         /\ DOMAIN walk' = DOMAIN walk /\ walk[n] = "wait" /\ walk'[n] = "fail"
         /\ \A m \in DOMAIN walk : m # n => walk'[m] = walk[m]
         /\ walk' \in [DOMAIN walk -> {"wait", "run", "ok", "fail", "refused"}]
         /\ \A m \in DOMAIN walk : <<n, m>> \in edges => walk[m] = "ok"
         /\ ~Refused /\ ~Refused'
         /\ clean' = FALSE /\ faults' \in 0..MaxFaults /\ faults' # 0
<1>1. /\ running /\ running' = running
      /\ UNCHANGED <<config, change, edges, state, saved, world, fresh, lost, runs>>
      /\ walk' = [walk EXCEPT ![n] = "fail"] /\ walk[n] = "wait"
      /\ \A m \in DOMAIN walk : <<n, m>> \in edges => walk[m] = "ok"
      /\ clean' = FALSE /\ faults < MaxFaults /\ faults' = faults + 1
  BY DEF StartFails, Ready, graph
<1>2. walk \in [DOMAIN walk -> {"wait", "run", "ok", "fail", "refused"}]
  BY DEF TypeInv, TypeOK
<1>3. ~Refused
  BY <1>1 DEF TypeInv, RefusedOK
<1>4. ~Refused'
  BY <1>1, <1>2, <1>3 DEF Refused
<1>5. faults' \in 0..MaxFaults /\ faults' # 0
  <2>1. faults \in 0..MaxFaults /\ MaxFaults \in Nat
    BY ApplyAssumption DEF TypeInv, TypeOK
  <2> QED
    BY <1>1, <2>1
<1> QED
  BY <1>1, <1>2, <1>3, <1>4, <1>5

\* It keeps the whole invariant.
LEMMA StartFailsPreserves ==
  ASSUME TypeInv, NEW n \in DOMAIN walk, StartFails(n)
  PROVE  TypeInv'
<1>1. TypeOK'
  BY StartFailsFrame DEF TypeInv, TypeOK, Existing
<1>2. FiniteInv'
  BY StartFailsFrame DEF TypeInv, FiniteInv, Existing
<1>3. NodesOK'
  BY StartFailsFrame DEF TypeInv, NodesOK
<1>4. /\ DOMAIN walk' = DOMAIN walk /\ UNCHANGED <<state, change, edges>>
      /\ \A m \in DOMAIN walk : walk'[m] \in {"wait", "run", "ok"} => walk'[m] = walk[m]
      /\ \A m \in DOMAIN walk : walk[m] = "ok" => walk'[m] = "ok"
  BY StartFailsFrame
<1>5. CreatorsOK'
  BY <1>4 DEF TypeInv, CreatorsOK, Pending
<1>6. DestroyersOK'
  BY <1>4 DEF TypeInv, DestroyersOK, Pending
<1>7. RefusedOK' /\ IdleOK'
  BY StartFailsFrame DEF RefusedOK, IdleOK
<1> QED
  BY <1>1, <1>2, <1>3, <1>5, <1>6, <1>7 DEF TypeInv
-----------------------------------------------------------------------------
(***************************************************************************)
(* The theorems.                                                           *)
(***************************************************************************)

\* Before the first run there is nothing.
LEMMA InitialInv == Init => TypeInv /\ TrackedInv
<1> SUFFICES ASSUME Init PROVE TypeInv /\ TrackedInv
  OBVIOUS
<1>1. Existing = {} /\ DOMAIN walk = {} /\ ~running /\ fresh = {} /\ lost = {} /\ state = saved
  BY DEF Init, Existing
<1>2. state \in State
  BY DEF Init, State, NoState
<1>3. Tracked(state) = {}
  <2>1. \A r \in Res : state.current[r] = NoObject /\ state.deposed[r] = {}
    BY DEF Init, NoState
  <2>2. \A i : i \notin Tracked(state)
    BY <2>1, TrackedIs DEF At
  <2> QED
    BY <2>2
<1>4. TypeOK
  <2>1. world \in [Existing -> SUBSET Nat] /\ change \in [Res -> Actions] /\ edges = {}
        /\ walk \in [DOMAIN walk -> {"wait", "run", "ok", "fail", "refused"}]
    BY DEF Init, Existing, Actions
  <2>2. runs \in 0..MaxRuns /\ faults \in 0..MaxFaults
    BY ApplyAssumption DEF Init
  <2> QED
    BY <1>1, <1>2, <2>1, <2>2 DEF Init, TypeOK
<1>5. FiniteInv
  BY <1>1, <1>3, FS_EmptySet DEF FiniteInv
<1> QED
  BY <1>1, <1>4, <1>5 DEF TypeInv, NodesOK, CreatorsOK, DestroyersOK, RefusedOK, Refused, IdleOK,
                          TrackedInv

\* A run that ends leaves the state for the next one.
LEMMA IdlePreserves ==
  ASSUME TypeInv, Idle, state' = saved', saved' \in {saved, state}, world' = world,
         clean' \in BOOLEAN, config' = config, runs' = runs, faults' \in 0..MaxFaults,
         lost' = lost \/ lost' = lost \union (fresh \ Tracked(saved))
  PROVE  TypeInv'
<1>1. DOMAIN walk' = {} /\ edges' = {} /\ running' = FALSE /\ fresh' = {}
      /\ change' \in [Res -> Actions] /\ walk' \in [{} -> {"wait", "run", "ok", "fail", "refused"}]
  BY DEF Idle, Actions
<1>2. IsFiniteSet(lost') /\ lost' \subseteq Nat
  <2>1. IsFiniteSet(lost) /\ IsFiniteSet(fresh) /\ lost \subseteq Nat /\ fresh \subseteq Nat
    BY DEF TypeInv, TypeOK, FiniteInv
  <2>2. IsFiniteSet(lost \union (fresh \ Tracked(saved)))
    BY <2>1, FS_Difference, FS_Union
  <2> QED
    BY <2>1, <2>2
<1>3. TypeOK'
  BY <1>1, <1>2 DEF TypeInv, TypeOK, Existing
<1>4. FiniteInv'
  <2>1. IsFiniteSet(Tracked(saved')) /\ IsFiniteSet(Tracked(state'))
    BY DEF TypeInv, FiniteInv
  <2> QED
    BY <1>1, <1>2, <2>1, FS_EmptySet DEF TypeInv, FiniteInv, Existing
<1> QED
  BY <1>1, <1>3, <1>4 DEF TypeInv, NodesOK, CreatorsOK, DestroyersOK, RefusedOK, Refused, IdleOK

\* The nodes of a run always find what they expect.
LEMMA TypeInvariant == Spec => []TypeInv
<1>1. TypeInv /\ [Next]_vars => TypeInv'
  <2> SUFFICES ASSUME TypeInv, [Next]_vars PROVE TypeInv'
    OBVIOUS
  <2>1. CASE Plan
    BY <2>1, PlanPreserves
  <2>2. ASSUME NEW n \in DOMAIN walk, NodeStep(n) PROVE TypeInv'
    BY <2>2, NodePreserves
  <2>3. CASE Finish
    <3>1. clean' \in BOOLEAN /\ faults' \in 0..MaxFaults
      BY <2>3 DEF Finish, hist, TypeInv, TypeOK
    <3> QED
      BY <2>3, <3>1, IdlePreserves DEF Finish, hist
  <2>4. CASE Crash
    <3>1. clean' \in BOOLEAN /\ faults' \in 0..MaxFaults
      <4>1. faults \in 0..MaxFaults /\ MaxFaults \in Nat
        BY ApplyAssumption DEF TypeInv, TypeOK
      <4>2. faults < MaxFaults /\ faults' = faults + 1 /\ clean' = FALSE
        BY <2>4 DEF Crash
      <4>3. faults' \in 0..MaxFaults
        BY <4>1, <4>2
      <4> QED
        BY <4>2, <4>3
    <3> QED
      BY <2>4, <3>1, IdlePreserves DEF Crash
  <2>5. CASE UNCHANGED vars
    <3> USE <2>5 DEF vars
    <3>1. TypeOK' /\ FiniteInv'
      BY DEF TypeInv, TypeOK, FiniteInv, Existing
    <3>2. NodesOK' /\ CreatorsOK' /\ DestroyersOK'
      BY DEF TypeInv, NodesOK, CreatorsOK, DestroyersOK, Pending
    <3>3. RefusedOK' /\ IdleOK'
      BY DEF TypeInv, RefusedOK, Refused, IdleOK
    <3> QED
      BY <3>1, <3>2, <3>3 DEF TypeInv
  <2>6. ASSUME NEW n \in DOMAIN walk, StartFails(n) PROVE TypeInv'
    BY <2>6, StartFailsPreserves
  <2> QED
    BY <2>1, <2>2, <2>3, <2>4, <2>5, <2>6 DEF Next, NodeStep
<1> QED
  BY <1>1, InitialInv, PTL DEF Spec

\* TypeOK: every variable keeps its type over any number of runs; no object is updated,
\* deposed or destroyed that is not there.
THEOREM TypeCorrect == Spec => []TypeOK
<1>1. TypeInv => TypeOK
  BY DEF TypeInv
<1> QED
  BY <1>1, TypeInvariant, PTL

\* NothingForgotten: whatever fails, at whatever point, the working state has every object
\* that exists, and so has the saved state between runs, apart from what a process created
\* just before it died.
THEOREM NothingIsForgotten == Spec => []NothingForgotten
<1>1. TypeInv /\ TrackedInv /\ [Next]_vars => TrackedInv'
  <2> SUFFICES ASSUME TypeInv, TrackedInv, [Next]_vars PROVE TrackedInv'
    OBVIOUS
  <2> USE DEF TrackedInv
  <2>1. CASE Plan
    <3>1. PICK c \in Configs, chg \in [Res -> Actions] :
            LET s == Refreshed(c, saved) IN
            /\ \A r \in Res : chg[r] \in PlannedAction(c, s, chg, r)
            /\ state' = Finalised(c, s, chg)
      BY <2>1 DEF Plan
    <3>2. Tracked(state') = Tracked(saved) \intersect Existing
      BY <3>1, PlanTracks DEF TypeInv, TypeOK
    <3>3. Existing \subseteq Tracked(saved) \union lost
      BY <2>1 DEF Plan, TypeInv, IdleOK
    <3> QED
      BY <2>1, <3>2, <3>3 DEF Plan, Existing
  <2>2. ASSUME NEW n \in DOMAIN walk, NodeStep(n) PROVE TrackedInv'
    <3>1. lost' = lost /\ saved' \in {saved, state'}
      BY <2>2, NodeFrame, NodeStateFrame
    <3>2. /\ Existing' \subseteq Existing \union (fresh' \intersect Tracked(state'))
          /\ fresh \subseteq fresh' /\ Existing' \intersect Tracked(state) \subseteq Tracked(state')
      BY <2>2, NodeTracks
    <3>3. Existing' \subseteq Tracked(state') \union lost
      BY <3>2
    <3>4. Existing' \subseteq Tracked(saved) \union fresh' \union lost
      BY <3>2
    <3> QED
      BY <3>1, <3>3, <3>4
  <2>3. CASE Finish
    <3>1. CASE Refused
      BY <2>3, <3>1 DEF Finish, Existing, TypeInv, RefusedOK
    <3>2. CASE ~Refused
      BY <2>3, <3>2 DEF Finish, Existing
    <3> QED
      BY <3>1, <3>2
  <2>4. CASE Crash
    BY <2>4 DEF Crash, Existing
  <2>5. CASE UNCHANGED vars
    BY <2>5 DEF vars, Existing
  <2>6. ASSUME NEW n \in DOMAIN walk, StartFails(n) PROVE TrackedInv'
    BY <2>6, StartFailsFrame DEF Existing
  <2> QED
    BY <2>1, <2>2, <2>3, <2>4, <2>5, <2>6 DEF Next, NodeStep
<1>2. TypeInv /\ TrackedInv => NothingForgotten
  BY DEF TypeInv, IdleOK, TrackedInv, NothingForgotten
<1> QED
  BY <1>1, <1>2, InitialInv, TypeInvariant, PTL DEF Spec
=============================================================================
