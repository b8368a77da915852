------------------------------- MODULE Apply -------------------------------
(***************************************************************************)
(* A sequence of tofu apply runs over a configuration that its author      *)
(* changes between them.  A run refreshes the state, plans a change for    *)
(* every resource, builds the apply graph (module ApplyGraph) and walks it *)
(* as module Walker promises: a node starts when all that it depends on    *)
(* has succeeded, nodes run concurrently, and a node above a failed one is *)
(* not run.  Nodes fail at every point where the code lets them, and the   *)
(* process may die, which leaves the snapshot saved last.                  *)
(*                                                                         *)
(* world maps the identity of every real object to the objects it uses.    *)
(* The provider's answers are the external part: it decides which changes  *)
(* are updates and which need a replacement, and how a request ends.       *)
(***************************************************************************)
EXTENDS ApplyGraph, FiniteSets

CONSTANTS
    Configs,    \* the configurations the author may switch between
    MaxRuns,    \* bound on the runs
    MaxFaults   \* bound on the failures of nodes and of the process

ASSUME ApplyAssumption ==
    /\ NoObject \notin Object
    /\ IsFiniteSet(Res)
    /\ Configs \subseteq Config
    /\ \A c \in Configs : \A r \in Res :
        /\ c.refs[r] \subseteq c.present
        /\ r \notin c.present => c.refs[r] = {}
        /\ r \notin Dependencies(c, r)
    /\ MaxRuns \in Nat /\ MaxFaults \in Nat

VARIABLES
    config,     \* the configuration of this run
    state,      \* the working state (states.SyncState)
    saved,      \* the snapshot a process that starts now would read
    world,      \* the real objects
    change,     \* the planned change of each resource
    edges,      \* the edges of the apply graph
    walk,       \* the nodes of the apply graph and how far each one is
    running,    \* an apply is under way
    fresh,      \* the objects created in this run (history variable)
    lost,       \* objects that a dead process had just created (history variable)
    clean,      \* nothing has failed in this run (history variable)
    runs, faults

graph == <<config, change, edges>>
hist  == <<runs, faults>>
vars  == <<config, state, saved, world, change, edges, walk, running, fresh, lost, clean, runs,
           faults>>

NoState == [current |-> [r \in Res |-> NoObject], deposed |-> [r \in Res |-> {}]]
NoConfig == [present |-> {}, refs |-> [r \in Res |-> {}], cbd |-> {}]
Node == [kind : {"create", "destroy", "deposed"}, res : Res, id : Nat]

Objects(s, r) == s.deposed[r] \union (IF s.current[r] = NoObject THEN {} ELSE {s.current[r]})
Tracked(s)    == {o.id : o \in UNION {Objects(s, r) : r \in Res}}
Existing      == DOMAIN world

TypeOK ==
    /\ config \in {NoConfig} \union Configs
    /\ state \in State /\ saved \in State
    /\ Existing \subseteq Nat \ {0} /\ world \in [Existing -> SUBSET Nat]
    /\ change \in [Res -> Actions]
    /\ DOMAIN walk \subseteq Node
    /\ edges \subseteq (DOMAIN walk) \X (DOMAIN walk)
    /\ walk \in [DOMAIN walk -> {"wait", "run", "ok", "fail", "refused"}]
    /\ running \in BOOLEAN /\ clean \in BOOLEAN
    /\ fresh \subseteq Nat /\ lost \subseteq Nat
    /\ runs \in 0..MaxRuns /\ faults \in 0..MaxFaults

Init ==
    /\ config = NoConfig /\ state = NoState /\ saved = NoState
    /\ world = [i \in {} |-> {}]
    /\ change = [r \in Res |-> "None"] /\ edges = {} /\ walk = [n \in {} |-> "wait"]
    /\ running = FALSE
    /\ fresh = {} /\ lost = {} /\ clean = TRUE
    /\ runs = 0 /\ faults = 0

-----------------------------------------------------------------------------
(***************************************************************************)
(* Planning.                                                               *)
(***************************************************************************)

\* NodeAbstractResourceInstance.refresh drops the objects that do not exist any
\* more; for a configured resource managedResourceExecute then stores whether it is
\* create_before_destroy and merges its dependencies into the stored ones.
Refreshed(c, s) ==
    LET current(r) ==
          IF s.current[r] = NoObject \/ s.current[r].id \notin Existing THEN NoObject
          ELSE IF r \in c.present
               THEN [s.current[r] EXCEPT !.cbd = PlanCBD(c, r), !.deps = @ \union Dependencies(c, r)]
               ELSE s.current[r]
    IN  [current |-> [r \in Res |-> current(r)],
         deposed |-> [r \in Res |-> {o \in s.deposed[r] : o.id \in Existing}]]

\* The objects r uses once the resources it references have their objects.
Uses(c, s, r) == {s.current[d].id : d \in {x \in c.refs[r] : s.current[x] # NoObject}}

\* The arguments of r are what they were: the provider finds nothing to do.
MayBeNoOp(c, s, chg, r) ==
    /\ world[s.current[r].id] = Uses(c, s, r)
    /\ \A d \in c.refs[r] : chg[d] \in {"NoOp", "Update"}

\* NodeAbstractResourceInstance.plan, and NodePlannableResourceInstanceOrphan for
\* a resource that is not configured any more.
PlannedAction(c, s, chg, r) ==
    LET replace == IF PlanCBD(c, r) THEN "CreateThenDelete" ELSE "DeleteThenCreate"
        none    == s.current[r] = NoObject
    IN  CASE r \notin c.present /\ none  -> {"None"}
          [] r \notin c.present /\ ~none -> {"Delete"}
          [] r \in c.present /\ none     -> {"Create"}
          [] r \in c.present /\ ~none    ->
                IF s.current[r].tainted THEN {replace}
                ELSE {replace, "Update"} \union (IF MayBeNoOp(c, s, chg, r) THEN {"NoOp"} ELSE {})

\* If nothing changes, the dependencies are stored at once.
Finalised(c, s, chg) ==
    [s EXCEPT !.current = [r \in Res |->
        IF chg[r] = "NoOp" THEN [s.current[r] EXCEPT !.deps = Dependencies(c, r)]
        ELSE s.current[r]]]

\* Context.Plan and the graph of Context.Apply.  A graph with a cycle is
\* refused before any node runs; the working state is then dropped.
Plan ==
    /\ ~running /\ runs < MaxRuns
    /\ \E c \in Configs : \E chg \in [Res -> Actions] :
         LET s == Refreshed(c, saved) IN
         /\ \A r \in Res : chg[r] \in PlannedAction(c, s, chg, r)
         /\ config' = c
         /\ change' = chg
         /\ state' = Finalised(c, s, chg)
         /\ edges' = GraphEdges(c, state', chg)
         /\ walk' = [n \in DiffNodes(chg, s) |->
                        IF Acyclic(DiffNodes(chg, s), edges') THEN "wait" ELSE "refused"]
    /\ running' = TRUE
    /\ fresh' = {} /\ clean' = TRUE
    /\ runs' = runs + 1
    /\ UNCHANGED <<saved, world, lost, faults>>

Refused == \E n \in DOMAIN walk : walk[n] = "refused"

-----------------------------------------------------------------------------
(***************************************************************************)
(* The walk.                                                               *)
(***************************************************************************)
Ready(n) == walk[n] = "wait" /\ \A m \in DOMAIN walk : <<n, m>> \in edges => walk[m] = "ok"

\* Fault: the current object is cleared before it is moved.
DeposeCleared(s, r) == [s EXCEPT !.deposed[r] = @ \union {NoObject}, !.current[r] = NoObject]

\* ResourceInstance.deposeCurrentObject.
Depose(s, r) == [s EXCEPT !.deposed[r] = @ \union {s.current[r]}, !.current[r] = NoObject]

\* A node starts.  It finds its provider, the creator reads its planned change, and the
\* creator of a CreateThenDelete deposes the current object.
Start(n) ==
    /\ running /\ Ready(n)
    /\ walk' = [walk EXCEPT ![n] = "run"]
    /\ state' = IF n.kind = "create" /\ change[n.res] = "CreateThenDelete"
                THEN Depose(state, n.res) ELSE state
    /\ UNCHANGED <<graph, saved, world, running, fresh, lost, clean, hist>>

\* The provider or the planned change is not found, and nothing has been deposed.
StartFails(n) ==
    /\ running /\ Ready(n) /\ faults < MaxFaults
    /\ walk' = [walk EXCEPT ![n] = "fail"]
    /\ clean' = FALSE
    /\ faults' = faults + 1
    /\ UNCHANGED <<graph, state, saved, world, running, fresh, lost, runs>>

\* The node ends; a failure counts.
Ends(n, ok) ==
    /\ running /\ walk[n] = "run"
    /\ walk' = [walk EXCEPT ![n] = IF ok THEN "ok" ELSE "fail"]
    /\ clean' = (clean /\ ok)
    /\ ok \/ faults < MaxFaults
    /\ faults' = IF ok THEN faults ELSE faults + 1
    /\ UNCHANGED <<graph, running, lost, runs>>

\* updateStateHook: the new snapshot is persisted, or only kept for later.  The code
\* copies the entry of one instance into the manager's snapshot, this saves the working
\* state; what the code saves is saved here when the other nodes take their steps later.
StateHook == saved' \in {saved, state'}

\* Reading the state, the plan made again, its comparison with the first one and
\* the preApply hook can all fail (the hook does after an interrupt): the node returns
\* without touching the state again.
EndEarly(n) ==
    /\ Ends(n, FALSE)
    /\ UNCHANGED <<state, saved, world, fresh>>

-----------------------------------------------------------------------------
(***************************************************************************)
(* A creator: NodeApplyableResourceInstance.managedResourceExecute.        *)
(***************************************************************************)
NewId ==
    LET used == Existing \union Tracked(state) \union Tracked(saved) \union lost
    IN  CHOOSE i \in 1..(Cardinality(used) + 1) : i \notin used

Creates(n) == n.kind = "create" /\ change[n.res] \in {"Create", "DeleteThenCreate", "CreateThenDelete"}
Updates(n) == n.kind = "create" /\ change[n.res] = "Update"

Result(n, id, tainted) ==
    [id |-> id, tainted |-> tainted, deps |-> Dependencies(config, n.res),
     cbd |-> ApplyCBD(config, change, n.res)]

\* Fault: the deposed object is restored over one that the failed creation left.
MaybeRestoreAlways(s, r, id) ==
    LET old == {o \in s.deposed[r] : o.id = id}
    IN  IF old = {} THEN s
        ELSE [s EXCEPT !.current[r] = CHOOSE o \in old : TRUE, !.deposed[r] = @ \ old]

\* Module.maybeRestoreResourceInstanceDeposed: only if there is no current object.
MaybeRestore(s, r, id) ==
    LET old == {o \in s.deposed[r] : o.id = id}
    IN  IF s.current[r] # NoObject \/ old = {} THEN s
        ELSE [s EXCEPT !.current[r] = CHOOSE o \in old : TRUE, !.deposed[r] = @ \ old]

\* The provider returns an object.  With an error, or if a provisioner fails, it is
\* tainted and the code tries to restore the deposed object; a postcondition that
\* fails leaves it as it is.
Create(n) ==
    /\ Creates(n)
    /\ \E ok \in BOOLEAN, tainted \in BOOLEAN :
        LET s == [state EXCEPT !.current[n.res] = Result(n, NewId, tainted)] IN
        /\ ok => ~tainted
        /\ Ends(n, ok)
        /\ state' = IF tainted THEN MaybeRestore(s, n.res, n.id) ELSE s
    /\ world' = [i \in Existing \union {NewId} |->
                    IF i = NewId THEN Uses(config, state, n.res) ELSE world[i]]
    /\ fresh' = fresh \union {NewId}
    /\ StateHook

\* The provider returns an error and no object.
CreateNothing(n) ==
    /\ Creates(n)
    /\ Ends(n, FALSE)
    /\ state' = MaybeRestore(state, n.res, n.id)
    /\ UNCHANGED <<world, fresh>>
    /\ StateHook

\* An update.  The stored dependencies are those of the configuration whether it
\* succeeds or not; if the provider returns an object, so is CreateBeforeDestroy.
Update(n) ==
    /\ Updates(n)
    /\ LET old == state.current[n.res] IN
       \E ok \in BOOLEAN, returned \in BOOLEAN, applied \in BOOLEAN :
        /\ ok => returned /\ applied
        /\ applied => returned
        /\ Ends(n, ok)
        /\ state' = [state EXCEPT !.current[n.res] =
                        IF returned THEN Result(n, old.id, old.tainted)
                        ELSE [old EXCEPT !.deps = Dependencies(config, n.res)]]
        /\ world' = IF applied /\ old.id \in Existing
                    THEN [world EXCEPT ![old.id] = Uses(config, state, n.res)] ELSE world
    /\ UNCHANGED fresh
    /\ StateHook

-----------------------------------------------------------------------------
(***************************************************************************)
(* A destroyer: NodeDestroyResourceInstance.managedResourceExecute and     *)
(* NodeDestroyDeposedResourceInstanceObject.Execute.                       *)
(***************************************************************************)
Target(n) ==
    IF n.kind = "destroy" THEN state.current[n.res]
    ELSE CHOOSE o \in Objects(state, n.res) : o.id = n.id

\* The object of n in the state becomes what `left` holds: it, or nothing.
Leave(n, left) ==
    IF n.kind = "destroy"
    THEN [state EXCEPT !.current[n.res] = IF left = {} THEN NoObject ELSE CHOOSE o \in left : TRUE]
    ELSE [state EXCEPT !.deposed[n.res] = (@ \ {Target(n)}) \union left]

Without(i) == [j \in Existing \ {i} |-> world[j]]

Destroy(n) ==
    /\ n.kind # "create"
    /\ Ends(n, TRUE)
    /\ state' = Leave(n, {})
    /\ world' = Without(Target(n).id)
    /\ UNCHANGED fresh
    /\ StateHook

\* The provider returns an error: with no object, the object stays as it was (also
\* if it is gone in fact), else it is stored without create_before_destroy.  The node
\* of a deposed object returns without calling the hook.
DestroyFails(n) ==
    /\ n.kind # "create"
    /\ Ends(n, FALSE)
    /\ \E returned \in BOOLEAN, gone \in BOOLEAN :
        /\ ~(returned /\ gone)
        /\ state' = Leave(n, {IF returned THEN [Target(n) EXCEPT !.cbd = FALSE] ELSE Target(n)})
        /\ world' = IF gone THEN Without(Target(n).id) ELSE world
    /\ UNCHANGED fresh
    /\ IF n.kind = "destroy" THEN StateHook ELSE UNCHANGED saved

-----------------------------------------------------------------------------
(***************************************************************************)
(* The end of a run.                                                       *)
(***************************************************************************)

Idle == change' = [r \in Res |-> "None"] /\ edges' = {} /\ walk' = [n \in {} |-> "wait"]
        /\ running' = FALSE /\ fresh' = {}

\* Nothing runs and nothing can start: the result is saved.
Finish ==
    /\ running
    /\ \A n \in DOMAIN walk : walk[n] # "run" /\ ~Ready(n)
    /\ saved' = IF Refused THEN saved ELSE state
    /\ clean' = (clean /\ ~Refused)
    /\ state' = saved'
    /\ Idle
    /\ UNCHANGED <<config, world, lost, hist>>

\* The process dies.  If a request under way had its effect, that is the end of its
\* node with nothing saved, and then this step.
Crash ==
    /\ running /\ faults < MaxFaults
    /\ state' = saved
    /\ lost' = lost \union (fresh \ Tracked(saved))
    /\ Idle
    /\ clean' = FALSE
    /\ faults' = faults + 1
    /\ UNCHANGED <<config, saved, world, runs>>

Next ==
    \/ Plan
    \/ \E n \in DOMAIN walk :
        \/ Start(n) \/ StartFails(n) \/ EndEarly(n)
        \/ Create(n) \/ CreateNothing(n) \/ Update(n)
        \/ Destroy(n) \/ DestroyFails(n)
    \/ Finish
    \/ Crash

Spec == Init /\ [][Next]_vars

-----------------------------------------------------------------------------
(***************************************************************************)
(* Properties.                                                             *)
(***************************************************************************)

\* The graph of every plan can be walked: the destroy edges, inverted for
\* create_before_destroy, and the references never make a cycle.
PlanIsWalkable == ~Refused

\* What r depends on, by the state or by the configuration.
AnyDependencies(r) ==
    Dependencies(config, r) \union (IF state.current[r] = NoObject THEN {} ELSE state.current[r].deps)

\* One order of the resources agrees with all their dependencies, old and new.
Ordered ==
    \E rank \in [Res -> 1..Cardinality(Res)] :
        \A r \in Res : \A d \in AnyDependencies(r) : rank[d] < rank[r]

\* The only plans with a cycle are those in which the dependencies have been turned
\* round since the state was stored, and those which create or update something and
\* destroy the object of d before it, though the object of r that depends on that of d
\* is destroyed after it: d is not create_before_destroy, and r is or has been deposed.
CycleNeedsMixedOrder ==
    Refused /\ Ordered =>
        /\ Creating(change) # {}
        /\ \E r, d \in Res :
            /\ \/ change[r] = "CreateThenDelete" \/ state.deposed[r] # {}
               \/ change[r] = "Delete" /\ state.current[r].cbd
            /\ state.current[r] # NoObject /\ d \in state.current[r].deps
            /\ change[d] \in {"Delete", "DeleteThenCreate"}
            /\ ~state.current[d].cbd

\* No real object is forgotten: whatever fails while an object is deposed, created or
\* destroyed, the working state has it, and between runs the saved state has it,
\* apart from objects that a process created just before it died.
NothingForgotten ==
    /\ Existing \subseteq Tracked(state) \union lost
    /\ ~running => Existing \subseteq Tracked(saved) \union lost

\* One run without a failure repairs whatever the runs before it left, deposed and
\* tainted objects, orphans and a state that is out of date: afterwards exactly the
\* configured objects are left, and each one uses the current ones.
CleanRunConverges ==
    ~running /\ clean =>
        /\ Existing \ lost = Tracked(saved)
        /\ \A r \in Res :
            /\ saved.deposed[r] = {}
            /\ saved.current[r] # NoObject <=> r \in config.present
            /\ r \in config.present =>
                LET o == saved.current[r] IN
                /\ ~o.tainted
                /\ o.deps = Dependencies(config, r)
                /\ world[o.id] = Uses(config, saved, r)

\* The state tells that object o uses the objects of r, or nothing has ever failed.
Recorded(o, r) == r \in o.deps \/ faults = 0

\* An object that is to be destroyed is not destroyed while another one uses it that
\* was current when the run began and is still to be destroyed in it, unless an
\* earlier failure kept the use out of the state.
UsersDestroyedFirst ==
    \A n, m \in DOMAIN walk :
        /\ n.kind # "create" /\ walk[n] = "run"
        /\ m.kind # "create" /\ walk[m] \in {"wait", "run"} /\ m # n
        /\ m.kind = "destroy" \/ Creator(m.res, m.id) \in DOMAIN walk
        /\ Recorded(Target(m), n.res)
        => Target(n).id \notin world[Target(m).id]

\* An object that is create_before_destroy is not destroyed before the updates of the
\* run have succeeded that make others stop using it.
UsersUpdatedFirst ==
    \A n, m \in DOMAIN walk :
        /\ n.kind # "create" /\ walk[n] = "run"
        /\ n.kind = "deposed" \/ Target(n).cbd
        /\ Updates(m) /\ walk[m] # "ok"
        /\ Recorded(state.current[m.res], n.res)
        => Target(n).id \notin world[state.current[m.res].id]
=============================================================================
