----------------------------- MODULE ContextRun -----------------------------
(***************************************************************************)
(* One call of Context.Apply (internal/tofu/context_apply.go) and the      *)
(* Context.Stop that may interrupt it (internal/tofu/context.go), with the *)
(* hooks that connect them: the stop hook, which makes the nodes of the    *)
(* walk give up, and the local backend's StateHook, which writes every     *)
(* result to the state manager (internal/backend/local/hook_state.go).     *)
(*                                                                         *)
(* The goroutines are the one that runs Apply, one per resource node of    *)
(* the walk, the one watchStop starts, and the one that runs Stop.  The    *)
(* order in which the walk visits dependent nodes is the subject of        *)
(* Walker; the nodes here are independent.  A state is the set of the      *)
(* objects it tracks, and node n makes the object n.                       *)
(***************************************************************************)
EXTENDS Naturals

CONSTANTS
    Res,             \* the resource nodes of the apply graph
    Foreign,         \* the objects other processes make
    Intermediate,    \* FALSE if the manager declines intermediate snapshots
    SkipsUnchanged,  \* the manager writes nothing if nothing has changed
    MaxFailures      \* bound on the failed requests to the state store

ASSUME ContextRunAssumption ==
    /\ "nobody" \notin Res
    /\ Intermediate \in BOOLEAN /\ SkipsUnchanged \in BOOLEAN
    /\ MaxFailures \in Nat

VARIABLES
    busy,        \* Context.runCond is not nil
    cancelable,  \* Context.runContextCancel is not nil
    ctxDone,     \* this run's runContext is cancelled
    stopped,     \* stopHook.stop
    clHeld,      \* Stop holds Context.l
    stop,        \* where Stop is
    apply,       \* where Apply is
    watch,       \* where watchStop's goroutine is
    node,        \* where each node is
    hookLock,    \* the node that holds the StateHook's mutex
    force,       \* StateHook.intermediatePersist.ForcePersist
    work,        \* the walker's state
    real,        \* the objects that exist
    mem,         \* the manager's transient snapshot
    base,        \* the snapshot the manager last read or wrote
    saved,       \* the persistent snapshot
    failures     \* the requests to the state store that have failed so far

runVars  == <<busy, cancelable, ctxDone, stopped, clHeld>>
pcVars   == <<stop, apply, watch, node>>
hookVars == <<hookLock, force>>
objVars  == <<work, real>>
mgrVars  == <<mem, base, saved, failures>>

Nobody == "nobody"

RunTypeOK ==
    /\ busy \in BOOLEAN /\ cancelable \in BOOLEAN /\ ctxDone \in BOOLEAN
    /\ stopped \in BOOLEAN /\ clHeld \in BOOLEAN /\ force \in BOOLEAN
    /\ clHeld <=> stop = "notify"

ContextTypeOK ==
    /\ RunTypeOK
    /\ stop \in {"none", "called", "notify", "wait", "returned"}
    /\ apply \in {"none", "called", "graph", "walk", "unwatch", "release", "returned"}
    /\ watch \in {"none", "select", "stopping", "done"}
    /\ node \in [Res -> {"pending", "active", "update", "persist", "done", "halted"}]
    /\ hookLock \in {Nobody} \union Res
    /\ \A n \in Res : hookLock = n <=> node[n] = "persist"
    /\ {work, real, mem, base, saved} \subseteq SUBSET (Res \union Foreign)
    /\ failures \in 0..MaxFailures

\* The manager has read the empty snapshot; nothing has run.
ContextInit ==
    /\ busy = FALSE /\ cancelable = FALSE /\ ctxDone = FALSE
    /\ stopped = FALSE /\ clHeld = FALSE
    /\ stop = "none" /\ apply = "none" /\ watch = "none"
    /\ node = [n \in Res |-> "pending"]
    /\ hookLock = Nobody /\ force = FALSE
    /\ work = {} /\ real = {}
    /\ mem = {} /\ base = {} /\ saved = {} /\ failures = 0

-----------------------------------------------------------------------------
(***************************************************************************)
(* PersistState of the manager, atomic under the manager's mutex.  It      *)
(* replaces the whole persistent snapshot.  The manager has read one, even *)
(* if it is empty; RemoteState has the one that finds none, and refreshes  *)
(* first.                                                                  *)
(***************************************************************************)
\* There is nothing to write.
Unchanged(state) == SkipsUnchanged /\ state = base

Writes(state) ==
    IF Unchanged(state) THEN UNCHANGED <<base, saved>>
                        ELSE base' = state /\ saved' = state

\* The request fails, or only its answer is lost and the state is stored.
PersistFails(state) ==
    /\ ~Unchanged(state)
    /\ failures < MaxFailures /\ failures' = failures + 1
    /\ saved' \in {saved, state} /\ UNCHANGED base

PersistState(state) ==
    \/ Writes(state) /\ UNCHANGED failures
    \/ PersistFails(state)

NotPersisted == UNCHANGED <<base, saved, failures>>

-----------------------------------------------------------------------------
(***************************************************************************)
(* Apply.  acquireRun, releaseRun and Stop exclude each other by Context.l.*)
(***************************************************************************)
\* Fault: acquireRun does not take Context.l.
AcquireRunUnlocked ==
    /\ apply = "called" /\ ~busy
    /\ busy' = TRUE /\ cancelable' = TRUE /\ ctxDone' = FALSE /\ stopped' = FALSE
    /\ apply' = "graph"
    /\ UNCHANGED <<clHeld, stop, watch, node, hookVars, objVars, mgrVars>>

\* Whatever was asked before, the new run is not stopped.
AcquireRun ==
    /\ apply = "called" /\ ~clHeld /\ ~busy
    /\ busy' = TRUE /\ cancelable' = TRUE /\ ctxDone' = FALSE /\ stopped' = FALSE
    /\ apply' = "graph"
    /\ UNCHANGED <<clHeld, stop, watch, node, hookVars, objVars, mgrVars>>

\* The graph is built, or Apply returns without a state.
BuildGraph ==
    /\ apply = "graph"
    /\ \/ apply' = "walk" /\ watch' = "select"
       \/ apply' = "release" /\ UNCHANGED watch
    /\ UNCHANGED <<runVars, stop, node, hookVars, objVars, mgrVars>>

\* The walk has visited every node: walk closes the stop channel ...
WalkEnds ==
    /\ apply = "walk"
    /\ \A n \in Res : node[n] \in {"done", "halted"}
    /\ apply' = "unwatch"
    /\ UNCHANGED <<runVars, stop, watch, node, hookVars, objVars, mgrVars>>

\* Fault: walk does not wait for watchStop's goroutine.
UnwatchedEarly ==
    /\ apply = "unwatch"
    /\ apply' = "release"
    /\ UNCHANGED <<runVars, stop, watch, node, hookVars, objVars, mgrVars>>

\* ... and waits for watchStop's goroutine.
Unwatched ==
    /\ apply = "unwatch" /\ watch = "done"
    /\ apply' = "release"
    /\ UNCHANGED <<runVars, stop, watch, node, hookVars, objVars, mgrVars>>

\* runContextCancel is called but stays set.
ReleaseRun ==
    /\ apply = "release" /\ ~clHeld
    /\ busy' = FALSE /\ ctxDone' = (ctxDone \/ cancelable)
    /\ apply' = "returned"
    /\ UNCHANGED <<cancelable, stopped, clHeld, stop, watch, node, hookVars, objVars, mgrVars>>

\* Apply has returned a state, not nil.
HasResult == watch # "none"

-----------------------------------------------------------------------------
(***************************************************************************)
(* A resource node (managedResourceExecute).                               *)
(***************************************************************************)
Node(n, label) == node' = [node EXCEPT ![n] = label]

\* The stop hook is the last to be asked before the provider is called.  The
\* node also ends here if it finds nothing to do, or an error.
PreApply(n) ==
    /\ apply = "walk" /\ node[n] = "pending"
    /\ \/ ~stopped /\ Node(n, "active")
       \/ Node(n, "halted")
    /\ UNCHANGED <<runVars, stop, apply, watch, hookVars, objVars, mgrVars>>

\* The provider has made the object, or has failed; writeResourceInstanceState
\* has recorded the result.
ProviderReturns(n) ==
    /\ node[n] = "active"
    /\ \/ real' = real \union {n} /\ work' = work \union {n}
       \/ UNCHANGED objVars
    /\ Node(n, "update")
    /\ UNCHANGED <<runVars, stop, apply, watch, hookVars, mgrVars>>

\* Fault: the stop hook is asked before the StateHook, not after it.
PostStateUpdateStopped(n) ==
    /\ node[n] = "update" /\ hookLock = Nobody
    /\ IF stopped THEN Node(n, "done") /\ UNCHANGED <<hookLock, mem>>
                  ELSE /\ Node(n, "persist") /\ hookLock' = n
                       /\ mem' = IF n \in work THEN mem \union {n} ELSE mem \ {n}
    /\ UNCHANGED <<runVars, stop, apply, watch, force, objVars, base, saved, failures>>

\* StateHook.PostStateUpdate, up to MutateState ...
PostStateUpdate(n) ==
    /\ node[n] = "update" /\ hookLock = Nobody
    /\ hookLock' = n
    /\ mem' = IF n \in work THEN mem \union {n} ELSE mem \ {n}
    /\ Node(n, "persist")
    /\ UNCHANGED <<runVars, stop, apply, watch, force, objVars, base, saved, failures>>

\* Fault: a failed write returns with the mutex locked.
PersistIntermediateLocked(n) ==
    /\ node[n] = "persist"
    /\ \/ Intermediate /\ Writes(mem) /\ UNCHANGED failures /\ hookLock' = Nobody
       \/ Intermediate /\ PersistFails(mem) /\ UNCHANGED hookLock
       \/ ~(Intermediate /\ force) /\ NotPersisted /\ hookLock' = Nobody
    /\ Node(n, "done")
    /\ UNCHANGED <<runVars, stop, apply, watch, force, objVars, mem>>

\* ... and from shouldPersist on: forced, or because the interval has elapsed.
PersistIntermediate(n) ==
    /\ node[n] = "persist"
    /\ \/ Intermediate /\ PersistState(mem)
       \/ ~(Intermediate /\ force) /\ NotPersisted
    /\ hookLock' = Nobody
    /\ Node(n, "done")
    /\ UNCHANGED <<runVars, stop, apply, watch, force, objVars, mem>>

-----------------------------------------------------------------------------
(***************************************************************************)
(* Stop.                                                                   *)
(***************************************************************************)
\* If a run can be cancelled it is, and the stop hook is set.
StopLock ==
    /\ stop = "called" /\ ~clHeld
    /\ clHeld' = TRUE
    /\ IF cancelable
       THEN stopped' = TRUE /\ ctxDone' = TRUE /\ cancelable' = FALSE
       ELSE UNCHANGED <<stopped, ctxDone, cancelable>>
    /\ stop' = "notify"
    /\ UNCHANGED <<busy, apply, watch, node, hookVars, objVars, mgrVars>>

\* Fault: Stop does not release Context.l while it waits for the run.
StopNotifyLocked ==
    /\ stop = "notify" /\ hookLock = Nobody
    /\ force' = TRUE
    /\ IF Intermediate THEN PersistState(mem) ELSE NotPersisted
    /\ clHeld' = busy
    /\ stop' = IF busy THEN "wait" ELSE "returned"
    /\ UNCHANGED <<busy, cancelable, ctxDone, stopped, apply, watch, node, hookLock, objVars, mem>>

\* StateHook.Stopping, called with Context.l held; then Stop waits for the run
\* (releasing Context.l), if there is one.
StopNotify ==
    /\ stop = "notify" /\ hookLock = Nobody
    /\ force' = TRUE
    /\ IF Intermediate THEN PersistState(mem) ELSE NotPersisted
    /\ clHeld' = FALSE
    /\ stop' = IF busy THEN "wait" ELSE "returned"
    /\ UNCHANGED <<busy, cancelable, ctxDone, stopped, apply, watch, node, hookLock, objVars, mem>>

StopReturns ==
    /\ stop = "wait" /\ ~busy /\ ~clHeld
    /\ stop' = "returned"
    /\ UNCHANGED <<runVars, apply, watch, node, hookVars, objVars, mgrVars>>

-----------------------------------------------------------------------------
(***************************************************************************)
(* watchStop's goroutine: a choice if both channels are ready.             *)
(***************************************************************************)
WatchCanceled ==
    /\ watch = "select" /\ ctxDone
    /\ watch' = "stopping"
    /\ UNCHANGED <<runVars, stop, apply, node, hookVars, objVars, mgrVars>>

WatchClosed ==
    /\ watch = "select" /\ apply = "unwatch"
    /\ watch' = "done"
    /\ UNCHANGED <<runVars, stop, apply, node, hookVars, objVars, mgrVars>>

\* Every provider's and provisioner's Stop has returned.
ProvidersStopped ==
    /\ watch = "stopping"
    /\ watch' = "done"
    /\ UNCHANGED <<runVars, stop, apply, node, hookVars, objVars, mgrVars>>

ApplyNext == AcquireRun \/ BuildGraph \/ WalkEnds \/ Unwatched \/ ReleaseRun
NodeNext(n) == PreApply(n) \/ ProviderReturns(n) \/ PostStateUpdate(n) \/ PersistIntermediate(n)
StopNext == StopLock \/ StopNotify \/ StopReturns
WatchNext == WatchCanceled \/ WatchClosed \/ ProvidersStopped
=============================================================================
