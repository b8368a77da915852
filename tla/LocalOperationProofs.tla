------------------------ MODULE LocalOperationProofs ------------------------
(***************************************************************************)
(* Proofs about LocalOperation, for any set of resource nodes, any objects *)
(* of other processes and any number of failed requests.                   *)
(***************************************************************************)
EXTENDS LocalOperation, TLAPS

Early   == {"lock", "plan", "confirm", "start"}
Saving  == {"write", "persist", "backup"}
Leaving == {"unlock", "done"}
Inside  == {"plan", "confirm", "start", "wait", "stopping"} \union Saving \union {"unlock"}

\* Where opApply, Apply, watchStop and the nodes are with respect to each other.
Control ==
    /\ op \in Early => apply = "none"
    /\ op \in Saving => apply = "returned" /\ watch # "none"
    /\ op \in Leaving /\ ~cancelCtx => apply \in {"none", "returned"}
    /\ apply \in {"none", "called", "graph"} => watch = "none"
    /\ apply \in {"walk", "unwatch"} => watch # "none"
    /\ apply \in {"release", "returned"} => watch \in {"none", "done"}
    /\ busy <=> apply \in {"graph", "walk", "unwatch", "release"}
    /\ watch = "none" => \A n \in Res : node[n] = "pending"
    /\ apply \in {"unwatch", "release", "returned"} /\ watch # "none"
           => \A n \in Res : node[n] \in {"done", "halted"}

\* What Stop has done to the run it finds.
Stopping ==
    /\ op \in Early \union {"wait"} => stop = "none"
    /\ busy /\ stop \in {"none", "called"} => cancelable
    /\ busy /\ stop \in {"notify", "wait"} => stopped
    /\ stop = "wait" => apply \notin {"none", "called"}
    /\ stop \in {"wait", "returned"} => force
    /\ ctxDone /\ apply \in {"graph", "walk", "unwatch"} => stop # "none"
    /\ watch = "stopping" => stop # "none"

\* The objects made, the transient snapshot and the persistent one.
Recorded ==
    /\ real \subseteq Res /\ real \subseteq work /\ base \subseteq saved
    /\ base \subseteq mem /\ mem \subseteq work
    /\ watch = "none" => real = {} /\ mem = base
    /\ op \in {"persist", "backup"} => mem = work
    /\ op \in Leaving /\ ~cancelCtx => real \subseteq mem /\ real \subseteq saved \union recovered
    /\ \A n \in real : node[n] \in {"persist", "done"} => n \in mem
    /\ SavedAfterStop

\* Who holds the lock, and what is known of the other process's objects.
Shared ==
    /\ holder = "other" <=> other \in {"locked", "wrote"}
    /\ op \in Inside => holder = "us"
    /\ op = "lock" => holder # "us"
    /\ ~UnlockHonoursContext /\ op = "done" => holder # "us"
    /\ op = "lock" /\ other \in {"wrote", "done"} => Foreign \subseteq saved
    /\ op = "backup" => failures # 0
    /\ op \in Inside /\ other = "done" => Foreign \subseteq mem /\ Foreign \subseteq work
    /\ op \in Leaving /\ ~cancelCtx /\ failures = 0 => mem = base
    /\ SkipsUnchanged => NoLostUpdate

IInv == TypeOK /\ Control /\ Stopping /\ Recorded /\ Shared

-----------------------------------------------------------------------------
(***************************************************************************)
(* Every action preserves the invariant.                                   *)
(***************************************************************************)
USE ContextRunAssumption
    DEF vars, ctxVars, opVars, envVars, runVars, pcVars, hookVars, objVars, mgrVars,
        Early, Saving, Leaving, Inside, Nobody

\* acquireRun starts a run.
LEMMA AcquireRunInv ==
    ASSUME IInv, AcquireRun, UNCHANGED <<opVars, other>> PROVE IInv'
<1> USE DEF AcquireRun
<1>1. TypeOK'
  <2>1. RunTypeOK'
    BY DEF IInv, TypeOK, ContextTypeOK, RunTypeOK
  <2> QED BY <2>1 DEF IInv, TypeOK, ContextTypeOK
<1>2. Control'
    BY DEF IInv, TypeOK, ContextTypeOK, RunTypeOK, Control
<1>3. Stopping'
    BY DEF IInv, TypeOK, ContextTypeOK, RunTypeOK, Control, Stopping
<1>4. Recorded'
    BY DEF IInv, TypeOK, ContextTypeOK, RunTypeOK, Control, Stopping, Recorded, SavedAfterStop
<1>5. Shared'
    BY DEF IInv, TypeOK, ContextTypeOK, RunTypeOK, Control, Stopping, Recorded, Shared, NoLostUpdate
<1> QED BY <1>1, <1>2, <1>3, <1>4, <1>5 DEF IInv

\* Apply builds its graph, or fails to.
LEMMA BuildGraphInv ==
    ASSUME IInv, BuildGraph, UNCHANGED <<opVars, other>> PROVE IInv'
<1> USE DEF BuildGraph
<1>1. TypeOK'
    BY DEF IInv, TypeOK, ContextTypeOK, RunTypeOK
<1>2. Control'
    BY DEF IInv, TypeOK, ContextTypeOK, RunTypeOK, Control
<1>3. Stopping'
    BY DEF IInv, TypeOK, ContextTypeOK, RunTypeOK, Control, Stopping
<1>4. Recorded'
    BY DEF IInv, TypeOK, ContextTypeOK, RunTypeOK, Control, Stopping, Recorded, SavedAfterStop
<1>5. Shared'
    BY DEF IInv, TypeOK, ContextTypeOK, RunTypeOK, Control, Stopping, Recorded, Shared, NoLostUpdate
<1> QED BY <1>1, <1>2, <1>3, <1>4, <1>5 DEF IInv

\* The walk has visited every node.
LEMMA WalkEndsInv ==
    ASSUME IInv, WalkEnds, UNCHANGED <<opVars, other>> PROVE IInv'
<1> USE DEF WalkEnds
<1>1. TypeOK'
    BY DEF IInv, TypeOK, ContextTypeOK, RunTypeOK
<1>2. Control'
    BY DEF IInv, TypeOK, ContextTypeOK, RunTypeOK, Control
<1>3. Stopping'
    BY DEF IInv, TypeOK, ContextTypeOK, RunTypeOK, Control, Stopping
<1>4. Recorded'
    BY DEF IInv, TypeOK, ContextTypeOK, RunTypeOK, Control, Stopping, Recorded, SavedAfterStop
<1>5. Shared'
    BY DEF IInv, TypeOK, ContextTypeOK, RunTypeOK, Control, Stopping, Recorded, Shared, NoLostUpdate
<1> QED BY <1>1, <1>2, <1>3, <1>4, <1>5 DEF IInv

\* walk has waited for watchStop.
LEMMA UnwatchedInv ==
    ASSUME IInv, Unwatched, UNCHANGED <<opVars, other>> PROVE IInv'
<1> USE DEF Unwatched
<1>1. TypeOK'
    BY DEF IInv, TypeOK, ContextTypeOK, RunTypeOK
<1>2. Control'
    BY DEF IInv, TypeOK, ContextTypeOK, RunTypeOK, Control
<1>3. Stopping'
    BY DEF IInv, TypeOK, ContextTypeOK, RunTypeOK, Control, Stopping
<1>4. Recorded'
    BY DEF IInv, TypeOK, ContextTypeOK, RunTypeOK, Control, Stopping, Recorded, SavedAfterStop
<1>5. Shared'
    BY DEF IInv, TypeOK, ContextTypeOK, RunTypeOK, Control, Stopping, Recorded, Shared, NoLostUpdate
<1> QED BY <1>1, <1>2, <1>3, <1>4, <1>5 DEF IInv

\* releaseRun ends the run.
LEMMA ReleaseRunInv ==
    ASSUME IInv, ReleaseRun, UNCHANGED <<opVars, other>> PROVE IInv'
<1> USE DEF ReleaseRun
<1>1. TypeOK'
  <2>1. RunTypeOK'
    BY DEF IInv, TypeOK, ContextTypeOK, RunTypeOK
  <2> QED BY <2>1 DEF IInv, TypeOK, ContextTypeOK
<1>2. Control'
    BY DEF IInv, TypeOK, ContextTypeOK, RunTypeOK, Control
<1>3. Stopping'
    BY DEF IInv, TypeOK, ContextTypeOK, RunTypeOK, Control, Stopping
<1>4. Recorded'
    BY DEF IInv, TypeOK, ContextTypeOK, RunTypeOK, Control, Stopping, Recorded, SavedAfterStop
<1>5. Shared'
    BY DEF IInv, TypeOK, ContextTypeOK, RunTypeOK, Control, Stopping, Recorded, Shared, NoLostUpdate
<1> QED BY <1>1, <1>2, <1>3, <1>4, <1>5 DEF IInv

\* Stop cancels the run it finds.
LEMMA StopLockInv ==
    ASSUME IInv, StopLock, UNCHANGED <<opVars, other>> PROVE IInv'
<1> USE DEF StopLock
<1>1. TypeOK'
  <2>1. RunTypeOK'
    BY DEF IInv, TypeOK, ContextTypeOK, RunTypeOK
  <2> QED BY <2>1 DEF IInv, TypeOK, ContextTypeOK
<1>2. Control'
    BY DEF IInv, TypeOK, ContextTypeOK, RunTypeOK, Control
<1>3. Stopping'
    BY DEF IInv, TypeOK, ContextTypeOK, RunTypeOK, Control, Stopping
<1>4. Recorded'
    BY DEF IInv, TypeOK, ContextTypeOK, RunTypeOK, Control, Stopping, Recorded, SavedAfterStop
<1>5. Shared'
    BY DEF IInv, TypeOK, ContextTypeOK, RunTypeOK, Control, Stopping, Recorded, Shared, NoLostUpdate
<1> QED BY <1>1, <1>2, <1>3, <1>4, <1>5 DEF IInv

\* Stop tells the StateHook.
LEMMA StopNotifyInv ==
    ASSUME IInv, StopNotify, UNCHANGED <<opVars, other>> PROVE IInv'
<1> USE DEF PersistState, PersistFails, NotPersisted, Writes, Unchanged, StopNotify
<1>1. TypeOK'
  <2>1. RunTypeOK'
    BY DEF IInv, TypeOK, ContextTypeOK, RunTypeOK
  <2> QED BY <2>1 DEF IInv, TypeOK, ContextTypeOK
<1>2. Control'
    BY DEF IInv, TypeOK, ContextTypeOK, RunTypeOK, Control
<1>3. Stopping'
    BY DEF IInv, TypeOK, ContextTypeOK, RunTypeOK, Control, Stopping
<1>4. Recorded'
    BY DEF IInv, TypeOK, ContextTypeOK, RunTypeOK, Control, Stopping, Recorded, SavedAfterStop
<1>5. Shared'
    BY DEF IInv, TypeOK, ContextTypeOK, RunTypeOK, Control, Stopping, Recorded, Shared, NoLostUpdate
<1> QED BY <1>1, <1>2, <1>3, <1>4, <1>5 DEF IInv

\* Stop sees the end of the run.
LEMMA StopReturnsInv ==
    ASSUME IInv, StopReturns, UNCHANGED <<opVars, other>> PROVE IInv'
<1> USE DEF StopReturns
<1>1. TypeOK'
    BY DEF IInv, TypeOK, ContextTypeOK, RunTypeOK
<1>2. Control'
    BY DEF IInv, TypeOK, ContextTypeOK, RunTypeOK, Control
<1>3. Stopping'
    BY DEF IInv, TypeOK, ContextTypeOK, RunTypeOK, Control, Stopping
<1>4. Recorded'
    BY DEF IInv, TypeOK, ContextTypeOK, RunTypeOK, Control, Stopping, Recorded, SavedAfterStop
<1>5. Shared'
    BY DEF IInv, TypeOK, ContextTypeOK, RunTypeOK, Control, Stopping, Recorded, Shared, NoLostUpdate
<1> QED BY <1>1, <1>2, <1>3, <1>4, <1>5 DEF IInv

\* watchStop sees the cancelled run.
LEMMA WatchCanceledInv ==
    ASSUME IInv, WatchCanceled, UNCHANGED <<opVars, other>> PROVE IInv'
<1> USE DEF WatchCanceled
<1>1. TypeOK'
    BY DEF IInv, TypeOK, ContextTypeOK, RunTypeOK
<1>2. Control'
    BY DEF IInv, TypeOK, ContextTypeOK, RunTypeOK, Control
<1>3. Stopping'
    BY DEF IInv, TypeOK, ContextTypeOK, RunTypeOK, Control, Stopping
<1>4. Recorded'
    BY DEF IInv, TypeOK, ContextTypeOK, RunTypeOK, Control, Stopping, Recorded, SavedAfterStop
<1>5. Shared'
    BY DEF IInv, TypeOK, ContextTypeOK, RunTypeOK, Control, Stopping, Recorded, Shared, NoLostUpdate
<1> QED BY <1>1, <1>2, <1>3, <1>4, <1>5 DEF IInv

\* watchStop sees the end of the walk.
LEMMA WatchClosedInv ==
    ASSUME IInv, WatchClosed, UNCHANGED <<opVars, other>> PROVE IInv'
<1> USE DEF WatchClosed
<1>1. TypeOK'
    BY DEF IInv, TypeOK, ContextTypeOK, RunTypeOK
<1>2. Control'
    BY DEF IInv, TypeOK, ContextTypeOK, RunTypeOK, Control
<1>3. Stopping'
    BY DEF IInv, TypeOK, ContextTypeOK, RunTypeOK, Control, Stopping
<1>4. Recorded'
    BY DEF IInv, TypeOK, ContextTypeOK, RunTypeOK, Control, Stopping, Recorded, SavedAfterStop
<1>5. Shared'
    BY DEF IInv, TypeOK, ContextTypeOK, RunTypeOK, Control, Stopping, Recorded, Shared, NoLostUpdate
<1> QED BY <1>1, <1>2, <1>3, <1>4, <1>5 DEF IInv

\* The providers have been stopped.
LEMMA ProvidersStoppedInv ==
    ASSUME IInv, ProvidersStopped, UNCHANGED <<opVars, other>> PROVE IInv'
<1> USE DEF ProvidersStopped
<1>1. TypeOK'
    BY DEF IInv, TypeOK, ContextTypeOK, RunTypeOK
<1>2. Control'
    BY DEF IInv, TypeOK, ContextTypeOK, RunTypeOK, Control
<1>3. Stopping'
    BY DEF IInv, TypeOK, ContextTypeOK, RunTypeOK, Control, Stopping
<1>4. Recorded'
    BY DEF IInv, TypeOK, ContextTypeOK, RunTypeOK, Control, Stopping, Recorded, SavedAfterStop
<1>5. Shared'
    BY DEF IInv, TypeOK, ContextTypeOK, RunTypeOK, Control, Stopping, Recorded, Shared, NoLostUpdate
<1> QED BY <1>1, <1>2, <1>3, <1>4, <1>5 DEF IInv

\* A node asks the hooks, or ends.
LEMMA PreApplyInv ==
    ASSUME IInv, NEW n \in Res, PreApply(n), UNCHANGED <<opVars, other>> PROVE IInv'
<1> USE DEF Node, PreApply
<1>1. TypeOK'
    BY DEF IInv, TypeOK, ContextTypeOK, RunTypeOK
<1>2. Control'
    BY DEF IInv, TypeOK, ContextTypeOK, RunTypeOK, Control
<1>3. Stopping'
    BY DEF IInv, TypeOK, ContextTypeOK, RunTypeOK, Control, Stopping
<1>4. Recorded'
    BY DEF IInv, TypeOK, ContextTypeOK, RunTypeOK, Control, Stopping, Recorded, SavedAfterStop
<1>5. Shared'
    BY DEF IInv, TypeOK, ContextTypeOK, RunTypeOK, Control, Stopping, Recorded, Shared, NoLostUpdate
<1> QED BY <1>1, <1>2, <1>3, <1>4, <1>5 DEF IInv

\* A provider has made its object, or failed.
LEMMA ProviderReturnsInv ==
    ASSUME IInv, NEW n \in Res, ProviderReturns(n), UNCHANGED <<opVars, other>> PROVE IInv'
<1> USE DEF Node, ProviderReturns
<1>1. TypeOK'
    BY DEF IInv, TypeOK, ContextTypeOK, RunTypeOK
<1>2. Control'
    BY DEF IInv, TypeOK, ContextTypeOK, RunTypeOK, Control
<1>3. Stopping'
    BY DEF IInv, TypeOK, ContextTypeOK, RunTypeOK, Control, Stopping
<1>4. Recorded'
    BY DEF IInv, TypeOK, ContextTypeOK, RunTypeOK, Control, Stopping, Recorded, SavedAfterStop
<1>5. Shared'
    BY DEF IInv, TypeOK, ContextTypeOK, RunTypeOK, Control, Stopping, Recorded, Shared, NoLostUpdate
<1> QED BY <1>1, <1>2, <1>3, <1>4, <1>5 DEF IInv

\* The StateHook records a result.
LEMMA PostStateUpdateInv ==
    ASSUME IInv, NEW n \in Res, PostStateUpdate(n), UNCHANGED <<opVars, other>> PROVE IInv'
<1> USE DEF Node, PostStateUpdate
<1>1. TypeOK'
    BY DEF IInv, TypeOK, ContextTypeOK, RunTypeOK
<1>2. Control'
    BY DEF IInv, TypeOK, ContextTypeOK, RunTypeOK, Control
<1>3. Stopping'
    BY DEF IInv, TypeOK, ContextTypeOK, RunTypeOK, Control, Stopping
<1>4. Recorded'
    BY DEF IInv, TypeOK, ContextTypeOK, RunTypeOK, Control, Stopping, Recorded, SavedAfterStop
<1>5. Shared'
    BY DEF IInv, TypeOK, ContextTypeOK, RunTypeOK, Control, Stopping, Recorded, Shared, NoLostUpdate
<1> QED BY <1>1, <1>2, <1>3, <1>4, <1>5 DEF IInv

\* The StateHook saves it, or not.
LEMMA PersistIntermediateInv ==
    ASSUME IInv, NEW n \in Res, PersistIntermediate(n), UNCHANGED <<opVars, other>> PROVE IInv'
<1> USE DEF Node, PersistState, PersistFails, NotPersisted, Writes, Unchanged, PersistIntermediate
<1>1. TypeOK'
    BY DEF IInv, TypeOK, ContextTypeOK, RunTypeOK
<1>2. Control'
    BY DEF IInv, TypeOK, ContextTypeOK, RunTypeOK, Control
<1>3. Stopping'
    BY DEF IInv, TypeOK, ContextTypeOK, RunTypeOK, Control, Stopping
<1>4. Recorded'
    BY DEF IInv, TypeOK, ContextTypeOK, RunTypeOK, Control, Stopping, Recorded, SavedAfterStop
<1>5. Shared'
    BY DEF IInv, TypeOK, ContextTypeOK, RunTypeOK, Control, Stopping, Recorded, Shared, NoLostUpdate
<1> QED BY <1>1, <1>2, <1>3, <1>4, <1>5 DEF IInv

\* opApply locks and reads the state.
LEMMA OpLockInv ==
    ASSUME IInv, OpLock PROVE IInv'
<1> USE DEF OpLock
<1>1. TypeOK'
    BY DEF IInv, TypeOK, ContextTypeOK, RunTypeOK
<1>2. Control'
    BY DEF IInv, TypeOK, ContextTypeOK, RunTypeOK, Control
<1>3. Stopping'
    BY DEF IInv, TypeOK, ContextTypeOK, RunTypeOK, Control, Stopping
<1>4. Recorded'
    BY DEF IInv, TypeOK, ContextTypeOK, RunTypeOK, Control, Stopping, Recorded, SavedAfterStop
<1>5. Shared'
    BY DEF IInv, TypeOK, ContextTypeOK, RunTypeOK, Control, Stopping, Recorded, Shared, NoLostUpdate
<1> QED BY <1>1, <1>2, <1>3, <1>4, <1>5 DEF IInv

\* opApply does not get the lock.
LEMMA OpLockTimeoutInv ==
    ASSUME IInv, OpLockTimeout PROVE IInv'
<1> USE DEF OpLockTimeout
<1>1. TypeOK'
    BY DEF IInv, TypeOK, ContextTypeOK, RunTypeOK
<1>2. Control'
    BY DEF IInv, TypeOK, ContextTypeOK, RunTypeOK, Control
<1>3. Stopping'
    BY DEF IInv, TypeOK, ContextTypeOK, RunTypeOK, Control, Stopping
<1>4. Recorded'
    BY DEF IInv, TypeOK, ContextTypeOK, RunTypeOK, Control, Stopping, Recorded, SavedAfterStop
<1>5. Shared'
    BY DEF IInv, TypeOK, ContextTypeOK, RunTypeOK, Control, Stopping, Recorded, Shared, NoLostUpdate
<1> QED BY <1>1, <1>2, <1>3, <1>4, <1>5 DEF IInv

\* opApply plans.
LEMMA OpPlanInv ==
    ASSUME IInv, OpPlan PROVE IInv'
<1> USE DEF OpPlan
<1>1. TypeOK'
  <2>1. RunTypeOK'
    BY DEF IInv, TypeOK, ContextTypeOK, RunTypeOK
  <2> QED BY <2>1 DEF IInv, TypeOK, ContextTypeOK
<1>2. Control'
    BY DEF IInv, TypeOK, ContextTypeOK, RunTypeOK, Control
<1>3. Stopping'
    BY DEF IInv, TypeOK, ContextTypeOK, RunTypeOK, Control, Stopping
<1>4. Recorded'
    BY DEF IInv, TypeOK, ContextTypeOK, RunTypeOK, Control, Stopping, Recorded, SavedAfterStop
<1>5. Shared'
    BY DEF IInv, TypeOK, ContextTypeOK, RunTypeOK, Control, Stopping, Recorded, Shared, NoLostUpdate
<1> QED BY <1>1, <1>2, <1>3, <1>4, <1>5 DEF IInv

\* The user answers.
LEMMA OpConfirmInv ==
    ASSUME IInv, OpConfirm PROVE IInv'
<1> USE DEF OpConfirm
<1>1. TypeOK'
    BY DEF IInv, TypeOK, ContextTypeOK, RunTypeOK
<1>2. Control'
    BY DEF IInv, TypeOK, ContextTypeOK, RunTypeOK, Control
<1>3. Stopping'
    BY DEF IInv, TypeOK, ContextTypeOK, RunTypeOK, Control, Stopping
<1>4. Recorded'
    BY DEF IInv, TypeOK, ContextTypeOK, RunTypeOK, Control, Stopping, Recorded, SavedAfterStop
<1>5. Shared'
    BY DEF IInv, TypeOK, ContextTypeOK, RunTypeOK, Control, Stopping, Recorded, Shared, NoLostUpdate
<1> QED BY <1>1, <1>2, <1>3, <1>4, <1>5 DEF IInv

\* opApply starts Context.Apply.
LEMMA OpStartInv ==
    ASSUME IInv, OpStart PROVE IInv'
<1> USE DEF OpStart
<1>1. TypeOK'
    BY DEF IInv, TypeOK, ContextTypeOK, RunTypeOK
<1>2. Control'
    BY DEF IInv, TypeOK, ContextTypeOK, RunTypeOK, Control
<1>3. Stopping'
    BY DEF IInv, TypeOK, ContextTypeOK, RunTypeOK, Control, Stopping
<1>4. Recorded'
    BY DEF IInv, TypeOK, ContextTypeOK, RunTypeOK, Control, Stopping, Recorded, SavedAfterStop
<1>5. Shared'
    BY DEF IInv, TypeOK, ContextTypeOK, RunTypeOK, Control, Stopping, Recorded, Shared, NoLostUpdate
<1> QED BY <1>1, <1>2, <1>3, <1>4, <1>5 DEF IInv

\* opWait saves the state and starts Stop.
LEMMA OpStopInv ==
    ASSUME IInv, OpStop PROVE IInv'
<1> USE DEF PersistState, PersistFails, Writes, Unchanged, OpStop
<1>1. TypeOK'
  <2>1. RunTypeOK'
    BY DEF IInv, TypeOK, ContextTypeOK, RunTypeOK, Stopping
  <2> QED BY <2>1 DEF IInv, TypeOK, ContextTypeOK
<1>2. Control'
    BY DEF IInv, TypeOK, ContextTypeOK, RunTypeOK, Control
<1>3. Stopping'
    BY DEF IInv, TypeOK, ContextTypeOK, RunTypeOK, Control, Stopping
<1>4. Recorded'
    BY DEF IInv, TypeOK, ContextTypeOK, RunTypeOK, Control, Stopping, Recorded, SavedAfterStop
<1>5. Shared'
    BY DEF IInv, TypeOK, ContextTypeOK, RunTypeOK, Control, Stopping, Recorded, Shared, NoLostUpdate
<1> QED BY <1>1, <1>2, <1>3, <1>4, <1>5 DEF IInv

\* opWait sees the end of Apply.
LEMMA OpDoneInv ==
    ASSUME IInv, OpDone PROVE IInv'
<1> USE DEF HasResult, OpDone
<1>1. TypeOK'
    BY DEF IInv, TypeOK, ContextTypeOK, RunTypeOK
<1>2. Control'
    BY DEF IInv, TypeOK, ContextTypeOK, RunTypeOK, Control
<1>3. Stopping'
    BY DEF IInv, TypeOK, ContextTypeOK, RunTypeOK, Control, Stopping
<1>4. Recorded'
    BY DEF IInv, TypeOK, ContextTypeOK, RunTypeOK, Control, Stopping, Recorded, SavedAfterStop
<1>5. Shared'
    BY DEF IInv, TypeOK, ContextTypeOK, RunTypeOK, Control, Stopping, Recorded, Shared, NoLostUpdate
<1> QED BY <1>1, <1>2, <1>3, <1>4, <1>5 DEF IInv

\* opWait sees the kill.
LEMMA OpCancelInv ==
    ASSUME IInv, OpCancel PROVE IInv'
<1> USE DEF OpCancel
<1>1. TypeOK'
    BY DEF IInv, TypeOK, ContextTypeOK, RunTypeOK
<1>2. Control'
    BY DEF IInv, TypeOK, ContextTypeOK, RunTypeOK, Control
<1>3. Stopping'
    BY DEF IInv, TypeOK, ContextTypeOK, RunTypeOK, Control, Stopping
<1>4. Recorded'
    BY DEF IInv, TypeOK, ContextTypeOK, RunTypeOK, Control, Stopping, Recorded, SavedAfterStop
<1>5. Shared'
    BY DEF IInv, TypeOK, ContextTypeOK, RunTypeOK, Control, Stopping, Recorded, Shared, NoLostUpdate
<1> QED BY <1>1, <1>2, <1>3, <1>4, <1>5 DEF IInv

\* opApply writes the result.
LEMMA OpWriteInv ==
    ASSUME IInv, OpWrite PROVE IInv'
<1> USE DEF OpWrite
<1>1. TypeOK'
    BY DEF IInv, TypeOK, ContextTypeOK, RunTypeOK
<1>2. Control'
    BY DEF IInv, TypeOK, ContextTypeOK, RunTypeOK, Control
<1>3. Stopping'
    BY DEF IInv, TypeOK, ContextTypeOK, RunTypeOK, Control, Stopping
<1>4. Recorded'
    BY DEF IInv, TypeOK, ContextTypeOK, RunTypeOK, Control, Stopping, Recorded, SavedAfterStop
<1>5. Shared'
    BY DEF IInv, TypeOK, ContextTypeOK, RunTypeOK, Control, Stopping, Recorded, Shared, NoLostUpdate
<1> QED BY <1>1, <1>2, <1>3, <1>4, <1>5 DEF IInv

\* opApply persists the result.
LEMMA OpPersistInv ==
    ASSUME IInv, OpPersist PROVE IInv'
<1> USE DEF PersistFails, Writes, Unchanged, OpPersist
<1>1. TypeOK'
    BY DEF IInv, TypeOK, ContextTypeOK, RunTypeOK
<1>2. Control'
    BY DEF IInv, TypeOK, ContextTypeOK, RunTypeOK, Control
<1>3. Stopping'
    BY DEF IInv, TypeOK, ContextTypeOK, RunTypeOK, Control, Stopping
<1>4. Recorded'
    BY DEF IInv, TypeOK, ContextTypeOK, RunTypeOK, Control, Stopping, Recorded, SavedAfterStop
<1>5. Shared'
    BY DEF IInv, TypeOK, ContextTypeOK, RunTypeOK, Control, Stopping, Recorded, Shared, NoLostUpdate
<1> QED BY <1>1, <1>2, <1>3, <1>4, <1>5 DEF IInv

\* opApply writes errored.tfstate.
LEMMA BackupStateForErrorInv ==
    ASSUME IInv, BackupStateForError PROVE IInv'
<1> USE DEF BackupStateForError
<1>1. TypeOK'
    BY DEF IInv, TypeOK, ContextTypeOK, RunTypeOK
<1>2. Control'
    BY DEF IInv, TypeOK, ContextTypeOK, RunTypeOK, Control
<1>3. Stopping'
    BY DEF IInv, TypeOK, ContextTypeOK, RunTypeOK, Control, Stopping
<1>4. Recorded'
    BY DEF IInv, TypeOK, ContextTypeOK, RunTypeOK, Control, Stopping, Recorded, SavedAfterStop
<1>5. Shared'
    BY DEF IInv, TypeOK, ContextTypeOK, RunTypeOK, Control, Stopping, Recorded, Shared, NoLostUpdate
<1> QED BY <1>1, <1>2, <1>3, <1>4, <1>5 DEF IInv

\* opApply unlocks the state.
LEMMA OpUnlockInv ==
    ASSUME IInv, OpUnlock PROVE IInv'
<1> USE DEF OpUnlock
<1>1. TypeOK'
    BY DEF IInv, TypeOK, ContextTypeOK, RunTypeOK
<1>2. Control'
    BY DEF IInv, TypeOK, ContextTypeOK, RunTypeOK, Control
<1>3. Stopping'
    BY DEF IInv, TypeOK, ContextTypeOK, RunTypeOK, Control, Stopping
<1>4. Recorded'
    BY DEF IInv, TypeOK, ContextTypeOK, RunTypeOK, Control, Stopping, Recorded, SavedAfterStop
<1>5. Shared'
    BY DEF IInv, TypeOK, ContextTypeOK, RunTypeOK, Control, Stopping, Recorded, Shared, NoLostUpdate
<1> QED BY <1>1, <1>2, <1>3, <1>4, <1>5 DEF IInv

\* The user interrupts.
LEMMA InterruptInv ==
    ASSUME IInv, Interrupt PROVE IInv'
<1> USE DEF Interrupt
<1>1. TypeOK'
    BY DEF IInv, TypeOK, ContextTypeOK, RunTypeOK
<1>2. Control'
    BY DEF IInv, TypeOK, ContextTypeOK, RunTypeOK, Control
<1>3. Stopping'
    BY DEF IInv, TypeOK, ContextTypeOK, RunTypeOK, Control, Stopping
<1>4. Recorded'
    BY DEF IInv, TypeOK, ContextTypeOK, RunTypeOK, Control, Stopping, Recorded, SavedAfterStop
<1>5. Shared'
    BY DEF IInv, TypeOK, ContextTypeOK, RunTypeOK, Control, Stopping, Recorded, Shared, NoLostUpdate
<1> QED BY <1>1, <1>2, <1>3, <1>4, <1>5 DEF IInv

\* The user kills.
LEMMA KillInv ==
    ASSUME IInv, Kill PROVE IInv'
<1> USE DEF Kill
<1>1. TypeOK'
    BY DEF IInv, TypeOK, ContextTypeOK, RunTypeOK
<1>2. Control'
    BY DEF IInv, TypeOK, ContextTypeOK, RunTypeOK, Control
<1>3. Stopping'
    BY DEF IInv, TypeOK, ContextTypeOK, RunTypeOK, Control, Stopping
<1>4. Recorded'
    BY DEF IInv, TypeOK, ContextTypeOK, RunTypeOK, Control, Stopping, Recorded, SavedAfterStop
<1>5. Shared'
    BY DEF IInv, TypeOK, ContextTypeOK, RunTypeOK, Control, Stopping, Recorded, Shared, NoLostUpdate
<1> QED BY <1>1, <1>2, <1>3, <1>4, <1>5 DEF IInv

\* RunOperation returns.
LEMMA ReturnInv ==
    ASSUME IInv, Return PROVE IInv'
<1> USE DEF Return
<1>1. TypeOK'
    BY DEF IInv, TypeOK, ContextTypeOK, RunTypeOK
<1>2. Control'
    BY DEF IInv, TypeOK, ContextTypeOK, RunTypeOK, Control
<1>3. Stopping'
    BY DEF IInv, TypeOK, ContextTypeOK, RunTypeOK, Control, Stopping
<1>4. Recorded'
    BY DEF IInv, TypeOK, ContextTypeOK, RunTypeOK, Control, Stopping, Recorded, SavedAfterStop
<1>5. Shared'
    BY DEF IInv, TypeOK, ContextTypeOK, RunTypeOK, Control, Stopping, Recorded, Shared, NoLostUpdate
<1> QED BY <1>1, <1>2, <1>3, <1>4, <1>5 DEF IInv

\* The process ends.
LEMMA ExitInv ==
    ASSUME IInv, Exit PROVE IInv'
<1> USE DEF Exit
<1>1. TypeOK'
    BY DEF IInv, TypeOK, ContextTypeOK, RunTypeOK
<1>2. Control'
    BY DEF IInv, TypeOK, ContextTypeOK, RunTypeOK, Control
<1>3. Stopping'
    BY DEF IInv, TypeOK, ContextTypeOK, RunTypeOK, Control, Stopping
<1>4. Recorded'
    BY DEF IInv, TypeOK, ContextTypeOK, RunTypeOK, Control, Stopping, Recorded, SavedAfterStop
<1>5. Shared'
    BY DEF IInv, TypeOK, ContextTypeOK, RunTypeOK, Control, Stopping, Recorded, Shared, NoLostUpdate
<1> QED BY <1>1, <1>2, <1>3, <1>4, <1>5 DEF IInv

\* The other process locks the state.
LEMMA OtherLocksInv ==
    ASSUME IInv, OtherLocks PROVE IInv'
<1> USE DEF OtherLocks
<1>1. TypeOK'
    BY DEF IInv, TypeOK, ContextTypeOK, RunTypeOK
<1>2. Control'
    BY DEF IInv, TypeOK, ContextTypeOK, RunTypeOK, Control
<1>3. Stopping'
    BY DEF IInv, TypeOK, ContextTypeOK, RunTypeOK, Control, Stopping
<1>4. Recorded'
    BY DEF IInv, TypeOK, ContextTypeOK, RunTypeOK, Control, Stopping, Recorded, SavedAfterStop
<1>5. Shared'
    BY DEF IInv, TypeOK, ContextTypeOK, RunTypeOK, Control, Stopping, Recorded, Shared, NoLostUpdate
<1> QED BY <1>1, <1>2, <1>3, <1>4, <1>5 DEF IInv

\* The other process writes.
LEMMA OtherWritesInv ==
    ASSUME IInv, OtherWrites PROVE IInv'
<1> USE DEF OtherWrites
<1>1. TypeOK'
    BY DEF IInv, TypeOK, ContextTypeOK, RunTypeOK
<1>2. Control'
    BY DEF IInv, TypeOK, ContextTypeOK, RunTypeOK, Control
<1>3. Stopping'
    BY DEF IInv, TypeOK, ContextTypeOK, RunTypeOK, Control, Stopping
<1>4. Recorded'
    BY DEF IInv, TypeOK, ContextTypeOK, RunTypeOK, Control, Stopping, Recorded, SavedAfterStop
<1>5. Shared'
    BY DEF IInv, TypeOK, ContextTypeOK, RunTypeOK, Control, Stopping, Recorded, Shared, NoLostUpdate
<1> QED BY <1>1, <1>2, <1>3, <1>4, <1>5 DEF IInv

\* The other process unlocks.
LEMMA OtherUnlocksInv ==
    ASSUME IInv, OtherUnlocks PROVE IInv'
<1> USE DEF OtherUnlocks
<1>1. TypeOK'
    BY DEF IInv, TypeOK, ContextTypeOK, RunTypeOK
<1>2. Control'
    BY DEF IInv, TypeOK, ContextTypeOK, RunTypeOK, Control
<1>3. Stopping'
    BY DEF IInv, TypeOK, ContextTypeOK, RunTypeOK, Control, Stopping
<1>4. Recorded'
    BY DEF IInv, TypeOK, ContextTypeOK, RunTypeOK, Control, Stopping, Recorded, SavedAfterStop
<1>5. Shared'
    BY DEF IInv, TypeOK, ContextTypeOK, RunTypeOK, Control, Stopping, Recorded, Shared, NoLostUpdate
<1> QED BY <1>1, <1>2, <1>3, <1>4, <1>5 DEF IInv

-----------------------------------------------------------------------------
\* The invariant holds at the start.
LEMMA InitInv == Init => IInv
<1> SUFFICES ASSUME Init PROVE IInv
    OBVIOUS
<1> USE DEF Init, ContextInit
<1>1. TypeOK
  <2>1. RunTypeOK
    BY DEF RunTypeOK
  <2>2. ContextTypeOK
    BY <2>1 DEF ContextTypeOK
  <2>3. stopCtx \in BOOLEAN /\ cancelCtx \in BOOLEAN /\ exited \in BOOLEAN
    OBVIOUS
  <2> QED BY <2>2, <2>3 DEF TypeOK
<1>2. Control /\ Stopping
    BY DEF Control, Stopping
<1>3. Recorded /\ Shared
    BY DEF Recorded, SavedAfterStop, Shared, NoLostUpdate
<1> QED BY <1>1, <1>2, <1>3 DEF IInv

\* Every step preserves it.
LEMMA NextInv == IInv /\ [Next]_vars => IInv'
<1> SUFFICES ASSUME IInv, [Next]_vars PROVE IInv'
    OBVIOUS
<1>1. CASE CoreNext /\ UNCHANGED <<opVars, other>>
  <2>1. CASE ApplyNext
    BY <1>1, <2>1, AcquireRunInv, BuildGraphInv, WalkEndsInv, UnwatchedInv, ReleaseRunInv
       DEF ApplyNext
  <2>2. CASE \E n \in Res : NodeNext(n)
    BY <1>1, <2>2, PreApplyInv, ProviderReturnsInv, PostStateUpdateInv, PersistIntermediateInv
       DEF NodeNext
  <2>3. CASE StopNext
    BY <1>1, <2>3, StopLockInv, StopNotifyInv, StopReturnsInv DEF StopNext
  <2>4. CASE WatchNext
    BY <1>1, <2>4, WatchCanceledInv, WatchClosedInv, ProvidersStoppedInv DEF WatchNext
  <2> QED BY <1>1, <2>1, <2>2, <2>3, <2>4 DEF CoreNext
<1>2. CASE OpNext
    BY <1>2, OpLockInv, OpLockTimeoutInv, OpPlanInv, OpConfirmInv, OpStartInv, OpStopInv,
       OpDoneInv, OpCancelInv, OpWriteInv, OpPersistInv, BackupStateForErrorInv, OpUnlockInv
       DEF OpNext
<1>3. CASE UiNext
    BY <1>3, InterruptInv, KillInv, ReturnInv, ExitInv DEF UiNext
<1>4. CASE OtherNext
    BY <1>4, OtherLocksInv, OtherWritesInv, OtherUnlocksInv DEF OtherNext
<1>5. CASE UNCHANGED vars
    BY <1>5 DEF IInv, TypeOK, ContextTypeOK, RunTypeOK, Control, Stopping, Recorded,
                SavedAfterStop, Shared, NoLostUpdate
<1> QED BY <1>1, <1>2, <1>3, <1>4, <1>5 DEF Next, Process, Ended

\* IInv is an invariant of opApply, Context and their environment together.
LEMMA Invariance == Spec => []IInv
  BY InitInv, NextInv, PTL DEF Spec

-----------------------------------------------------------------------------
\* Every variable keeps its type, and the mutexes of Context and of the
\* StateHook are held exactly where the code holds them.
THEOREM TypeCorrect == Spec => []TypeOK
<1>1. IInv => TypeOK
    BY DEF IInv
<1> QED BY <1>1, Invariance, PTL

\* An apply that was not killed leaves every object it has made in the state
\* or in errored.tfstate (opApply).
THEOREM NothingIsLost == Spec => []NothingLost
<1>1. IInv => NothingLost
    BY DEF IInv, Recorded, NothingLost
<1> QED BY <1>1, Invariance, PTL

\* Once Stop has told the StateHook, every finished object is saved, unless a
\* write has failed (StateHook.Stopping, PostStateUpdate).
THEOREM FinishedIsSaved == Spec => []SavedAfterStop
<1>1. IInv => SavedAfterStop
    BY DEF IInv, Recorded
<1> QED BY <1>1, Invariance, PTL

\* Providers are stopped only if somebody has asked for it (watchStop).
THEOREM ProvidersAreSpared == Spec => []ProvidersSpared
<1>1. IInv => ProvidersSpared
    BY DEF IInv, Stopping, ProvidersSpared
<1> QED BY <1>1, Invariance, PTL

\* If Unlock does not depend on its context, an operation that has ended does
\* not hold the lock, unless its release has failed (opApply's deferred Unlock).
THEOREM LockIsReleased ==
    ASSUME ~UnlockHonoursContext PROVE Spec => []UnlockedWhenDone
<1>1. IInv => UnlockedWhenDone
    BY DEF IInv, Shared, UnlockedWhenDone
<1> QED BY <1>1, Invariance, PTL

\* With a manager that writes only changes, what another process has written
\* stays, even if Stop is still running when the lock is given back.
THEOREM UpdatesSurvive ==
    ASSUME SkipsUnchanged PROVE Spec => []NoLostUpdate
<1>1. IInv => NoLostUpdate
    BY DEF IInv, Shared
<1> QED BY <1>1, Invariance, PTL

\* While Stop waits for the run no node calls its provider (PreApply).
THEOREM StoppedStaysStopped == Spec => StopTakesEffect
<1> DEFINE Starts(n) == node[n] = "pending" /\ node'[n] = "active"
<1>1. IInv /\ [Next]_vars => \A n \in Res : Starts(n) => stop # "wait"
  <2> SUFFICES ASSUME IInv, [Next]_vars, NEW n \in Res, Starts(n), stop = "wait" PROVE FALSE
      OBVIOUS
  <2>1. PICK m \in Res : NodeNext(m)
    BY DEF Next, Process, Ended, CoreNext, ApplyNext, StopNext, WatchNext, OpNext, UiNext,
           OtherNext, AcquireRun, BuildGraph, WalkEnds, Unwatched, ReleaseRun, StopLock,
           StopNotify, StopReturns, WatchCanceled, WatchClosed, ProvidersStopped, OpLock,
           OpLockTimeout, OpPlan, OpConfirm, OpStart, OpStop, OpDone, OpCancel, OpWrite,
           OpPersist, BackupStateForError, OpUnlock, Interrupt, Kill, Return, Exit,
           OtherLocks, OtherWrites, OtherUnlocks
  <2>2. apply = "walk" /\ ~stopped
    BY <2>1 DEF NodeNext, PreApply, ProviderReturns, PostStateUpdate, PersistIntermediate,
                Node, IInv, TypeOK, ContextTypeOK
  <2> QED BY <2>2 DEF IInv, Control, Stopping
<1> QED BY <1>1, Invariance, PTL DEF Spec, StopTakesEffect
=============================================================================
