--------------------------- MODULE LocalOperation ---------------------------
(***************************************************************************)
(* "tofu apply" in the local backend: Meta.RunOperation                    *)
(* (internal/command/meta.go) starts Local.Operation, which runs opApply   *)
(* (internal/backend/local) in a goroutine of its own, which in turn runs  *)
(* Context.Apply (module ContextRun) in another one.  The user may         *)
(* interrupt the command once, asking it to stop, and once more, killing   *)
(* it.  Another process works on the same state whenever it gets the lock. *)
(***************************************************************************)
EXTENDS ContextRun

CONSTANTS
    AllowKill,            \* the user may interrupt a second time
    UnlockHonoursContext  \* the lock is not released under a cancelled context

VARIABLES
    op,         \* where opApply is
    ui,         \* where RunOperation is
    stopCtx,    \* stopCtx is cancelled
    cancelCtx,  \* cancelCtx is cancelled
    holder,     \* who holds the state lock, or "left": nobody, since its release failed
    other,      \* where the other process is
    recovered,  \* the state in errored.tfstate, or printed instead of it
    exited      \* the process has ended, and all its goroutines with it

opVars  == <<op, stopCtx, cancelCtx, ui, holder, recovered, exited>>
envVars == <<ui, stopCtx, cancelCtx, other, exited>>
ctxVars == <<runVars, pcVars, hookVars, objVars, mgrVars>>
vars    == <<ctxVars, opVars, other>>

\* Every variable ranges over the values its part of the code distinguishes.
TypeOK ==
    /\ ContextTypeOK
    /\ op \in {"lock", "plan", "confirm", "start", "wait", "stopping",
               "write", "persist", "backup", "unlock", "done"}
    /\ ui \in {"wait", "interrupted", "killed", "returned"}
    /\ stopCtx \in BOOLEAN /\ cancelCtx \in BOOLEAN /\ exited \in BOOLEAN
    /\ holder \in {Nobody, "us", "other", "left"}
    /\ other \in {"idle", "locked", "wrote", "done"}
    /\ recovered \subseteq Res \union Foreign

Init ==
    /\ ContextInit
    /\ op = "lock" /\ ui = "wait"
    /\ stopCtx = FALSE /\ cancelCtx = FALSE /\ exited = FALSE
    /\ holder = Nobody /\ other = "idle" /\ recovered = {}

-----------------------------------------------------------------------------
(***************************************************************************)
(* opApply, up to the start of Context.Apply.                              *)
(***************************************************************************)
\* Fault: a lock held by another process is not respected.
OpLockIgnored ==
    /\ op = "lock"
    /\ holder' = "us"
    /\ mem' = saved /\ base' = saved /\ work' = saved
    /\ op' = "plan"
    /\ UNCHANGED <<runVars, pcVars, hookVars, real, saved, failures, envVars, recovered>>

\* localRun: lock the state, then read it.  The plan starts from what is read.
OpLock ==
    /\ op = "lock" /\ holder = Nobody
    /\ holder' = "us"
    /\ mem' = saved /\ base' = saved /\ work' = saved
    /\ op' = "plan"
    /\ UNCHANGED <<runVars, pcVars, hookVars, real, saved, failures, envVars, recovered>>

\* LockWithContext gives up: its time is over, or stopCtx is cancelled.
OpLockTimeout ==
    /\ op = "lock" /\ holder # Nobody
    /\ op' = "done"
    /\ UNCHANGED <<ctxVars, envVars, holder, recovered>>

\* Plan runs to its end whatever stopCtx says and leaves runContextCancel set;
\* stopCtx is tested after it, unless the plan comes from a file.
OpPlan ==
    /\ op = "plan"
    /\ \/ cancelable' = TRUE /\ op' = IF stopCtx THEN "unlock" ELSE "confirm"
       \/ cancelable' \in BOOLEAN /\ op' = "start"
       \/ cancelable' \in BOOLEAN /\ op' = "unlock"
    /\ UNCHANGED <<busy, ctxDone, stopped, clHeld, pcVars, hookVars, objVars, mgrVars>>
    /\ UNCHANGED <<envVars, holder, recovered>>

\* The answer, or the -auto-approve flag; an interrupt ends the question.
OpConfirm ==
    /\ op = "confirm"
    /\ op' \in {"start", "unlock"}
    /\ UNCHANGED <<ctxVars, envVars, holder, recovered>>

OpStart ==
    /\ op = "start"
    /\ apply' = "called"
    /\ op' = "wait"
    /\ UNCHANGED <<runVars, stop, watch, node, hookVars, objVars, mgrVars>>
    /\ UNCHANGED <<envVars, holder, recovered>>

-----------------------------------------------------------------------------
(***************************************************************************)
(* opWait: a choice if several channels are ready.                         *)
(***************************************************************************)
\* Save what there is, then start Stop in a goroutine nobody waits for.
OpStop ==
    /\ op = "wait" /\ stopCtx
    /\ PersistState(mem)
    /\ stop' = "called"
    /\ op' = "stopping"
    /\ UNCHANGED <<runVars, apply, watch, node, hookVars, objVars, mem>>
    /\ UNCHANGED <<envVars, holder, recovered>>

\* doneCh is closed; a nil state is not written.
OpDone ==
    /\ op \in {"wait", "stopping"} /\ apply = "returned"
    /\ op' = IF HasResult THEN "write" ELSE "unlock"
    /\ UNCHANGED <<ctxVars, envVars, holder, recovered>>

\* Fault: a killed operation leaves the lock.
OpCancelReturns ==
    /\ op \in {"wait", "stopping"} /\ cancelCtx
    /\ op' = "done"
    /\ UNCHANGED <<ctxVars, envVars, holder, recovered>>

\* Apply goes on.
OpCancel ==
    /\ op \in {"wait", "stopping"} /\ cancelCtx
    /\ op' = "unlock"
    /\ UNCHANGED <<ctxVars, envVars, holder, recovered>>

-----------------------------------------------------------------------------
(***************************************************************************)
(* The end of opApply.                                                     *)
(***************************************************************************)
\* WriteAndPersist: WriteState ...
OpWrite ==
    /\ op = "write"
    /\ mem' = work
    /\ op' = "persist"
    /\ UNCHANGED <<runVars, pcVars, hookVars, objVars, base, saved, failures>>
    /\ UNCHANGED <<envVars, holder, recovered>>

\* Fault: the error of the final PersistState is only reported.
OpPersistReports ==
    /\ op = "persist"
    /\ PersistState(mem)
    /\ op' = "unlock"
    /\ UNCHANGED <<runVars, pcVars, hookVars, objVars, mem>>
    /\ UNCHANGED <<envVars, holder, recovered>>

\* ... and PersistState.
OpPersist ==
    /\ op = "persist"
    /\ \/ Writes(mem) /\ UNCHANGED failures /\ op' = "unlock"
       \/ PersistFails(mem) /\ op' = "backup"
    /\ UNCHANGED <<runVars, pcVars, hookVars, objVars, mem>>
    /\ UNCHANGED <<envVars, holder, recovered>>

BackupStateForError ==
    /\ op = "backup"
    /\ recovered' = work
    /\ op' = "unlock"
    /\ UNCHANGED <<ctxVars, envVars, holder>>

\* The deferred Unlock passes stopCtx to the manager.  Its request may also fail: the
\* command says so, and the lock is left for force-unlock.
OpUnlock ==
    /\ op = "unlock"
    /\ \/ /\ holder' = IF UnlockHonoursContext /\ stopCtx THEN holder ELSE Nobody
          /\ UNCHANGED failures
       \/ failures < MaxFailures /\ failures' = failures + 1 /\ holder' = "left"
    /\ op' = "done"
    /\ UNCHANGED <<runVars, pcVars, hookVars, objVars, mem, base, saved, envVars, recovered>>

-----------------------------------------------------------------------------
(***************************************************************************)
(* RunOperation, and the end of the process.                               *)
(***************************************************************************)
Interrupt ==
    /\ ui = "wait"
    /\ ui' = "interrupted" /\ stopCtx' = TRUE
    /\ UNCHANGED <<ctxVars, op, cancelCtx, holder, other, recovered, exited>>

Kill ==
    /\ AllowKill /\ ui = "interrupted"
    /\ ui' = "killed" /\ cancelCtx' = TRUE
    /\ UNCHANGED <<ctxVars, op, stopCtx, holder, other, recovered, exited>>

\* The operation is done, or has not ended within five seconds of the kill.
Return ==
    /\ ui # "returned" /\ (op = "done" \/ ui = "killed")
    /\ ui' = "returned"
    /\ UNCHANGED <<ctxVars, op, stopCtx, cancelCtx, holder, other, recovered, exited>>

Exit ==
    /\ ui = "returned"
    /\ exited' = TRUE
    /\ UNCHANGED <<ctxVars, op, ui, stopCtx, cancelCtx, holder, other, recovered>>

-----------------------------------------------------------------------------
(***************************************************************************)
(* The other process: lock, add its objects to the state, unlock.          *)
(***************************************************************************)
OtherLocks ==
    /\ other = "idle" /\ holder = Nobody
    /\ holder' = "other" /\ other' = "locked"
    /\ UNCHANGED <<ctxVars, op, ui, stopCtx, cancelCtx, recovered, exited>>

OtherWrites ==
    /\ other = "locked"
    /\ saved' = saved \union Foreign
    /\ other' = "wrote"
    /\ UNCHANGED <<runVars, pcVars, hookVars, objVars, mem, base, failures, opVars>>

OtherUnlocks ==
    /\ other = "wrote"
    /\ holder' = Nobody /\ other' = "done"
    /\ UNCHANGED <<ctxVars, op, ui, stopCtx, cancelCtx, recovered, exited>>

-----------------------------------------------------------------------------
OpNext == OpLock \/ OpLockTimeout \/ OpPlan \/ OpConfirm \/ OpStart \/ OpStop \/ OpDone
          \/ OpCancel \/ OpWrite \/ OpPersist \/ BackupStateForError \/ OpUnlock
UiNext == Interrupt \/ Kill \/ Return \/ Exit
OtherNext == OtherLocks \/ OtherWrites \/ OtherUnlocks

\* The goroutines of Context.
CoreNext == ApplyNext \/ (\E n \in Res : NodeNext(n)) \/ StopNext \/ WatchNext

Process == ~exited /\ ((CoreNext /\ UNCHANGED <<opVars, other>>) \/ OpNext \/ UiNext)

\* The process has ended; only then may nothing more happen.
Ended == exited /\ UNCHANGED vars

Next == Process \/ OtherNext \/ Ended

Spec == Init /\ [][Next]_vars

(***************************************************************************)
(* Every goroutine runs on; providers, state stores and the user answer;   *)
(* the other process gives its lock back.  Nobody has to interrupt.        *)
(***************************************************************************)
Core(A) == ~exited /\ A /\ UNCHANGED <<opVars, other>>

Fairness ==
    /\ WF_vars(Core(ApplyNext)) /\ WF_vars(Core(StopNext)) /\ WF_vars(Core(WatchNext))
    /\ \A n \in Res : WF_vars(Core(NodeNext(n)))
    /\ WF_vars(~exited /\ OpNext)
    /\ WF_vars(~exited /\ (Return \/ Exit))
    /\ WF_vars(OtherWrites \/ OtherUnlocks)

FairSpec == Spec /\ Fairness

-----------------------------------------------------------------------------
\* An apply that was not killed leaves every object it has made in the
\* persistent snapshot or in errored.tfstate, interrupted or not, whatever
\* failed and whatever its goroutines still do (opApply, WriteAndPersist).
NothingLost == op = "done" /\ ~cancelCtx => real \subseteq saved \union recovered

\* Once Stop has told the hooks, a process that dies loses no finished object:
\* StateHook.Stopping and the forced writes of PostStateUpdate have saved it,
\* unless a write has failed or the manager declines intermediate snapshots.
SavedAfterStop ==
    stop \in {"wait", "returned"} /\ Intermediate /\ failures = 0 =>
        \A n \in real : node[n] = "done" => n \in saved

\* Providers are told to stop only if somebody asked for it, never because
\* the run has ended (watchStop and walk).
ProvidersSpared == watch = "stopping" => stop # "none"

\* An operation that has ended does not hold the state lock, unless the store has
\* failed to release it (the deferred Unlock of opApply).
UnlockedWhenDone == op = "done" => holder # "us"

\* What another process has written under the lock is not overwritten by a
\* write that is based on an older state: not by the final one, not by the
\* hooks', not by a Stop that is still running when the lock is given back.
\* The last needs a manager that writes only what has changed, and no write
\* may have failed; a killed operation unlocks while its nodes still run.
NoLostUpdate ==
    other \in {"wrote", "done"} /\ ~cancelCtx /\ failures = 0 => Foreign \subseteq saved

\* While Stop waits for the run, Core starts no new operation (PreApply): a
\* run that is stopped stays stopped until its end.
StopTakesEffect ==
    [][\A n \in Res : node[n] = "pending" /\ node'[n] = "active" => stop # "wait"]_vars

\* The command comes to its end, interrupted or not: Stop, Apply, the nodes
\* and watchStop do not wait for each other in a circle.
OperationEnds == <>exited

=============================================================================
