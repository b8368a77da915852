---------------------------- MODULE RemoteState ----------------------------
(***************************************************************************)
(* The state manager of internal/states/remote/state.go, remote.State, as  *)
(* used by several tofu commands that share one remote state object.       *)
(*                                                                         *)
(* A process is one run of a command, with a manager of its own.  It locks *)
(* the state, refreshes it and then applies (with or without a saved plan),*)
(* saves a plan, or imports a state file (state push, backend migration).  *)
(* Every method of the manager runs under its mutex, so the methods of one *)
(* manager do not interleave; the requests that different processes send   *)
(* to the remote object do.                                                *)
(*                                                                         *)
(* A state is the set of objects it tracks; NoState is the nil pointer.  A *)
(* lineage is the number of the UUID generated for it; 0 is "".            *)
(***************************************************************************)
EXTENDS Naturals

CONSTANTS
    Proc,          \* the processes
    Obj,           \* the objects a state may track
    NoState,       \* a nil *states.State
    NoProc,        \* nobody holds the lock
    Initial,       \* the snapshots the remote object may hold at the start
    Foreign,       \* state files of other origin that may be imported
    Forces,        \* the values of -force that imports may use; {}: no imports
    Locking,       \* FALSE with -lock=false
    MaxMutations,  \* bound on the calls of MutateState of a process
    MaxFailures,   \* bound on the requests that fail
    MaxSerial      \* bound on the serials, where nothing else bounds them

States == SUBSET Obj
File   == [lineage : Nat, serial : Nat, state : States]

\* What Client.Get returns: stale if it is encrypted in a way that is to be
\* migrated (encryption.StatusMigration).  A stored snapshot has a positive
\* serial; Absent stands for a remote object that does not exist.
Snapshot == [lineage : Nat, serial : Nat, state : States, stale : BOOLEAN]
Absent   == [lineage |-> 0, serial |-> 0, state |-> {}, stale |-> FALSE]

ASSUME RemoteStateAssumption ==
    /\ \A s \in States : s # NoState
    /\ \A p \in Proc : p # NoProc
    /\ Initial \subseteq Snapshot
    /\ \A r \in Initial : r = Absent \/ (r.lineage = 1 /\ r.serial > 0)
    /\ Foreign \subseteq File
    /\ Forces \subseteq BOOLEAN /\ Locking \in BOOLEAN
    /\ MaxMutations \in Nat /\ MaxFailures \in Nat /\ MaxSerial \in Nat

VARIABLES
    remote,       \* the remote state object
    lock,         \* the holder of the remote lock
    lineage, serial, state,             \* State.lineage, .serial, .state
    readLineage, readSerial, readState, \* State.readLineage, .readSerial, .readState
    readStale,    \* State.readEncryption is StatusMigration
    pc,           \* where the command is
    kind,         \* what it does once the state is loaded
    work,         \* its own copy of the state: the walker's, or the imported file's
    imported,     \* the lineage of the file it imports
    ret,          \* what PersistState returned, until the next write
    plan,         \* the plan file
    errored,      \* errored.tfstate (or the dump on the terminal), per process
    uuids,        \* the number of lineages generated so far
    mutations,    \* the calls of MutateState so far, per process
    failures,     \* the requests that have failed so far
    history,      \* every snapshot ever stored (history variable)
    unseen        \* the processes that have not seen the latest snapshot
                  \* because another process stored it (history variable)

mgr   == <<lineage, serial, state, readLineage, readSerial, readState, readStale>>
ghost == <<history, unseen>>
vars  == <<remote, lock, mgr, pc, kind, work, imported, ret, plan, errored, uuids, mutations,
           failures, ghost>>

MaybeState == {NoState} \union States

TypeOK ==
    /\ remote \in Snapshot
    /\ lock \in {NoProc} \union Proc
    /\ lineage \in [Proc -> Nat] /\ serial \in [Proc -> Nat]
    /\ readLineage \in [Proc -> Nat] /\ readSerial \in [Proc -> Nat]
    /\ state \in [Proc -> MaybeState] /\ readState \in [Proc -> MaybeState]
    /\ readStale \in [Proc -> BOOLEAN]
    /\ pc \in [Proc -> {"start", "locked", "loaded", "apply", "applyPut", "final",
                        "finalPut", "backup", "unlock", "done"}]
    /\ kind \in [Proc -> {"none", "apply", "import"}]
    /\ work \in [Proc -> MaybeState]
    /\ imported \in [Proc -> Nat]
    /\ ret \in [Proc -> {"none", "ok", "error"}]
    /\ plan \subseteq File
    /\ errored \in [Proc -> SUBSET MaybeState]
    /\ uuids \in Nat /\ mutations \in [Proc -> 0..MaxMutations] /\ failures \in 0..MaxFailures
    /\ history \subseteq File
    /\ remote = Absent \/ remote.serial > 0
    /\ unseen \subseteq Proc

\* statefile.New: a nil state is written as an empty one.
Content(s) == IF s = NoState THEN {} ELSE s
FileOf(r)  == [lineage |-> r.lineage, serial |-> r.serial, state |-> r.state]

Init ==
    /\ remote \in Initial
    /\ lock = NoProc
    /\ lineage = [p \in Proc |-> 0] /\ serial = [p \in Proc |-> 0]
    /\ readLineage = [p \in Proc |-> 0] /\ readSerial = [p \in Proc |-> 0]
    /\ state = [p \in Proc |-> NoState] /\ readState = [p \in Proc |-> NoState]
    /\ readStale = [p \in Proc |-> FALSE]
    /\ pc = [p \in Proc |-> "start"]
    /\ kind = [p \in Proc |-> "none"]
    /\ work = [p \in Proc |-> NoState]
    /\ imported = [p \in Proc |-> 0]
    /\ ret = [p \in Proc |-> "none"]
    /\ plan = {}
    /\ errored = [p \in Proc |-> {}]
    /\ uuids = 1 /\ mutations = [p \in Proc |-> 0] /\ failures = 0
    /\ history = IF remote = Absent THEN {} ELSE {FileOf(remote)}
    /\ unseen = Proc

-----------------------------------------------------------------------------
(***************************************************************************)
(* The lock.  clistate.Locker retries until the lock timeout.              *)
(***************************************************************************)
Goto(p, label) == pc' = [pc EXCEPT ![p] = label]

Fails == failures < MaxFailures /\ failures' = failures + 1

\* Fault: the lock does not exclude anybody.
LockNotExclusive(p) ==
    /\ pc[p] = "start"
    /\ lock' = IF Locking THEN p ELSE lock
    /\ Goto(p, "locked")
    /\ UNCHANGED <<remote, mgr, kind, work, imported, ret, plan, errored, uuids, mutations,
                   failures, ghost>>

Lock(p) ==
    /\ pc[p] = "start"
    /\ Locking => lock = NoProc
    /\ lock' = IF Locking THEN p ELSE lock
    /\ Goto(p, "locked")
    /\ UNCHANGED <<remote, mgr, kind, work, imported, ret, plan, errored, uuids, mutations,
                   failures, ghost>>

LockTimeout(p) ==
    /\ pc[p] = "start" /\ Locking /\ lock # NoProc
    /\ Goto(p, "done")
    /\ UNCHANGED <<remote, lock, mgr, kind, work, imported, ret, plan, errored, uuids,
                   mutations, failures, ghost>>

\* The process ends, and its memory with it.
Exit(p) ==
    /\ Goto(p, "done")
    /\ lineage' = [lineage EXCEPT ![p] = 0] /\ serial' = [serial EXCEPT ![p] = 0]
    /\ readLineage' = [readLineage EXCEPT ![p] = 0]
    /\ readSerial' = [readSerial EXCEPT ![p] = 0]
    /\ state' = [state EXCEPT ![p] = NoState]
    /\ readState' = [readState EXCEPT ![p] = NoState]
    /\ readStale' = [readStale EXCEPT ![p] = FALSE]
    /\ kind' = [kind EXCEPT ![p] = "none"]
    /\ work' = [work EXCEPT ![p] = NoState]
    /\ imported' = [imported EXCEPT ![p] = 0]
    /\ ret' = [ret EXCEPT ![p] = "none"]
    /\ mutations' = [mutations EXCEPT ![p] = 0]
    /\ unseen' = unseen \union {p}
    /\ UNCHANGED <<remote, plan, errored, uuids, history>>

\* An Unlock that fails is reported and leaves the lock where it is.
Unlock(p) ==
    /\ pc[p] = "unlock"
    /\ \/ lock' = (IF lock = p THEN NoProc ELSE lock) /\ UNCHANGED failures
       \/ Locking /\ Fails /\ UNCHANGED lock
    /\ Exit(p)

\* The process is killed: its lock stays behind.
Crash(p) ==
    /\ pc[p] \notin {"start", "done"}
    /\ Exit(p)
    /\ UNCHANGED <<lock, failures>>

\* tofu force-unlock, by an operator who knows that the holder is gone.
ForceUnlock ==
    /\ lock # NoProc /\ pc[lock] = "done"
    /\ lock' = NoProc
    /\ UNCHANGED <<remote, mgr, pc, kind, work, imported, ret, plan, errored, uuids,
                   mutations, failures, ghost>>

-----------------------------------------------------------------------------
(***************************************************************************)
(* refreshState: with no remote object, state and the read* metadata stay. *)
(***************************************************************************)
Loaded(p) ==
    /\ unseen' = unseen \ {p}
    /\ IF remote = Absent
       THEN /\ readState' = [readState EXCEPT ![p] = NoState]
            /\ UNCHANGED <<state, readLineage, readSerial, readStale>>
       ELSE /\ state' = [state EXCEPT ![p] = remote.state]
            /\ readLineage' = [readLineage EXCEPT ![p] = remote.lineage]
            /\ readSerial' = [readSerial EXCEPT ![p] = remote.serial]
            /\ readStale' = [readStale EXCEPT ![p] = remote.stale]
            /\ readState' = [readState EXCEPT ![p] = remote.state]

Refreshed(p) ==
    /\ Loaded(p)
    /\ lineage' = [lineage EXCEPT ![p] = remote.lineage]
    /\ serial' = [serial EXCEPT ![p] = remote.serial]

RefreshState(p) ==
    /\ pc[p] = "locked"
    /\ \/ Refreshed(p) /\ Goto(p, "loaded") /\ UNCHANGED <<failures, history>>
       \/ Fails /\ Goto(p, "unlock") /\ UNCHANGED <<mgr, ghost>>
    /\ UNCHANGED <<remote, lock, kind, work, imported, ret, plan, errored, uuids,
                   mutations>>

-----------------------------------------------------------------------------
(***************************************************************************)
(* What a command does with the state it has loaded.                       *)
(***************************************************************************)
ApplyDirect(p) ==
    /\ pc[p] = "loaded"
    /\ Goto(p, "apply")
    /\ kind' = [kind EXCEPT ![p] = "apply"]
    /\ work' = [work EXCEPT ![p] = state[p]]
    /\ UNCHANGED <<remote, lock, mgr, imported, ret, plan, errored, uuids, mutations,
                   failures, ghost>>

\* tofu plan -out: PlannedStateUpdate records the snapshot's metadata.
SavePlan(p) ==
    /\ pc[p] = "loaded"
    /\ plan' = {[lineage |-> lineage[p], serial |-> serial[p], state |-> Content(state[p])]}
    /\ Goto(p, "unlock")
    /\ UNCHANGED <<remote, lock, mgr, kind, work, imported, ret, errored, uuids, mutations,
                   failures, ghost>>

\* localRunForPlanFile's check of the plan against the loaded snapshot.
\* Fault: only the lineage of a saved plan is checked.
PlanSameLineage(p, f) == f.lineage = 0 \/ f.lineage = lineage[p]

PlanIsCurrent(p, f) ==
    LET firstPlan == f.lineage = 0 /\ f.serial = 0
    IN  /\ firstPlan \/ f.lineage = lineage[p]
        /\ f.serial = serial[p]

ApplySavedPlan(p, f) ==
    /\ pc[p] = "loaded"
    /\ \/ /\ PlanIsCurrent(p, f)
          /\ Goto(p, "apply")
          /\ kind' = [kind EXCEPT ![p] = "apply"]
          /\ work' = [work EXCEPT ![p] = f.state]
       \/ /\ ~PlanIsCurrent(p, f)
          /\ Goto(p, "unlock")
          /\ UNCHANGED <<kind, work>>
    /\ UNCHANGED <<remote, lock, mgr, imported, ret, plan, errored, uuids, mutations,
                   failures, ghost>>

\* statemgr.CheckValidImport and SnapshotMeta.Compare.
CheckValidImport(p, f) ==
    \/ Content(state[p]) = {}
    \/ f.lineage = 0 \/ lineage[p] = 0
    \/ /\ f.lineage = lineage[p]
       /\ f.serial > serial[p] \/ (f.serial = serial[p] /\ f.state = state[p])

\* Fault: the file's lineage is not taken over.
ImportStateOnly(p, f, force) ==
    /\ pc[p] = "loaded" /\ (force \/ CheckValidImport(p, f))
    /\ state' = [state EXCEPT ![p] = f.state]
    /\ work' = [work EXCEPT ![p] = f.state]
    /\ imported' = [imported EXCEPT ![p] = f.lineage]
    /\ kind' = [kind EXCEPT ![p] = "import"]
    /\ Goto(p, "final")
    /\ UNCHANGED <<remote, lock, lineage, serial, readLineage, readSerial, readState,
                   readStale, ret, plan, errored, uuids, mutations, failures, ghost>>

\* WriteStateForMigration, by state push (with or without -force) or by a
\* backend migration (always forced).
Import(p, f, force) ==
    /\ pc[p] = "loaded"
    /\ \/ /\ force \/ CheckValidImport(p, f)
          /\ state' = [state EXCEPT ![p] = f.state]
          /\ lineage' = [lineage EXCEPT ![p] = f.lineage]
          /\ serial' = [serial EXCEPT ![p] = f.serial]
          /\ work' = [work EXCEPT ![p] = f.state]
          /\ imported' = [imported EXCEPT ![p] = f.lineage]
          /\ kind' = [kind EXCEPT ![p] = "import"]
          /\ Goto(p, "final")
       \/ /\ ~force /\ ~CheckValidImport(p, f)
          /\ Goto(p, "unlock")
          /\ UNCHANGED <<lineage, serial, state, work, imported, kind>>
    /\ UNCHANGED <<remote, lock, readLineage, readSerial, readState, readStale, ret, plan,
                   errored, uuids, mutations, failures, ghost>>

\* StateHook.PostStateUpdate: a node records the object it has created or
\* destroyed, in the walker's state and through MutateState in the manager's.
MutateState(p, o) ==
    LET toggled(s) == IF o \in Content(s) THEN Content(s) \ {o} ELSE Content(s) \union {o}
        recorded == toggled(work[p])
    IN  /\ pc[p] = "apply" /\ mutations[p] < MaxMutations
        /\ mutations' = [mutations EXCEPT ![p] = @ + 1]
        /\ work' = [work EXCEPT ![p] = recorded]
        /\ state' = [state EXCEPT ![p] = IF o \in recorded THEN Content(@) \union {o}
                                                           ELSE Content(@) \ {o}]
        /\ ret' = [ret EXCEPT ![p] = "none"]
        /\ UNCHANGED <<remote, lock, lineage, serial, readLineage, readSerial, readState,
                       readStale, pc, kind, imported, plan, errored, uuids, failures,
                       ghost>>

\* WriteAndPersist begins: the result of the apply becomes the transient state.
WriteState(p) ==
    /\ pc[p] = "apply"
    /\ state' = [state EXCEPT ![p] = Content(work[p])]
    /\ work' = [work EXCEPT ![p] = Content(@)]
    /\ ret' = [ret EXCEPT ![p] = "none"]
    /\ Goto(p, "final")
    /\ UNCHANGED <<remote, lock, lineage, serial, readLineage, readSerial, readState,
                   readStale, kind, imported, plan, errored, uuids, mutations, failures,
                   ghost>>

-----------------------------------------------------------------------------
(***************************************************************************)
(* PersistState, called by the hook, by opWait or at the end.              *)
(***************************************************************************)
\* Fault: only the metadata is compared.
UnchangedMeta(p) == lineage[p] = readLineage[p] /\ serial[p] = readSerial[p]

Unchanged(p) ==
    /\ readLineage[p] # 0 /\ lineage[p] = readLineage[p]
    /\ readSerial[p] # 0 /\ serial[p] = readSerial[p]
    /\ state[p] # NoState /\ state[p] = readState[p]
    /\ ~readStale[p]

\* Fault: a failed final write is only reported.
ReturnNoBackup(p, r) ==
    /\ ret' = [ret EXCEPT ![p] = r]
    /\ Goto(p, IF pc[p] \in {"apply", "applyPut"} THEN "apply" ELSE "unlock")

\* PersistState returns.  A failed intermediate write stops the node that made
\* it and nothing else; a failed final one makes opApply call
\* backupStateForError, and state push report the error.
Return(p, r) ==
    /\ ret' = [ret EXCEPT ![p] = r]
    /\ Goto(p, IF pc[p] \in {"apply", "applyPut"} THEN "apply"
               ELSE IF r = "error" /\ kind[p] = "apply" THEN "backup"
               ELSE "unlock")

ToPut(p) == Goto(p, IF pc[p] = "apply" THEN "applyPut" ELSE "finalPut")

PersistUnchanged(p) ==
    /\ pc[p] \in {"apply", "final"}
    /\ readState[p] # NoState /\ Unchanged(p)
    /\ Return(p, "ok")
    /\ UNCHANGED <<remote, lock, mgr, kind, work, imported, plan, errored, uuids, mutations,
                   failures, ghost>>

\* Fault: the serial of a write that failed is used again.
PersistReusesSerial(p) ==
    /\ pc[p] \in {"apply", "final"}
    /\ readState[p] # NoState /\ ~Unchanged(p)
    /\ serial[p] < MaxSerial
    /\ serial' = [serial EXCEPT ![p] = readSerial[p] + 1]
    /\ ToPut(p)
    /\ UNCHANGED <<remote, lock, lineage, state, readLineage, readSerial, readState,
                   readStale, kind, work, imported, ret, plan, errored, uuids, mutations,
                   failures, ghost>>

\* The serial grows before the write, whether or not the write succeeds.
PersistChanged(p) ==
    /\ pc[p] \in {"apply", "final"}
    /\ readState[p] # NoState /\ ~Unchanged(p)
    /\ serial[p] < MaxSerial
    /\ serial' = [serial EXCEPT ![p] = @ + 1]
    /\ ToPut(p)
    /\ UNCHANGED <<remote, lock, lineage, state, readLineage, readSerial, readState,
                   readStale, kind, work, imported, ret, plan, errored, uuids, mutations,
                   failures, ghost>>

\* Fault: it does not look again.
PersistFirstBlind(p) ==
    /\ pc[p] \in {"apply", "final"}
    /\ readState[p] = NoState
    /\ uuids' = uuids + 1
    /\ lineage' = [lineage EXCEPT ![p] = uuids + 1]
    /\ serial' = [serial EXCEPT ![p] = @ + 1]
    /\ ToPut(p)
    /\ UNCHANGED <<remote, lock, state, readLineage, readSerial, readState, readStale, kind,
                   work, imported, ret, plan, errored, mutations, failures, ghost>>

\* Fault: the first snapshot does not get a serial.
PersistFirstUncounted(p) ==
    /\ pc[p] \in {"apply", "final"}
    /\ readState[p] = NoState
    /\ Loaded(p)
    /\ uuids' = uuids + 1
    /\ lineage' = [lineage EXCEPT ![p] = uuids + 1]
    /\ serial' = [serial EXCEPT ![p] = remote.serial]
    /\ ToPut(p)
    /\ UNCHANGED <<remote, lock, kind, work, imported, ret, plan, errored, mutations,
                   failures, history>>

\* No snapshot was there when the manager last looked: it looks again, and
\* generates a lineage if there still is none.
PersistFirst(p) ==
    /\ pc[p] \in {"apply", "final"}
    /\ readState[p] = NoState
    /\ \/ /\ Loaded(p)
          /\ IF remote.lineage = 0
             THEN /\ uuids' = uuids + 1
                  /\ lineage' = [lineage EXCEPT ![p] = uuids + 1]
                  /\ serial' = [serial EXCEPT ![p] = remote.serial + 1]
             ELSE /\ lineage' = [lineage EXCEPT ![p] = remote.lineage]
                  /\ serial' = [serial EXCEPT ![p] = remote.serial]
                  /\ UNCHANGED uuids
          /\ ToPut(p)
          /\ UNCHANGED <<ret, failures, history>>
       \/ /\ Fails
          /\ Return(p, "error")
          /\ UNCHANGED <<mgr, uuids, ghost>>
    /\ UNCHANGED <<remote, lock, kind, work, imported, plan, errored, mutations>>

\* What Client.Put sends.
Sent(p) == [lineage |-> lineage[p], serial |-> serial[p], state |-> Content(state[p]),
            stale |-> FALSE]

Stores(p) ==
    /\ remote' = Sent(p)
    /\ history' = history \union {FileOf(Sent(p))}
    /\ unseen' = unseen \union (Proc \ {p})

\* Client.Put succeeds; fails; or stores the snapshot and its answer is lost.
Put(p) ==
    /\ pc[p] \in {"applyPut", "finalPut"}
    /\ \/ /\ Stores(p)
          /\ readState' = [readState EXCEPT ![p] = state[p]]
          /\ readLineage' = [readLineage EXCEPT ![p] = lineage[p]]
          /\ readSerial' = [readSerial EXCEPT ![p] = serial[p]]
          /\ readStale' = [readStale EXCEPT ![p] = FALSE]
          /\ Return(p, "ok")
          /\ UNCHANGED failures
       \/ /\ Fails
          /\ Stores(p) \/ UNCHANGED <<remote, ghost>>
          /\ Return(p, "error")
          /\ UNCHANGED <<readState, readLineage, readSerial, readStale>>
    /\ UNCHANGED <<lock, lineage, serial, state, kind, work, imported, plan, errored, uuids,
                   mutations>>

\* backupStateForError: errored.tfstate, or the terminal if that fails too.
BackupStateForError(p) ==
    /\ pc[p] = "backup"
    /\ errored' = [errored EXCEPT ![p] = {work[p]}]
    /\ Goto(p, "unlock")
    /\ UNCHANGED <<remote, lock, mgr, kind, work, imported, ret, plan, uuids, mutations,
                   failures, ghost>>

-----------------------------------------------------------------------------
Next ==
    \/ \E p \in Proc :
          \/ Lock(p) \/ LockTimeout(p) \/ RefreshState(p)
          \/ ApplyDirect(p) \/ SavePlan(p)
          \/ \E f \in plan : ApplySavedPlan(p, f)
          \/ \E f \in Foreign \union history, force \in Forces : Import(p, f, force)
          \/ \E o \in Obj : MutateState(p, o)
          \/ WriteState(p)
          \/ PersistUnchanged(p) \/ PersistChanged(p) \/ PersistFirst(p) \/ Put(p)
          \/ BackupStateForError(p) \/ Unlock(p) \/ Crash(p)
    \/ ForceUnlock

Spec == Init /\ [][Next]_vars

-----------------------------------------------------------------------------
(***************************************************************************)
(* Properties.                                                             *)
(***************************************************************************)
\* A lineage and a serial name one snapshot: two snapshots that were ever
\* stored with the same lineage and serial track the same objects, whatever
\* writes failed or were repeated (SnapshotMeta.Compare and the check of a
\* saved plan rely on it).
SerialNamesSnapshot ==
    \A f, g \in history : f.lineage = g.lineage /\ f.serial = g.serial => f = g

\* The remote object moves forward only: a new snapshot keeps the lineage of
\* the one it replaces and has a higher serial.
LineGrows ==
    [][remote # Absent /\ FileOf(remote') # FileOf(remote)
          => remote'.lineage = remote.lineage /\ remote'.serial > remote.serial]_vars

\* Nobody replaces a snapshot that another process has stored since it last
\* read the object (the contract of statemgr.Persister).
NoUpdateDestroyed ==
    [][\A p \in Proc : pc[p] \in {"applyPut", "finalPut"} /\ history' # history /\
                       pc'[p] # pc[p] => p \notin unseen]_vars

\* While a process holds the lock and PersistState has returned success, the
\* remote object holds all that was written to the manager; at the end of the
\* command that is the walker's result, or the imported file.  (Before the end
\* it need not be the walker's state: the check of a saved plan is fooled by an
\* import that uses a lineage and a serial again.)
PersistedIsLatest ==
    \A p \in Proc : lock = p /\ ret[p] = "ok" /\ pc[p] \notin {"applyPut", "finalPut"}
        => /\ remote # Absent /\ remote.state = Content(state[p])
           /\ pc[p] # "apply" => remote.state = Content(work[p])

\* An apply that has come to its end has recorded its result, in the remote
\* object or in errored.tfstate.
ResultIsRecorded ==
    \A p \in Proc : lock = p /\ pc[p] = "unlock" /\ kind[p] = "apply"
        => \/ remote # Absent /\ remote.state = Content(work[p])
           \/ errored[p] = {work[p]}

\* A saved plan is applied to the very state it was made from.
PlanMatchesState ==
    [][\A p \in Proc, f \in plan : ApplySavedPlan(p, f) /\ pc'[p] = "apply"
                                     => f.state = Content(state[p])]_vars

\* An import that reports success has left the file's lineage in the remote
\* object (the contract of statemgr.Migrate and statemgr.Import).
ImportKeepsLineage ==
    \A p \in Proc : lock = p /\ pc[p] = "unlock" /\ kind[p] = "import" /\ ret[p] = "ok"
        => remote # Absent /\ remote.lineage = imported[p]

\* With the lock, the remote object is a state store: only the process that has locked it
\* changes it, also after failed and lost requests, crashes and force-unlocks.
Store == INSTANCE StateStore WITH
    Client <- Proc, Nobody <- NoProc, Gone <- Absent, holder <- lock, content <- remote

ImplementsStore == Store!Spec
=============================================================================
