------------------------- MODULE RemoteStateProofs -------------------------
(***************************************************************************)
(* Proofs about RemoteState, for any processes, objects and bounds.        *)
(***************************************************************************)
EXTENDS RemoteState, TLAPS

\* A process that is about to store a snapshot has counted it.
PutSerial == \A p \in Proc : pc[p] \in {"applyPut", "finalPut"} => serial[p] > 0

TypeInv == TypeOK /\ PutSerial

\* A nil state counts as the empty one.
LEMMA ContentType == \A s \in MaybeState : Content(s) \in States
BY DEF Content, MaybeState, States

\* A stored snapshot can be read back as a file.
LEMMA FileOfType == \A r \in Snapshot : FileOf(r) \in File
BY DEF FileOf, Snapshot, File

\* The initial state is well typed.
LEMMA TypeInitial == Init => TypeInv
<1> SUFFICES ASSUME Init PROVE TypeInv
  OBVIOUS
<1> USE RemoteStateAssumption
<1>1. remote \in Snapshot /\ (remote = Absent \/ remote.serial > 0)
  BY DEF Init, Snapshot
<1>2. history \subseteq File
  BY <1>1, FileOfType DEF Init
<1> QED
  BY <1>1, <1>2 DEF Init, TypeInv, TypeOK, PutSerial, MaybeState, File

\* Every method and every step of a command keeps the types.
LEMMA TypePreserved == TypeInv /\ [Next]_vars => TypeInv'
<1> SUFFICES ASSUME TypeInv, [Next]_vars PROVE TypeInv'
  OBVIOUS
<1> USE RemoteStateAssumption
<1> USE DEF TypeInv, TypeOK, PutSerial, mgr, ghost, Goto
<1>1. ASSUME NEW p \in Proc, Lock(p) PROVE TypeInv'
  BY <1>1 DEF Lock
<1>2. ASSUME NEW p \in Proc, LockTimeout(p) PROVE TypeInv'
  BY <1>2 DEF LockTimeout
<1>3. ASSUME NEW p \in Proc, RefreshState(p) PROVE TypeInv'
  <2>1. CASE Refreshed(p) /\ Goto(p, "loaded") /\ UNCHANGED <<failures, history>>
    BY <1>3, <2>1 DEF RefreshState, Refreshed, Loaded, Snapshot, MaybeState
  <2>2. CASE Fails /\ Goto(p, "unlock") /\ UNCHANGED <<mgr, ghost>>
    BY <1>3, <2>2 DEF RefreshState, Fails
  <2> QED
    BY <1>3, <2>1, <2>2 DEF RefreshState
<1>4. ASSUME NEW p \in Proc, ApplyDirect(p) PROVE TypeInv'
  BY <1>4 DEF ApplyDirect
<1>5. ASSUME NEW p \in Proc, SavePlan(p) PROVE TypeInv'
  <2>1. plan' \subseteq File
    BY <1>5, ContentType DEF SavePlan, File
  <2> QED
    BY <1>5, <2>1 DEF SavePlan
<1>6. ASSUME NEW p \in Proc, NEW f \in plan, ApplySavedPlan(p, f) PROVE TypeInv'
  <2>1. f.state \in MaybeState
    BY DEF File, MaybeState
  <2> QED
    BY <1>6, <2>1 DEF ApplySavedPlan
<1>7. ASSUME NEW p \in Proc, NEW f \in Foreign \union history, NEW force \in Forces,
             Import(p, f, force)
      PROVE  TypeInv'
  <2>1. f.state \in MaybeState /\ f.lineage \in Nat /\ f.serial \in Nat
    BY DEF File, MaybeState
  <2> QED
    BY <1>7, <2>1 DEF Import
<1>8. ASSUME NEW p \in Proc, NEW o \in Obj, MutateState(p, o) PROVE TypeInv'
  <2>1. Content(work[p]) \in States /\ Content(state[p]) \in States
    BY ContentType
  <2> QED
    BY <1>8, <2>1 DEF MutateState, States, MaybeState
<1>9. ASSUME NEW p \in Proc, WriteState(p) PROVE TypeInv'
  <2>1. Content(work[p]) \in MaybeState
    BY ContentType DEF MaybeState
  <2> QED
    BY <1>9, <2>1 DEF WriteState
<1>10. ASSUME NEW p \in Proc, PersistUnchanged(p) PROVE TypeInv'
  BY <1>10 DEF PersistUnchanged, Return
<1>11. ASSUME NEW p \in Proc, PersistChanged(p) PROVE TypeInv'
  BY <1>11 DEF PersistChanged, ToPut
<1>12. ASSUME NEW p \in Proc, PersistFirst(p) PROVE TypeInv'
  <2>1. CASE ToPut(p)
    <3>1. remote.lineage # 0 => remote.serial > 0
      BY DEF Absent
    <3> QED
      BY <1>12, <2>1, <3>1 DEF PersistFirst, Loaded, ToPut, Return, Fails, Snapshot, MaybeState
  <2>2. CASE Return(p, "error") /\ Fails /\ UNCHANGED <<mgr, uuids, ghost>>
    BY <1>12, <2>2 DEF PersistFirst, Return, Fails
  <2> QED
    BY <1>12, <2>1, <2>2 DEF PersistFirst
<1>13. ASSUME NEW p \in Proc, Put(p) PROVE TypeInv'
  <2>1. Sent(p) \in Snapshot /\ Sent(p).serial > 0
    BY <1>13, ContentType DEF Put, Sent, Snapshot
  <2>2. FileOf(Sent(p)) \in File
    BY <2>1, FileOfType
  <2>3. /\ remote' \in Snapshot /\ (remote' = Absent \/ remote'.serial > 0)
        /\ history' \subseteq File /\ unseen' \subseteq Proc
    <3>1. CASE Stores(p)
      BY <2>1, <2>2, <3>1 DEF Stores
    <3>2. CASE UNCHANGED <<remote, ghost>>
      BY <3>2
    <3> QED
      BY <1>13, <3>1, <3>2 DEF Put
  <2>4. /\ pc' \in [Proc -> {"start", "locked", "loaded", "apply", "applyPut", "final",
                             "finalPut", "backup", "unlock", "done"}]
        /\ ret' \in [Proc -> {"none", "ok", "error"}]
        /\ \A q \in Proc : pc'[q] \in {"applyPut", "finalPut"} => pc[q] = pc'[q]
    BY <1>13 DEF Put, Return
  <2>5. failures' \in 0..MaxFailures
    BY <1>13 DEF Put, Fails
  <2>6. /\ readLineage' \in [Proc -> Nat] /\ readSerial' \in [Proc -> Nat]
        /\ readState' \in [Proc -> MaybeState] /\ readStale' \in [Proc -> BOOLEAN]
    <3>1. CASE UNCHANGED <<readState, readLineage, readSerial, readStale>>
      BY <3>1
    <3>2. CASE /\ readState' = [readState EXCEPT ![p] = state[p]]
               /\ readLineage' = [readLineage EXCEPT ![p] = lineage[p]]
               /\ readSerial' = [readSerial EXCEPT ![p] = serial[p]]
               /\ readStale' = [readStale EXCEPT ![p] = FALSE]
      BY <3>2
    <3> QED
      BY <1>13, <3>1, <3>2 DEF Put
  <2>7. UNCHANGED <<lock, lineage, serial, state, kind, work, imported, plan, errored, uuids,
                    mutations>>
    BY <1>13 DEF Put
  <2> QED
    BY <2>3, <2>4, <2>5, <2>6, <2>7
<1>14. ASSUME NEW p \in Proc, BackupStateForError(p) PROVE TypeInv'
  BY <1>14 DEF BackupStateForError
<1>15. ASSUME NEW p \in Proc, Exit(p), lock' \in {NoProc} \union Proc,
              failures' \in 0..MaxFailures
       PROVE  TypeInv'
  BY <1>15 DEF Exit, MaybeState
<1>16. ASSUME NEW p \in Proc, Unlock(p) PROVE TypeInv'
  BY <1>15, <1>16 DEF Unlock, Fails
<1>17. ASSUME NEW p \in Proc, Crash(p) PROVE TypeInv'
  BY <1>15, <1>17 DEF Crash
<1>18. CASE ForceUnlock
  BY <1>18 DEF ForceUnlock
<1>19. CASE UNCHANGED vars
  BY <1>19 DEF vars
<1> QED
  BY <1>1, <1>2, <1>3, <1>4, <1>5, <1>6, <1>7, <1>8, <1>9, <1>10, <1>11, <1>12, <1>13,
     <1>14, <1>16, <1>17, <1>18, <1>19 DEF Next
-----------------------------------------------------------------------------
(***************************************************************************)
(* With the lock, and without imports, the snapshots form one line.        *)
(***************************************************************************)
Critical == {"locked", "loaded", "apply", "applyPut", "final", "finalPut", "backup", "unlock"}
Holding  == {"loaded", "apply", "applyPut", "final", "finalPut"}
Putting  == {"applyPut", "finalPut"}

\* Who works with the state holds the lock ...
Exclusion == \A p \in Proc : pc[p] \in Critical => lock = p

\* ... and has seen the latest snapshot.
Sight == \A p \in Proc : pc[p] \in Holding => p \notin unseen

\* The remote object holds the last snapshot of the line.
Line ==
    /\ remote # Absent => remote.lineage # 0 /\ FileOf(remote) \in history
    /\ \A f \in history : f.lineage = remote.lineage /\ f.serial > 0 /\ f.serial <= remote.serial

\* A manager that has read a snapshot is on its line, and its serial is not
\* behind the remote one, also if the answer to its last write was lost.
Meta == \A p \in Proc : pc[p] \in Holding /\ readState[p] # NoState =>
            remote # Absent /\ lineage[p] = remote.lineage /\ remote.serial <= serial[p]

\* A snapshot about to be stored continues the line, repeats its last element,
\* or begins it.
PutContinues == \A p \in Proc : pc[p] \in Putting =>
    \/ remote # Absent /\ lineage[p] = remote.lineage /\ remote.serial < serial[p]
    \/ /\ lineage[p] = remote.lineage /\ serial[p] = remote.serial
       /\ Content(state[p]) = remote.state
    \/ remote = Absent /\ lineage[p] # 0

\* What is loaded is what is stored, and saved plans are of the line.
Fresh == \A p \in Proc : pc[p] \in {"start", "locked"} => state[p] = NoState
Loads == \A p \in Proc : pc[p] = "loaded" =>
            /\ lineage[p] = remote.lineage /\ serial[p] = remote.serial
            /\ Content(state[p]) = remote.state
Plans == \A f \in plan : f \in history \/ (f.lineage = 0 /\ f.serial = 0 /\ f.state = {})

LineInv == /\ TypeInv /\ Exclusion /\ Sight /\ Line /\ SerialNamesSnapshot /\ Meta
           /\ PutContinues /\ Fresh /\ Loads /\ Plans

\* The line begins with the snapshot found, if there is one.
LEMMA LineInitial == Init => LineInv
<1> SUFFICES ASSUME Init PROVE LineInv
  OBVIOUS
<1> USE RemoteStateAssumption
<1>1. TypeInv
  BY TypeInitial
<1>2. Line /\ SerialNamesSnapshot
  <2>1. CASE remote = Absent
    BY <2>1 DEF Init, Line, SerialNamesSnapshot
  <2>2. CASE remote # Absent
    <3>1. remote.lineage = 1 /\ remote.serial > 0 /\ remote.serial \in Nat
      BY <2>2 DEF Init, Snapshot
    <3>2. history = {FileOf(remote)}
      BY <2>2 DEF Init
    <3> QED
      BY <3>1, <3>2 DEF Line, SerialNamesSnapshot, FileOf
  <2> QED
    BY <2>1, <2>2
<1> QED
  BY <1>1, <1>2 DEF Init, LineInv, Exclusion, Sight, Meta, PutContinues, Fresh, Loads, Plans,
     Critical, Holding, Putting

\* Every step of every process continues the line.
LEMMA LinePreserved == ASSUME Locking, Forces = {}, LineInv, [Next]_vars PROVE LineInv'
<1> USE RemoteStateAssumption
<1>t. TypeInv /\ TypeInv'
  BY TypePreserved DEF LineInv
<1> USE <1>t DEF TypeInv, TypeOK, mgr, ghost, Goto, Critical, Holding, Putting
<1> USE DEF LineInv, Exclusion, Sight, Line, SerialNamesSnapshot, Meta, PutContinues, Fresh,
        Loads, Plans
<1>1. ASSUME NEW p \in Proc, Lock(p) PROVE LineInv'
  BY <1>1 DEF Lock
<1>2. ASSUME NEW p \in Proc, LockTimeout(p) PROVE LineInv'
  BY <1>2 DEF LockTimeout
<1>0. ASSUME NEW p \in Proc, NEW q \in Proc, pc[p] \in Critical, pc[q] \in Critical PROVE p = q
  BY <1>0
<1>3. ASSUME NEW p \in Proc, RefreshState(p) PROVE LineInv'
  <2>1. pc[p] = "locked" /\ UNCHANGED <<remote, lock, plan>>
    BY <1>3 DEF RefreshState
  <2>2. CASE Refreshed(p) /\ Goto(p, "loaded") /\ UNCHANGED <<failures, history>>
    <3>1. lineage'[p] = remote.lineage /\ serial'[p] = remote.serial
      BY <2>2 DEF Refreshed
    <3>2. Content(state'[p]) = remote.state
      <4>1. CASE remote = Absent
        BY <2>1, <2>2, <4>1 DEF Refreshed, Loaded, Content, Absent
      <4>2. CASE remote # Absent
        BY <2>2, <4>2 DEF Refreshed, Loaded, Content, Snapshot
      <4> QED
        BY <4>1, <4>2
    <3>3. Loads'
      BY <1>0, <2>1, <2>2, <3>1, <3>2 DEF Refreshed
    <3>4. Meta'
      BY <1>0, <2>1, <2>2, <3>1 DEF Refreshed, Loaded, Snapshot
    <3>5. Fresh' /\ PutContinues' /\ Sight' /\ Exclusion'
      BY <1>0, <2>1, <2>2 DEF Refreshed, Loaded
    <3> QED
      BY <2>1, <2>2, <3>3, <3>4, <3>5
  <2>3. CASE Fails /\ Goto(p, "unlock") /\ UNCHANGED <<mgr, ghost>>
    BY <2>1, <2>3
  <2> QED
    BY <1>3, <2>2, <2>3 DEF RefreshState
<1>4. ASSUME NEW p \in Proc, ApplyDirect(p) PROVE LineInv'
  BY <1>4 DEF ApplyDirect
<1>5. ASSUME NEW p \in Proc, SavePlan(p) PROVE LineInv'
  <2>1. Plans'
    <3>1. plan' = {FileOf(remote)}
      BY <1>5 DEF SavePlan, FileOf
    <3>2. CASE remote = Absent
      BY <1>5, <3>1, <3>2 DEF SavePlan, FileOf, Absent
    <3>3. CASE remote # Absent
      BY <1>5, <3>1, <3>3 DEF SavePlan
    <3> QED
      BY <3>2, <3>3
  <2> QED
    BY <1>5, <2>1 DEF SavePlan
<1>6. ASSUME NEW p \in Proc, NEW f \in plan, ApplySavedPlan(p, f) PROVE LineInv'
  BY <1>6 DEF ApplySavedPlan
<1>7. ASSUME NEW p \in Proc, NEW o \in Obj, MutateState(p, o) PROVE LineInv'
  BY <1>7 DEF MutateState
<1>8. ASSUME NEW p \in Proc, WriteState(p) PROVE LineInv'
  BY <1>8 DEF WriteState
<1>9. ASSUME NEW p \in Proc, PersistUnchanged(p) PROVE LineInv'
  BY <1>9 DEF PersistUnchanged, Return
<1>10. ASSUME NEW p \in Proc, PersistChanged(p) PROVE LineInv'
  <2>1. remote # Absent /\ lineage[p] = remote.lineage /\ remote.serial <= serial[p]
    BY <1>10 DEF PersistChanged
  <2>2. serial'[p] = serial[p] + 1 /\ remote.serial \in Nat
    BY <1>10 DEF PersistChanged, Snapshot
  <2>3. PutContinues'
    BY <1>0, <1>10, <2>1, <2>2 DEF PersistChanged, ToPut
  <2>4. Meta' /\ Loads'
    BY <1>0, <1>10, <2>1, <2>2 DEF PersistChanged, ToPut
  <2> QED
    BY <1>10, <2>3, <2>4 DEF PersistChanged, ToPut
<1>11. ASSUME NEW p \in Proc, PersistFirst(p) PROVE LineInv'
  <2>1. pc[p] \in {"apply", "final"} /\ readState[p] = NoState /\ UNCHANGED <<remote, lock, plan>>
    BY <1>11 DEF PersistFirst
  <2>2. CASE Loaded(p) /\ ToPut(p) /\ UNCHANGED history
    <3>1. pc' = [pc EXCEPT ![p] = pc'[p]] /\ pc'[p] \in Putting
      BY <2>1, <2>2 DEF ToPut
    <3>2. \A q \in Proc : q # p => pc'[q] \notin Critical
      BY <1>0, <2>1, <3>1
    <3>3. CASE remote = Absent
      <4>1. lineage'[p] # 0 /\ readState'[p] = NoState
        BY <1>11, <2>1, <2>2, <3>1, <3>3 DEF PersistFirst, Loaded, Absent, Return
      <4> QED
        BY <2>1, <2>2, <3>1, <3>2, <3>3, <4>1 DEF Loaded
    <3>4. CASE remote # Absent
      <4>1. /\ lineage'[p] = remote.lineage /\ serial'[p] = remote.serial
            /\ state'[p] = remote.state
        BY <1>11, <2>1, <2>2, <3>1, <3>4 DEF PersistFirst, Loaded, Return
      <4>2. Content(remote.state) = remote.state /\ remote.serial \in Nat
        BY DEF Content, Snapshot
      <4> QED
        BY <2>1, <2>2, <3>1, <3>2, <3>4, <4>1, <4>2 DEF Loaded
    <3> QED
      BY <3>3, <3>4
  <2>3. CASE Return(p, "error") /\ UNCHANGED <<mgr, ghost>>
    BY <2>1, <2>3 DEF Return
  <2> QED
    BY <1>11, <2>2, <2>3 DEF PersistFirst
<1>12. ASSUME NEW p \in Proc, Put(p) PROVE LineInv'
  <2>1. /\ pc[p] \in Putting /\ UNCHANGED <<lock, lineage, serial, state, plan>>
        /\ pc' = [pc EXCEPT ![p] = pc'[p]] /\ pc'[p] \in {"apply", "backup", "unlock"}
    BY <1>12 DEF Put, Return
  <2>2. \A q \in Proc : q # p => pc'[q] \notin Critical
    BY <1>0, <2>1
  <2>3. CASE UNCHANGED <<remote, ghost>> /\ UNCHANGED <<readState, readLineage, readSerial, readStale>>
    BY <2>1, <2>2, <2>3
  <2>4. CASE Stores(p)
    <3> DEFINE g == FileOf(Sent(p))
    <3>1. /\ g.lineage = lineage[p] /\ g.serial = serial[p] /\ g.state = Content(state[p])
          /\ g \in File /\ g = FileOf(remote') /\ history' = history \union {g}
          /\ remote'.lineage = g.lineage /\ remote'.serial = g.serial
          /\ serial[p] \in Nat /\ serial[p] > 0 /\ remote' # Absent
      BY <1>t, <2>1, <2>4, ContentType DEF Stores, Sent, FileOf, File, PutSerial, Absent
    <3>2. /\ FileOf(remote).lineage = remote.lineage /\ FileOf(remote).serial = remote.serial
          /\ FileOf(remote).state = remote.state /\ remote.serial \in Nat
      BY DEF FileOf, Snapshot
    <3> HIDE DEF g
    <3>3. \A f \in history : f.serial \in Nat
      BY DEF File
    <3>4. Line' /\ SerialNamesSnapshot' /\ Plans'
      <4>1. CASE remote # Absent /\ lineage[p] = remote.lineage /\ remote.serial < serial[p]
        BY <2>1, <3>1, <3>2, <3>3, <4>1
      <4>2. CASE /\ lineage[p] = remote.lineage /\ serial[p] = remote.serial
                 /\ Content(state[p]) = remote.state
        <5>1. g = FileOf(remote) /\ remote # Absent
          BY <3>1, <3>2, <4>2 DEF FileOf, File, Absent
        <5> QED
          BY <2>1, <3>1, <3>2, <5>1
      <4>3. CASE remote = Absent /\ lineage[p] # 0
        <5>1. history = {}
          BY <3>3, <4>3 DEF Absent
        <5> QED
          BY <2>1, <3>1, <4>3, <5>1
      <4> QED
        BY <2>1, <4>1, <4>2, <4>3
    <3>5. Exclusion' /\ Sight' /\ Meta' /\ PutContinues' /\ Fresh' /\ Loads'
      BY <2>1, <2>2, <2>4, <3>1 DEF Stores
    <3> QED
      BY <3>4, <3>5
  <2> QED
    BY <1>12, <2>3, <2>4 DEF Put
<1>13. ASSUME NEW p \in Proc, BackupStateForError(p) PROVE LineInv'
  BY <1>13 DEF BackupStateForError
<1>14. ASSUME NEW p \in Proc, Unlock(p) PROVE LineInv'
  BY <1>14 DEF Unlock, Exit, Fails
<1>15. ASSUME NEW p \in Proc, Crash(p) PROVE LineInv'
  BY <1>15 DEF Crash, Exit
<1>16. CASE ForceUnlock
  BY <1>16 DEF ForceUnlock
<1>17. CASE UNCHANGED vars
  BY <1>17 DEF vars
<1> QED
  BY <1>1, <1>2, <1>3, <1>4, <1>5, <1>6, <1>7, <1>8, <1>9, <1>10, <1>11, <1>12, <1>13, <1>14, <1>15, <1>16, <1>17 DEF Next
-----------------------------------------------------------------------------
\* The manager's fields, the remote object and the files keep their types, and
\* a stored snapshot has a positive serial.
THEOREM TypeCorrect == Spec => []TypeOK
<1>1. TypeInv => TypeOK
  BY DEF TypeInv
<1> QED
  BY <1>1, TypeInitial, TypePreserved, PTL DEF Spec

\* What the theorems below rest on: an invariant of every execution with locks
\* and without imports.
LEMMA LineInvariant == ASSUME Locking, Forces = {} PROVE Spec => []LineInv
<1>1. LineInv /\ [Next]_vars => LineInv'
  BY LinePreserved
<1> QED
  BY <1>1, LineInitial, PTL DEF Spec

\* PersistState never stores two states under the same lineage and serial.
THEOREM SerialsNameSnapshots ==
    ASSUME Locking, Forces = {} PROVE Spec => []SerialNamesSnapshot
<1>1. LineInv => SerialNamesSnapshot
  BY DEF LineInv
<1> QED
  BY <1>1, LineInvariant, PTL

\* A write keeps the lineage of the remote object and raises its serial.
THEOREM RemoteMovesForward == ASSUME Locking, Forces = {} PROVE Spec => LineGrows
<1> DEFINE Grows == remote # Absent /\ FileOf(remote') # FileOf(remote)
                      => remote'.lineage = remote.lineage /\ remote'.serial > remote.serial
<1>1. ASSUME LineInv, [Next]_vars PROVE [Grows]_vars
  <2>1. CASE \E p \in Proc : Put(p)
    <3>1. PICK p \in Proc : Put(p)
      BY <2>1
    <3>2. CASE UNCHANGED remote
      BY <3>2
    <3>3. CASE Stores(p)
      <4>1. /\ remote'.lineage = lineage[p] /\ remote'.serial = serial[p]
            /\ FileOf(remote') = [lineage |-> lineage[p], serial |-> serial[p],
                                  state |-> Content(state[p])]
        BY <3>3 DEF Stores, Sent, FileOf
      <4>2. remote.serial \in Nat /\ serial[p] \in Nat
        BY <1>1 DEF LineInv, TypeInv, TypeOK, Snapshot
      <4>3. \/ remote # Absent /\ lineage[p] = remote.lineage /\ remote.serial < serial[p]
            \/ /\ lineage[p] = remote.lineage /\ serial[p] = remote.serial
               /\ Content(state[p]) = remote.state
            \/ remote = Absent
        BY <1>1, <3>1 DEF LineInv, PutContinues, Putting, Put
      <4> QED
        BY <4>1, <4>2, <4>3 DEF FileOf
    <3> QED
      BY <3>1, <3>2, <3>3 DEF Put
  <2>2. CASE UNCHANGED remote
    BY <2>2
  <2>3. (\E p \in Proc : Put(p)) \/ UNCHANGED remote
    BY <1>1 DEF Next, vars, Lock, LockTimeout, RefreshState, ApplyDirect, SavePlan,
       ApplySavedPlan, Import, MutateState, WriteState, PersistUnchanged, PersistChanged,
       PersistFirst, BackupStateForError, Unlock, Crash, Exit, ForceUnlock
  <2> QED
    BY <2>1, <2>2, <2>3
<1> QED
  BY <1>1, LineInvariant, PTL DEF Spec, LineGrows

\* localRunForPlanFile's check of lineage and serial is enough on one line.
LEMMA AcceptedPlan ==
    ASSUME LineInv, NEW p \in Proc, NEW f \in plan, ApplySavedPlan(p, f), pc'[p] = "apply"
    PROVE  f.state = Content(state[p])
<1>1. pc[p] = "loaded" /\ PlanIsCurrent(p, f)
  BY DEF ApplySavedPlan, Goto, LineInv, TypeInv, TypeOK
<1>2. /\ lineage[p] = remote.lineage /\ serial[p] = remote.serial
      /\ Content(state[p]) = remote.state
  BY <1>1 DEF LineInv, Loads
<1>3. CASE f \in history
  <2>1. f.lineage = remote.lineage /\ f.serial = remote.serial /\ f.serial > 0
    BY <1>1, <1>2, <1>3 DEF LineInv, Line, PlanIsCurrent
  <2>2. FileOf(remote) \in history /\ FileOf(remote).state = remote.state
    BY <2>1 DEF LineInv, Line, FileOf, Absent
  <2>3. FileOf(remote).lineage = remote.lineage /\ FileOf(remote).serial = remote.serial
    BY DEF FileOf
  <2>4. f = FileOf(remote)
    BY <1>3, <2>1, <2>2, <2>3 DEF LineInv, SerialNamesSnapshot
  <2> QED
    BY <1>2, <2>2, <2>4
<1>4. CASE f.lineage = 0 /\ f.serial = 0 /\ f.state = {}
  <2>1. remote = Absent
    BY <1>1, <1>2, <1>4 DEF LineInv, TypeInv, TypeOK, PlanIsCurrent
  <2> QED
    BY <1>2, <1>4, <2>1 DEF Absent
<1> QED
  BY <1>3, <1>4 DEF LineInv, Plans

\* Without imports, an accepted plan was made from the state it is applied to.
THEOREM PlansAreCurrent == ASSUME Locking, Forces = {} PROVE Spec => PlanMatchesState
<1> DEFINE Matches == \A p \in Proc, f \in plan :
                ApplySavedPlan(p, f) /\ pc'[p] = "apply" => f.state = Content(state[p])
<1>1. LineInv => [Matches]_vars
  BY AcceptedPlan
<1> QED
  BY <1>1, LineInvariant, PTL DEF PlanMatchesState

-----------------------------------------------------------------------------
\* Every step that moves a process into the part between Lock and Unlock takes the lock,
\* every step that frees the lock finds its holder outside.
LEMMA ExclusionPreserved ==
    ASSUME Locking, TypeInv, Exclusion, [Next]_vars PROVE Exclusion'
<1> USE RemoteStateAssumption
<1> USE DEF TypeInv, TypeOK, Exclusion, Critical, Goto
<1>1. ASSUME NEW p \in Proc, Lock(p) PROVE Exclusion'
  BY <1>1 DEF Lock
<1>2. ASSUME NEW p \in Proc, Unlock(p) \/ Crash(p) \/ LockTimeout(p) PROVE Exclusion'
  BY <1>2 DEF Unlock, Crash, LockTimeout, Exit
<1>3. CASE ForceUnlock
  BY <1>3 DEF ForceUnlock
<1>4. ASSUME UNCHANGED lock,
             \A q \in Proc : pc'[q] # pc[q] => pc[q] \in Critical
      PROVE  Exclusion'
  BY <1>4
<1>5. ASSUME NEW p \in Proc,
             \/ RefreshState(p) \/ ApplyDirect(p) \/ SavePlan(p)
             \/ \E f \in plan : ApplySavedPlan(p, f)
             \/ \E f \in Foreign \union history, force \in Forces : Import(p, f, force)
             \/ \E o \in Obj : MutateState(p, o)
             \/ WriteState(p) \/ PersistUnchanged(p) \/ PersistChanged(p)
             \/ BackupStateForError(p)
      PROVE  Exclusion'
  BY <1>4, <1>5 DEF RefreshState, ApplyDirect, SavePlan, ApplySavedPlan, Import, MutateState,
     WriteState, PersistUnchanged, PersistChanged, ToPut, BackupStateForError, Return
<1>6. ASSUME NEW p \in Proc, PersistFirst(p) \/ Put(p) PROVE Exclusion'
  BY <1>4, <1>6 DEF PersistFirst, Put, Return, ToPut
<1>7. CASE UNCHANGED vars
  BY <1>7 DEF vars
<1> QED
  BY <1>1, <1>2, <1>3, <1>5, <1>6, <1>7 DEF Next

\* With the lock, and with imports too, remote.State implements the abstract store: Lock is
\* Acquire, Unlock and ForceUnlock are Release, a Put that arrives is a Write of the holder,
\* and everything else leaves lock and object alone.
THEOREM RemoteIsStore == ASSUME Locking PROVE Spec => ImplementsStore
<1>1. Init => TypeInv /\ Exclusion
  BY TypeInitial DEF Init, Exclusion, Critical
<1>2. TypeInv /\ Exclusion /\ [Next]_vars => (TypeInv /\ Exclusion)'
  BY TypePreserved, ExclusionPreserved
<1>3. Init => Store!Init
  BY DEF Init, Store!Init, Store!TypeOK
<1>4. ASSUME TypeInv, Exclusion, [Next]_vars
      PROVE  [Store!Next]_<<lock, remote>>
  <2> USE RemoteStateAssumption DEF Store!Next, Store!Acquire, Store!Release, Store!Write
  <2>1. ASSUME NEW p \in Proc, Lock(p) PROVE Store!Acquire(p)
    BY <2>1 DEF Lock
  <2>2. ASSUME NEW p \in Proc, Unlock(p) PROVE Store!Release \/ UNCHANGED <<lock, remote>>
    BY <2>2 DEF Unlock, Exit
  <2>3. CASE ForceUnlock
    BY <2>3 DEF ForceUnlock
  <2>4. ASSUME NEW p \in Proc, Put(p) PROVE Store!Write(p) \/ UNCHANGED <<lock, remote>>
    BY <1>4, <2>4 DEF Put, Exclusion, Critical
  <2>5. ASSUME NEW p \in Proc,
               \/ LockTimeout(p) \/ RefreshState(p) \/ ApplyDirect(p) \/ SavePlan(p)
               \/ \E f \in plan : ApplySavedPlan(p, f)
               \/ \E f \in Foreign \union history, force \in Forces : Import(p, f, force)
               \/ \E o \in Obj : MutateState(p, o)
               \/ WriteState(p) \/ PersistUnchanged(p) \/ PersistChanged(p)
               \/ PersistFirst(p) \/ BackupStateForError(p) \/ Crash(p)
        PROVE  UNCHANGED <<lock, remote>>
    BY <2>5 DEF LockTimeout, RefreshState, ApplyDirect, SavePlan, ApplySavedPlan, Import,
       MutateState, WriteState, PersistUnchanged, PersistChanged, PersistFirst,
       BackupStateForError, Crash, Exit
  <2>6. CASE UNCHANGED vars
    BY <2>6 DEF vars
  <2> QED
    BY <1>4, <2>1, <2>2, <2>3, <2>4, <2>5, <2>6 DEF Next
<1> QED
  BY <1>1, <1>2, <1>3, <1>4, PTL DEF Spec, ImplementsStore, Store!Spec

-----------------------------------------------------------------------------
(***************************************************************************)
(* With the lock, and with imports too, what a command has been told is    *)
(* stored is stored.                                                       *)
(***************************************************************************)
\* A snapshot that somebody else stores is one nobody else has seen, and who
\* works with the state does so alone.
LEMMA SightPreserved ==
    ASSUME Locking, TypeInv, Exclusion, Sight, [Next]_vars PROVE Sight'
<1> USE RemoteStateAssumption
<1> USE DEF TypeInv, TypeOK, Exclusion, Sight, Critical, Holding, Goto, ghost
<1>0. ASSUME NEW p \in Proc, NEW q \in Proc, pc[p] \in Critical, pc[q] \in Critical PROVE p = q
  BY <1>0
<1>1. ASSUME UNCHANGED unseen, \A q \in Proc : pc'[q] \in Holding => pc[q] \in Holding
      PROVE  Sight'
  BY <1>1
<1>2. ASSUME NEW p \in Proc,
             \/ Lock(p) \/ LockTimeout(p) \/ ApplyDirect(p) \/ SavePlan(p)
             \/ \E f \in plan : ApplySavedPlan(p, f)
             \/ \E f \in Foreign \union history, force \in Forces : Import(p, f, force)
             \/ \E o \in Obj : MutateState(p, o)
             \/ WriteState(p) \/ PersistUnchanged(p) \/ PersistChanged(p)
             \/ BackupStateForError(p)
      PROVE  Sight'
  BY <1>1, <1>2 DEF Lock, LockTimeout, ApplyDirect, SavePlan, ApplySavedPlan, Import,
     MutateState, WriteState, PersistUnchanged, PersistChanged, ToPut, Return,
     BackupStateForError
<1>3. ASSUME NEW p \in Proc, RefreshState(p) PROVE Sight'
  BY <1>3 DEF RefreshState, Refreshed, Loaded
<1>4. ASSUME NEW p \in Proc, PersistFirst(p) PROVE Sight'
  BY <1>4 DEF PersistFirst, Loaded, ToPut, Return
<1>5. ASSUME NEW p \in Proc, Put(p) PROVE Sight'
  <2>1. /\ pc[p] \in Holding
        /\ unseen' = unseen \union (Proc \ {p}) \/ unseen' = unseen
        /\ pc' = [pc EXCEPT ![p] = pc'[p]]
    BY <1>5 DEF Put, Stores, Return
  <2>2. \A q \in Proc : q # p => pc'[q] \notin Holding
    BY <1>0, <2>1
  <2> QED
    BY <2>1, <2>2
<1>6. ASSUME NEW p \in Proc, Unlock(p) \/ Crash(p) PROVE Sight'
  BY <1>6 DEF Unlock, Crash, Exit
<1>7. CASE ForceUnlock \/ UNCHANGED vars
  BY <1>7 DEF ForceUnlock, vars
<1> QED
  BY <1>2, <1>3, <1>4, <1>5, <1>6, <1>7 DEF Next

\* Under the lock no process overwrites a snapshot it has not read, whatever is
\* imported.
THEOREM UpdatesSurvive == ASSUME Locking PROVE Spec => NoUpdateDestroyed
<1> DEFINE Survives == \A p \in Proc : pc[p] \in {"applyPut", "finalPut"} /\ history' # history
                           /\ pc'[p] # pc[p] => p \notin unseen
<1>1. Init => TypeInv /\ Exclusion /\ Sight
  BY TypeInitial DEF Init, Exclusion, Sight, Critical, Holding
<1>2. TypeInv /\ Exclusion /\ Sight /\ [Next]_vars => (TypeInv /\ Exclusion /\ Sight)'
  BY TypePreserved, ExclusionPreserved, SightPreserved
<1>3. Sight => [Survives]_vars
  BY DEF Sight, Holding
<1> QED
  BY <1>1, <1>2, <1>3, PTL DEF Spec, NoUpdateDestroyed

-----------------------------------------------------------------------------
(***************************************************************************)
(* From a snapshot that exists: what a command is told is stored is stored.*)
(***************************************************************************)
\* The object stays, and who works with the state has read one.
Stored == remote # Absent /\ \A p \in Proc : pc[p] \in Holding =>
                                  readState[p] # NoState /\ state[p] # NoState

\* What a command does, and what PersistState has told it, by where it is.
Progress == \A p \in Proc :
    /\ pc[p] \in {"start", "locked", "loaded", "done"} => kind[p] = "none" /\ ret[p] = "none"
    /\ pc[p] \in {"apply", "applyPut", "backup"} => kind[p] = "apply"
    /\ pc[p] \in {"final", "finalPut"} => kind[p] # "none" /\ ret[p] = "none"
    /\ pc[p] = "backup" => ret[p] = "error"

\* The read* fields describe the remote object ...
IsRead(p) == /\ readLineage[p] = remote.lineage /\ readSerial[p] = remote.serial
             /\ readState[p] = remote.state /\ readStale[p] = remote.stale

\* ... unless the answer to a write of the apply was lost: then the serial has
\* moved on from the one that was read, and Unchanged cannot hold.
Knows == \A p \in Proc : pc[p] \in Holding =>
    /\ IsRead(p) \/ (kind[p] = "apply" /\ readSerial[p] < serial[p])
    /\ kind[p] # "import" => readSerial[p] <= serial[p]
    /\ pc[p] = "applyPut" => readSerial[p] < serial[p]

\* The final PersistState stores the result, under the imported lineage.
Synced == \A p \in Proc : pc[p] \in {"final", "finalPut"} =>
    /\ work[p] # NoState /\ state[p] = work[p]
    /\ kind[p] = "import" => lineage[p] = imported[p]

\* Success means that the object holds what was written.
Settled == \A p \in Proc : ret[p] = "ok" /\ pc[p] \in {"apply", "unlock"} =>
    /\ remote.state = Content(state[p])
    /\ pc[p] = "unlock" => remote.state = Content(work[p])
    /\ pc[p] = "unlock" /\ kind[p] = "import" => remote.lineage = imported[p]

\* An apply that is over has its result in the object or in errored.tfstate.
Recorded == \A p \in Proc : pc[p] = "unlock" /\ kind[p] = "apply" =>
    remote.state = Content(work[p]) \/ errored[p] = {work[p]}

ResultInv == /\ TypeInv /\ Exclusion /\ Stored /\ Progress /\ Knows
             /\ Synced /\ Settled /\ Recorded

\* It holds at the start if a snapshot exists.
LEMMA ResultInitial == ASSUME Absent \notin Initial, Init PROVE ResultInv
<1>1. TypeInv
  BY TypeInitial
<1> QED
  BY <1>1 DEF Init, ResultInv, Exclusion, Stored, Progress, Knows, Synced, Settled, Recorded,
     Critical, Holding

\* Every step of every process keeps it.
LEMMA ResultPreserved == ASSUME Locking, ResultInv, [Next]_vars PROVE ResultInv'
<1> USE RemoteStateAssumption
<1>t. TypeInv /\ TypeInv' /\ Exclusion /\ Exclusion'
  BY TypePreserved, ExclusionPreserved DEF ResultInv
<1> USE <1>t DEF TypeInv, TypeOK, mgr, ghost, Goto, Critical, Holding, Putting
<1>0. ASSUME NEW p \in Proc, NEW q \in Proc, pc[p] \in Critical, pc[q] \in Critical PROVE p = q
  BY <1>0 DEF Exclusion
<1> USE DEF ResultInv, Stored, Progress, Knows, IsRead, Synced, Settled, Recorded
<1>1. ASSUME NEW p \in Proc, Lock(p) PROVE ResultInv'
  BY <1>1 DEF Lock
<1>2. ASSUME NEW p \in Proc, LockTimeout(p) PROVE ResultInv'
  BY <1>2 DEF LockTimeout
<1>3. ASSUME NEW p \in Proc, RefreshState(p) PROVE ResultInv'
  <2>1. /\ pc[p] = "locked"
        /\ UNCHANGED <<remote, lock, kind, work, imported, ret, plan, errored>>
    BY <1>3 DEF RefreshState
  <2>2. CASE Refreshed(p) /\ Goto(p, "loaded") /\ UNCHANGED <<failures, history>>
    <3>1. /\ serial' = [serial EXCEPT ![p] = remote.serial]
          /\ readLineage' = [readLineage EXCEPT ![p] = remote.lineage]
          /\ readSerial' = [readSerial EXCEPT ![p] = remote.serial]
          /\ readStale' = [readStale EXCEPT ![p] = remote.stale]
          /\ readState' = [readState EXCEPT ![p] = remote.state]
          /\ state' = [state EXCEPT ![p] = remote.state]
          /\ lineage' = [lineage EXCEPT ![p] = remote.lineage]
      BY <2>2 DEF Refreshed, Loaded
    <3>2. remote.state # NoState /\ remote.serial \in Nat
      BY DEF Snapshot
    <3> QED
      BY <2>1, <2>2, <3>1, <3>2
  <2>3. CASE Fails /\ Goto(p, "unlock") /\ UNCHANGED <<mgr, ghost>>
    BY <2>1, <2>3
  <2> QED
    BY <1>3, <2>2, <2>3 DEF RefreshState
<1>4. ASSUME NEW p \in Proc, ApplyDirect(p) PROVE ResultInv'
  BY <1>4 DEF ApplyDirect
<1>5. ASSUME NEW p \in Proc, SavePlan(p) PROVE ResultInv'
  BY <1>5 DEF SavePlan
<1>6. ASSUME NEW p \in Proc, NEW f \in plan, ApplySavedPlan(p, f) PROVE ResultInv'
  BY <1>6 DEF ApplySavedPlan
<1>7. ASSUME NEW p \in Proc, NEW f \in Foreign \union history, NEW force \in Forces,
             Import(p, f, force)
      PROVE  ResultInv'
  <2>1. f.state # NoState
    BY DEF File
  <2>2. /\ pc[p] = "loaded" /\ pc' = [pc EXCEPT ![p] = pc'[p]]
        /\ UNCHANGED <<remote, readLineage, readSerial, readState, readStale, ret, errored>>
    BY <1>7 DEF Import
  <2>3. CASE /\ state' = [state EXCEPT ![p] = f.state]
             /\ lineage' = [lineage EXCEPT ![p] = f.lineage]
             /\ serial' = [serial EXCEPT ![p] = f.serial]
             /\ work' = [work EXCEPT ![p] = f.state]
             /\ imported' = [imported EXCEPT ![p] = f.lineage]
             /\ kind' = [kind EXCEPT ![p] = "import"]
             /\ Goto(p, "final")
    <3>1. Stored' /\ Progress' /\ Synced'
      BY <2>1, <2>2, <2>3
    <3>2. Knows'
      BY <2>2, <2>3
    <3>3. Settled' /\ Recorded'
      BY <2>2, <2>3
    <3> QED
      BY <3>1, <3>2, <3>3
  <2>4. CASE Goto(p, "unlock") /\ UNCHANGED <<lineage, serial, state, work, imported, kind>>
    BY <2>2, <2>4
  <2> QED
    BY <1>7, <2>3, <2>4 DEF Import
<1>8. ASSUME NEW p \in Proc, NEW o \in Obj, MutateState(p, o) PROVE ResultInv'
  <2>1. /\ pc[p] = "apply" /\ ret' = [ret EXCEPT ![p] = "none"]
        /\ state' = [state EXCEPT ![p] = state'[p]] /\ work' = [work EXCEPT ![p] = work'[p]]
        /\ UNCHANGED <<remote, lock, lineage, serial, readLineage, readSerial, readState,
                       readStale, pc, kind, imported, errored>>
    BY <1>8 DEF MutateState
  <2>2. Content(state[p]) \in States
    BY ContentType
  <2>3. state'[p] \in States
    BY <1>8, <2>2 DEF MutateState, States
  <2> QED
    BY <2>1, <2>3
<1>9. ASSUME NEW p \in Proc, WriteState(p) PROVE ResultInv'
  <2>1. Content(work[p]) # NoState
    BY ContentType
  <2> QED
    BY <1>9, <2>1 DEF WriteState
<1>10. ASSUME NEW p \in Proc, PersistUnchanged(p) PROVE ResultInv'
  <2>1. /\ pc[p] \in {"apply", "final"} /\ Unchanged(p)
        /\ ret' = [ret EXCEPT ![p] = "ok"]
        /\ pc' = [pc EXCEPT ![p] = IF pc[p] = "apply" THEN "apply" ELSE "unlock"]
        /\ UNCHANGED <<remote, lock, mgr, kind, work, imported, errored>>
    BY <1>10 DEF PersistUnchanged, Return
  <2>2. remote.state = state[p] /\ remote.lineage = lineage[p] /\ state[p] # NoState
    BY <2>1 DEF Unchanged
  <2>3. remote.state = Content(state[p])
    BY <2>2 DEF Content
  <2> QED
    BY <2>1, <2>2, <2>3
<1>11. ASSUME NEW p \in Proc, PersistChanged(p) PROVE ResultInv'
  BY <1>11 DEF PersistChanged, ToPut
<1>12. ASSUME NEW p \in Proc, PersistFirst(p) PROVE ResultInv'
  BY <1>12 DEF PersistFirst
<1>13. ASSUME NEW p \in Proc, Put(p) PROVE ResultInv'
  <2>1. /\ pc[p] \in Putting
        /\ UNCHANGED <<lock, lineage, serial, state, kind, work, imported, errored>>
    BY <1>13 DEF Put
  <2>2. \A q \in Proc : q # p => pc[q] \notin Critical
    BY <1>0, <2>1
  <2>3. remote' # Absent
    BY <1>13 DEF Put, Stores, Sent, Absent, PutSerial
  <2>4. CASE /\ Stores(p)
             /\ readState' = [readState EXCEPT ![p] = state[p]]
             /\ readLineage' = [readLineage EXCEPT ![p] = lineage[p]]
             /\ readSerial' = [readSerial EXCEPT ![p] = serial[p]]
             /\ readStale' = [readStale EXCEPT ![p] = FALSE]
             /\ Return(p, "ok")
    <3>1. /\ remote'.state = Content(state[p]) /\ remote'.lineage = lineage[p]
          /\ remote'.serial = serial[p] /\ remote'.stale = FALSE
      BY <2>4 DEF Stores, Sent
    <3>2. /\ ret' = [ret EXCEPT ![p] = "ok"]
          /\ pc' = [pc EXCEPT ![p] = IF pc[p] = "applyPut" THEN "apply" ELSE "unlock"]
      BY <2>1, <2>4 DEF Return
    <3>3. remote'.state = state[p]
      BY <2>1, <3>1 DEF Content
    <3>4. Stored' /\ Progress' /\ Synced'
      BY <2>1, <2>2, <2>3, <2>4, <3>2
    <3>5. Knows'
      <4>1. /\ readLineage'[p] = lineage[p] /\ readSerial'[p] = serial[p]
            /\ readState'[p] = state[p] /\ readStale'[p] = FALSE /\ serial[p] \in Nat
        BY <2>4
      <4>2. IsRead(p)'
        BY <3>1, <3>3, <4>1
      <4>3. \A q \in Proc : pc'[q] \in Holding => q = p
        BY <2>2, <3>2
      <4>4. pc'[p] # "applyPut"
        BY <2>1, <3>2
      <4> HIDE DEF IsRead
      <4> QED
        BY <2>1, <4>1, <4>2, <4>3, <4>4
    <3>6. Settled' /\ Recorded'
      BY <2>1, <2>2, <3>1, <3>2
    <3> QED
      BY <3>4, <3>5, <3>6
  <2>5. CASE Fails /\ Return(p, "error") /\ UNCHANGED <<readState, readLineage, readSerial, readStale>>
    <3>1. /\ ret' = [ret EXCEPT ![p] = "error"]
          /\ pc' = [pc EXCEPT ![p] = IF pc[p] = "applyPut" THEN "apply"
                                     ELSE IF kind[p] = "apply" THEN "backup" ELSE "unlock"]
      BY <2>1, <2>5 DEF Return
    <3>2. Stored' /\ Progress' /\ Synced'
      BY <2>1, <2>2, <2>3, <2>5, <3>1
    <3>3. Knows'
      <4>1. pc[p] = "applyPut" => kind[p] = "apply" /\ readSerial[p] < serial[p]
        BY <2>1
      <4> QED
        BY <2>1, <2>2, <2>5, <3>1, <4>1
    <3>4. Settled' /\ Recorded'
      BY <2>1, <2>2, <3>1
    <3> QED
      BY <3>2, <3>3, <3>4
  <2> QED
    BY <1>13, <2>4, <2>5 DEF Put
<1>14. ASSUME NEW p \in Proc, BackupStateForError(p) PROVE ResultInv'
  BY <1>14 DEF BackupStateForError
<1>15. ASSUME NEW p \in Proc, Unlock(p) \/ Crash(p) PROVE ResultInv'
  <2>1. Exit(p)
    BY <1>15 DEF Unlock, Crash
  <2>2. /\ pc' = [pc EXCEPT ![p] = "done"]
        /\ kind' = [kind EXCEPT ![p] = "none"] /\ ret' = [ret EXCEPT ![p] = "none"]
        /\ UNCHANGED <<remote, errored>>
    BY <2>1 DEF Exit
  <2>3. \A q \in Proc : q # p =>
            /\ pc'[q] = pc[q] /\ kind'[q] = kind[q] /\ ret'[q] = ret[q] /\ work'[q] = work[q]
            /\ state'[q] = state[q] /\ lineage'[q] = lineage[q] /\ serial'[q] = serial[q]
            /\ readState'[q] = readState[q] /\ readLineage'[q] = readLineage[q]
            /\ readSerial'[q] = readSerial[q] /\ readStale'[q] = readStale[q]
            /\ imported'[q] = imported[q]
    BY <2>1 DEF Exit
  <2>4. pc'[p] = "done" /\ kind'[p] = "none" /\ ret'[p] = "none"
    BY <2>2
  <2>5. Stored' /\ Progress' /\ Knows'
    BY <2>2, <2>3, <2>4
  <2>6. Synced' /\ Settled' /\ Recorded'
    BY <2>2, <2>3, <2>4
  <2> QED
    BY <2>5, <2>6
<1>16. CASE ForceUnlock
  BY <1>16 DEF ForceUnlock
<1>17. CASE UNCHANGED vars
  BY <1>17 DEF vars
<1> QED
  BY <1>1, <1>2, <1>3, <1>4, <1>5, <1>6, <1>7, <1>8, <1>9, <1>10, <1>11, <1>12, <1>13, <1>14,
     <1>15, <1>16, <1>17 DEF Next

\* What the theorems below rest on: an invariant of every execution with locks
\* that starts from a snapshot.
LEMMA ResultInvariant == ASSUME Locking, Absent \notin Initial PROVE Spec => []ResultInv
<1>1. Init => ResultInv
  BY ResultInitial
<1>2. ResultInv /\ [Next]_vars => ResultInv'
  BY ResultPreserved
<1> QED
  BY <1>1, <1>2, PTL DEF Spec

\* Under the lock, once PersistState has reported success, for a write or because
\* nothing has changed, the remote object holds the manager's state, and at the end
\* the result of the command: after lost answers, failed writes and imports too.
THEOREM PersistedAreLatest ==
    ASSUME Locking, Absent \notin Initial PROVE Spec => []PersistedIsLatest
<1>1. ASSUME ResultInv, NEW p \in Proc, ret[p] = "ok", pc[p] \notin {"applyPut", "finalPut"}
      PROVE  /\ remote # Absent /\ remote.state = Content(state[p])
             /\ pc[p] # "apply" => remote.state = Content(work[p])
  <2>1. pc[p] \in {"apply", "final", "unlock"}
    BY <1>1 DEF ResultInv, Progress, TypeInv, TypeOK
  <2>2. pc[p] # "final"
    BY <1>1 DEF ResultInv, Progress
  <2> QED
    BY <1>1, <2>1, <2>2 DEF ResultInv, Stored, Settled
<1>2. ResultInv => PersistedIsLatest
  BY <1>1 DEF PersistedIsLatest
<1> QED
  BY <1>2, ResultInvariant, PTL

\* An apply never ends with its result neither in the remote object nor in
\* errored.tfstate, whichever of its writes failed.
THEOREM ResultsAreRecorded ==
    ASSUME Locking, Absent \notin Initial PROVE Spec => []ResultIsRecorded
<1>1. ResultInv => ResultIsRecorded
  BY DEF ResultInv, Recorded, Stored, ResultIsRecorded
<1> QED
  BY <1>1, ResultInvariant, PTL

\* state push and a backend migration leave the lineage of the file in the remote object
\* when they report success, also if the file equals what was there.
THEOREM ImportsKeepLineage ==
    ASSUME Locking, Absent \notin Initial PROVE Spec => []ImportKeepsLineage
<1>1. ResultInv => ImportKeepsLineage
  BY DEF ResultInv, Settled, Stored, ImportKeepsLineage
<1> QED
  BY <1>1, ResultInvariant, PTL

\* During an apply the manager's copy of the state and the walker's are the same:
\* MutateState replays on the one what the node did to the other.
Agree == \A p \in Proc : pc[p] \in {"apply", "applyPut"} => Content(state[p]) = Content(work[p])

\* Without imports no step makes the two copies differ.
LEMMA AgreePreserved ==
    ASSUME Locking, Forces = {}, LineInv, ResultInv, Agree, [Next]_vars PROVE Agree'
<1> USE RemoteStateAssumption
<1>t. TypeInv
  BY DEF LineInv
<1> USE <1>t DEF TypeInv, TypeOK, mgr, Goto, Agree
<1>1. ASSUME UNCHANGED <<state, work>>,
             \A q \in Proc : pc'[q] \in {"apply", "applyPut"} => pc[q] \in {"apply", "applyPut"}
      PROVE  Agree'
  BY <1>1
<1>2. ASSUME NEW p \in Proc,
             \/ Lock(p) \/ LockTimeout(p) \/ SavePlan(p) \/ PersistUnchanged(p)
             \/ PersistChanged(p) \/ Put(p) \/ BackupStateForError(p)
      PROVE  Agree'
  BY <1>1, <1>2 DEF Lock, LockTimeout, SavePlan, PersistUnchanged, PersistChanged, ToPut, Return,
     Put, BackupStateForError
<1>3. ASSUME NEW p \in Proc, RefreshState(p) PROVE Agree'
  BY <1>3 DEF RefreshState, Refreshed, Loaded
<1>4. ASSUME NEW p \in Proc, ApplyDirect(p) PROVE Agree'
  BY <1>4 DEF ApplyDirect
<1>5. ASSUME NEW p \in Proc, NEW f \in plan, ApplySavedPlan(p, f) PROVE Agree'
  <2>1. CASE pc'[p] = "apply"
    <3>1. /\ pc[p] = "loaded" /\ work' = [work EXCEPT ![p] = f.state] /\ UNCHANGED state
          /\ pc' = [pc EXCEPT ![p] = "apply"]
      BY <1>5, <2>1 DEF ApplySavedPlan
    <3>2. f.state = Content(state[p])
      BY <1>5, <2>1, AcceptedPlan
    <3>3. Content(f.state) = f.state
      BY DEF Content, File
    <3> QED
      BY <3>1, <3>2, <3>3
  <2>2. CASE pc'[p] # "apply"
    BY <1>5, <2>2 DEF ApplySavedPlan
  <2> QED
    BY <2>1, <2>2
<1>6. ASSUME NEW p \in Proc, NEW o \in Obj, MutateState(p, o) PROVE Agree'
  <2> DEFINE c == Content(work[p])
             r == IF o \in c THEN c \ {o} ELSE c \union {o}
  <2>1. /\ pc[p] = "apply" /\ UNCHANGED pc
        /\ work' = [work EXCEPT ![p] = r]
        /\ state' = [state EXCEPT ![p] = IF o \in r THEN Content(state[p]) \union {o}
                                                    ELSE Content(state[p]) \ {o}]
    BY <1>6 DEF MutateState
  <2>2. Content(state[p]) = c
    BY <2>1
  <2>3. r = IF o \in r THEN c \union {o} ELSE c \ {o}
    OBVIOUS
  <2> HIDE DEF c, r
  <2>4. work'[p] = state'[p]
    BY <2>1, <2>2, <2>3
  <2>5. \A q \in Proc : q # p => work'[q] = work[q] /\ state'[q] = state[q]
    BY <2>1
  <2> QED
    BY <2>1, <2>4, <2>5
<1>7. ASSUME NEW p \in Proc, WriteState(p) PROVE Agree'
  BY <1>7 DEF WriteState
<1>8. ASSUME NEW p \in Proc, PersistFirst(p) PROVE Agree'
  BY <1>8 DEF PersistFirst, ResultInv, Stored, Holding
<1>9. ASSUME NEW p \in Proc, Unlock(p) \/ Crash(p) PROVE Agree'
  BY <1>9 DEF Unlock, Crash, Exit
<1>10. CASE ForceUnlock \/ UNCHANGED vars
  BY <1>10 DEF ForceUnlock, vars
<1> QED
  BY <1>2, <1>3, <1>4, <1>5, <1>6, <1>7, <1>8, <1>9, <1>10 DEF Next

\* Without imports, the intermediate snapshots of an apply are the walker's state too: whenever
\* PersistState has reported success, all that the apply has done is in the remote object.
THEOREM WalkerIsPersisted ==
    ASSUME Locking, Forces = {}, Absent \notin Initial
    PROVE  Spec => [](\A p \in Proc : ret[p] = "ok" /\ pc[p] \in {"apply", "unlock"}
                         => remote.state = Content(work[p]))
<1>1. Init => Agree
  BY DEF Init, Agree
<1>2. LineInv /\ ResultInv /\ Agree /\ [Next]_vars => Agree'
  BY AgreePreserved
<1>3. ResultInv /\ Agree => \A p \in Proc : ret[p] = "ok" /\ pc[p] \in {"apply", "unlock"}
                                => remote.state = Content(work[p])
  BY DEF ResultInv, Settled, Agree
<1> QED
  BY <1>1, <1>2, <1>3, LineInvariant, ResultInvariant, PTL DEF Spec
=============================================================================
