--------------------------- MODULE S3ClientProofs ---------------------------
(***************************************************************************)
(* Proofs about S3Client, for any commands, configurations and bounds.     *)
(***************************************************************************)
EXTENDS S3Client, TLAPS

Ended(p) == pc[p] \in {"done", "dead"}

\* Between the first and the last request of Unlock.
Unlocking == {"unlock", "unlockDelete", "dynUnlock", "dynUnlockDelete"}

\* A command waits, or has asked for the lock under its own ID, or unlocks by force the
\* lock of a command that has ended.
IdOK(p) ==
    \/ pc[p] = "idle" /\ op[p] = "none" /\ id[p] = NoProc
    \/ op[p] \in {"write", "init", "remove", "quit"} /\ pc[p] # "idle" /\ id[p] = p
    \/ /\ op[p] = "force" /\ pc[p] \in Unlocking \union {"done", "dead"}
       /\ id[p] \notin {p, NoProc} /\ (id[p] \in Proc => Ended(id[p]))

\* What a command has read is a version that was written.
TypeInv ==
    /\ TypeOK
    /\ \A p \in Proc : read[p] \in 0..versions
    /\ \A p \in Proc : IdOK(p)

\* A holder with a table has the item: it is deleted only by who has its ID.
TableInv == \A p \in Proc : Holds(p) /\ HasTable(p) => item = p

SomeWithout == \E q \in Proc : ~HasTable(q)

\* Where some have no table everyone uses the lockfile.  Who got it keeps it up to Unlock,
\* and who is about to delete it deletes the one it has read, since no two who are
\* running have the same ID.
FileInv ==
    SomeWithout =>
        /\ \A p, q \in Proc : p # q /\ id[p] = id[q] /\ id[p] # NoProc => Ended(p) \/ Ended(q)
        /\ \A p \in Proc : pc[p] \in {"dynamo", "rollback"} \/ Holds(p) => lockfile = p
        /\ \A p \in Proc : pc[p] \in {"rollbackDelete", "unlockDelete"} => lockfile = id[p]

LockInv == TypeInv /\ TableInv /\ FileInv

\* Without an error of AWS nobody has died, and a lock is its owner's as long as it works.
OwnerInv ==
    faults = 0 =>
        \A p \in Proc :
            /\ pc[p] # "dead"
            /\ lockfile = p => 
                 /\ UsesS3(p) /\ id[p] = p
                 /\ \/ Holds(p)
                    \/ pc[p] \in {"dynamo", "rollback", "rollbackDelete", "unlock", "unlockDelete"}
            /\ item = p =>
                 /\ HasTable(p) /\ id[p] = p
                 /\ Holds(p) \/ pc[p] \in Unlocking

\* Without an error of AWS the digest is missing or the object's, or about to be stored.
FreshInv ==
    faults = 0 /\ (\A p \in Proc : HasTable(p)) =>
        /\ digest \in {0, object} \/ object = 0 \/ \E q \in Proc : pc[q] = "putMD5"
        /\ \A p \in Proc :
            pc[p] = "putMD5" \/ (pc[p] = "loaded" /\ ~unverified[p]) =>
                read[p] = object \/ object = 0

-----------------------------------------------------------------------------
(***************************************************************************)
(* Types and IDs.                                                          *)
(***************************************************************************)

\* The initial state is well typed.
LEMMA TypeInitial == Init => TypeInv
<1> SUFFICES ASSUME Init PROVE TypeInv
  OBVIOUS
<1>1. object \in 0..1 /\ versions = object /\ digest \in 0..versions /\ versions \in 0..MaxVersions
  BY S3ClientAssumption DEF Init
<1>2. TypeOK
  BY <1>1, S3ClientAssumption DEF Init, TypeOK, Owner
<1>3. ASSUME NEW p \in Proc PROVE IdOK(p) /\ read[p] \in 0..versions
  BY <1>1 DEF Init, IdOK, Unlocking
<1> QED
  BY <1>2, <1>3 DEF TypeInv

\* A request leaves the count of faults within its bound.
LEMMA RequestType ==
  ASSUME faults \in 0..MaxFaults, NEW o \in Outcome, Request(o)
  PROVE  /\ faults' \in 0..MaxFaults
         /\ o.ok \in BOOLEAN /\ o.effect \in BOOLEAN /\ (o.ok => o.effect)
         /\ faults' = 0 => o.ok /\ o.effect /\ faults = 0
BY S3ClientAssumption DEF Request, Outcome

\* Every step keeps the types; what is read, or stored as a digest, was written.
LEMMA TypePreserved ==
  ASSUME TypeInv, NEW p \in Proc, Step(p)
  PROVE  TypeInv'
<1> USE S3ClientAssumption
<1> USE DEF TypeInv, TypeOK, IdOK, Ended, Unlocking, Owner, Goto, Set, store, locks, mem
<1>1. CASE Begin(p)
  BY <1>1 DEF Begin
<1>2. ASSUME NEW q \in Owner, ForceUnlock(p, q) PROVE TypeInv'
  BY <1>2 DEF ForceUnlock
<1>3. CASE Die(p)
  BY <1>3 DEF Die
<1>4. CASE S3Lock(p)
  BY <1>4, RequestType DEF S3Lock, GiveUpOrRetry
<1>5. CASE DynamoDBLock(p)
  BY <1>5, RequestType DEF DynamoDBLock
<1>6. CASE Rollback(p)
  BY <1>6, RequestType DEF Rollback, S3Unlock, GiveUpOrRetry
<1>7. CASE Get(p)
  BY <1>7, RequestType DEF Get, Quit
<1>8. CASE GetMD5(p)
  BY <1>8, RequestType DEF GetMD5, Quit, Loaded
<1>9. CASE Put(p)
  BY <1>9, RequestType DEF Put
<1>10. CASE PutMD5(p)
  BY <1>10, RequestType DEF PutMD5
<1>11. CASE Finish(p)
  BY <1>11 DEF Finish
<1>12. CASE Unlock(p)
  BY <1>12, RequestType DEF Unlock, S3Unlock
<1>13. CASE DynamoDBUnlock(p)
  BY <1>13, RequestType DEF DynamoDBUnlock, AfterUnlock
<1>14. CASE DynamoDBUnlockDelete(p)
  BY <1>14, RequestType DEF DynamoDBUnlockDelete, AfterUnlock
<1>15. CASE Delete(p)
  BY <1>15, RequestType DEF Delete
<1>16. CASE DeleteMD5(p)
  BY <1>16, RequestType DEF DeleteMD5
<1> QED
  BY <1>1, <1>2, <1>3, <1>4, <1>5, <1>6, <1>7, <1>8, <1>9, <1>10, <1>11, <1>12, <1>13, <1>14,
     <1>15, <1>16 DEF Step

-----------------------------------------------------------------------------
(***************************************************************************)
(* Mutual exclusion.                                                       *)
(***************************************************************************)

\* How a command is configured does not change.
LEMMA ModeKept ==
  ASSUME NEW p \in Proc, Step(p)
  PROVE  mode' = mode
BY DEF Step, Begin, ForceUnlock, Die, S3Lock, DynamoDBLock, Rollback, Get, GetMD5, Put, PutMD5,
       Finish, Unlock, DynamoDBUnlock, DynamoDBUnlockDelete, Delete, DeleteMD5

\* The item stays the holder's: PutItem needs that there is none, and who deletes it has
\* compared it with its own ID, or with the ID of a command that has ended.
LEMMA TablePreserved ==
  ASSUME TypeInv, TableInv, NEW p \in Proc, Step(p)
  PROVE  TableInv'
<1> SUFFICES ASSUME NEW q \in Proc, Holds(q)', HasTable(q)' PROVE item' = q
  BY DEF TableInv
<1> USE DEF Holds, HasTable, Goto
<1>1. HasTable(q) /\ mode' = mode
  BY ModeKept
<1>2. /\ q \notin {NoProc, Left} /\ pc = [x \in Proc |-> pc[x]]
      /\ Holds(q) => item = q
      /\ \A x \in Proc : IdOK(x)
  BY <1>1, S3ClientAssumption DEF TypeInv, TypeOK, TableInv
<1>3. CASE DynamoDBLock(p)
  BY <1>1, <1>2, <1>3, RequestType DEF DynamoDBLock, TypeInv, TypeOK
<1>4. CASE DynamoDBUnlockDelete(p)
  BY <1>1, <1>2, <1>4 DEF DynamoDBUnlockDelete, AfterUnlock, IdOK, Ended
<1>5. CASE ~DynamoDBLock(p) /\ ~DynamoDBUnlockDelete(p)
  <2>1. item' = item
    BY <1>5 DEF Step, Begin, ForceUnlock, Die, S3Lock, Rollback, Get, GetMD5, Put, PutMD5,
                Finish, Unlock, DynamoDBUnlock, Delete, DeleteMD5, locks
  <2>2. Holds(q)
    BY <1>2, <1>5 DEF Step, Begin, ForceUnlock, Die, S3Lock, Rollback, Get, GetMD5, Put, PutMD5,
                Finish, Unlock, DynamoDBUnlock, Delete, DeleteMD5, S3Unlock, GiveUpOrRetry,
                Quit, Loaded, AfterUnlock
  <2> QED
    BY <1>2, <2>1, <2>2
<1> QED
  BY <1>3, <1>4, <1>5

\* Where some have no table, everyone has the lockfile in common with them.
LEMMA EveryoneUsesS3 ==
  ASSUME TypeOK, SomeWithout, NEW p \in Proc
  PROVE  UsesS3(p)
<1>1. PICK q \in Proc : ~HasTable(q)
  BY DEF SomeWithout
<1>2. mode[p] \in SUBSET Mechanism /\ mode[q] \in SUBSET Mechanism /\ mode[p] \intersect mode[q] # {}
  BY S3ClientAssumption DEF TypeOK
<1> QED
  BY <1>1, <1>2 DEF HasTable, UsesS3, Mechanism

\* At most one command works under the lock.
LEMMA Exclusion ==
  ASSUME TypeOK, TableInv, FileInv, NEW p \in Proc, NEW q \in Proc, Holds(p), Holds(q)
  PROVE  p = q
<1>1. CASE SomeWithout
  BY <1>1 DEF FileInv
<1>2. CASE ~SomeWithout
  BY <1>2 DEF SomeWithout, TableInv
<1> QED
  BY <1>1, <1>2
\* Where some have no table the lockfile stays with who got it, up to its own deletion.
LEMMA FilePreserved ==
  ASSUME TypeInv, FileInv, NEW p \in Proc, Step(p)
  PROVE  FileInv'
<1>1. mode' = mode
  BY ModeKept
<1> SUFFICES ASSUME SomeWithout PROVE FileInv'
  BY <1>1 DEF FileInv, SomeWithout, HasTable
<1>2. \A x \in Proc : x # NoProc /\ IdOK(x) /\ UsesS3(x)
  BY EveryoneUsesS3, S3ClientAssumption DEF TypeInv
<1>3. pc = [x \in Proc |-> pc[x]] /\ id = [x \in Proc |-> id[x]]
  BY DEF TypeInv, TypeOK
<1> USE <1>2, <1>3
<1> USE DEF FileInv, IdOK, Ended, Unlocking, Holds, Goto, Set, store, locks, mem
<1>4. CASE Begin(p)
  BY <1>4 DEF Begin
<1>5. ASSUME NEW q \in Owner, ForceUnlock(p, q) PROVE FileInv'
  BY <1>5 DEF ForceUnlock, SomeWithout
<1>6. CASE Die(p)
  BY <1>6 DEF Die
<1>7. CASE S3Lock(p)
  <2>1. \/ pc' = [pc EXCEPT ![p] = "dynamo"] /\ lockfile = NoProc /\ lockfile' = p
        \/ pc' = [pc EXCEPT ![p] = "done"] /\ lockfile' \in {lockfile, p}
        \/ pc' = [pc EXCEPT ![p] = "lock"] /\ lockfile' \in {lockfile, p}
    BY <1>7, RequestType DEF S3Lock, GiveUpOrRetry, TypeInv, TypeOK
  <2>2. lockfile = NoProc \/ lockfile' = lockfile
    BY <1>7 DEF S3Lock
  <2>3. pc[p] = "lock" /\ id' = id
    BY <1>7 DEF S3Lock
  <2> QED
    BY <2>1, <2>2, <2>3
<1>8. CASE DynamoDBLock(p)
  BY <1>8 DEF DynamoDBLock
<1>9. CASE Rollback(p)
  BY <1>9 DEF Rollback, S3Unlock, GiveUpOrRetry
<1>10. CASE Get(p)
  BY <1>10 DEF Get, Quit
<1>11. CASE GetMD5(p)
  BY <1>11 DEF GetMD5, Quit, Loaded
<1>12. CASE Put(p)
  BY <1>12 DEF Put
<1>13. CASE PutMD5(p)
  BY <1>13 DEF PutMD5
<1>14. CASE Finish(p)
  BY <1>14 DEF Finish
<1>15. CASE Unlock(p)
  BY <1>15 DEF Unlock, S3Unlock
<1>16. CASE DynamoDBUnlock(p)
  BY <1>16 DEF DynamoDBUnlock, AfterUnlock
<1>17. CASE DynamoDBUnlockDelete(p)
  BY <1>17 DEF DynamoDBUnlockDelete, AfterUnlock
<1>18. CASE Delete(p)
  BY <1>18 DEF Delete
<1>19. CASE DeleteMD5(p)
  BY <1>19 DEF DeleteMD5
<1> QED
  BY <1>4, <1>5, <1>6, <1>7, <1>8, <1>9, <1>10, <1>11, <1>12, <1>13, <1>14, <1>15, <1>16, <1>17,
     <1>18, <1>19 DEF Step
\* The invariant that lock and holder rest on, from the first state on.
LEMMA LockInvariant == Spec => []LockInv
<1>1. Init => LockInv
  <2> SUFFICES ASSUME Init PROVE LockInv
    OBVIOUS
  <2>1. TableInv
    BY DEF Init, TableInv, Holds
  <2>2. FileInv
    BY DEF Init, FileInv, Holds
  <2> QED
    BY <2>1, <2>2, TypeInitial DEF LockInv
<1>2. LockInv /\ [Next]_vars => LockInv'
  <2> SUFFICES ASSUME LockInv, [Next]_vars PROVE LockInv'
    OBVIOUS
  <2>1. ASSUME NEW p \in Proc, Step(p) PROVE LockInv'
    BY <2>1, TypePreserved, TablePreserved, FilePreserved DEF LockInv
  <2>2. CASE UNCHANGED vars
    BY <2>2 DEF vars, store, locks, mem, LockInv, TypeInv, TypeOK, IdOK, Ended, TableInv,
                FileInv, SomeWithout, Holds, HasTable
  <2> QED
    BY <2>1, <2>2 DEF Next
<1> QED
  BY <1>1, <1>2, PTL DEF Spec

\* TypeOK: every variable keeps its type, whatever fails.
THEOREM TypeCorrect == Spec => []TypeOK
<1>1. LockInv => TypeOK
  BY DEF LockInv, TypeInv
<1> QED
  BY <1>1, LockInvariant, PTL

\* HolderIsLocked: for every set of commands any two of which have a lock in common, the
\* holder owns its item and, where some have no table, the lockfile.
THEOREM HoldersAreLocked == Spec => []HolderIsLocked
<1>1. LockInv => HolderIsLocked
  BY DEF LockInv, TableInv, FileInv, SomeWithout, HolderIsLocked
<1> QED
  BY <1>1, LockInvariant, PTL

-----------------------------------------------------------------------------
(***************************************************************************)
(* The state store.                                                        *)
(***************************************************************************)

\* The holder of the abstract store is the command that works under the lock.
LEMMA HolderIs ==
  ASSUME TypeOK, TableInv, FileInv, NEW p \in Proc, Holds(p)
  PROVE  holder = p
<1>1. \A q \in Proc : Holds(q) => q = p
  BY Exclusion
<1> QED
  BY <1>1 DEF holder

\* ImplementsStore: at most one command has the lock, whatever mechanisms are mixed and
\* whatever fails, and only that one changes the state; a removal goes past the lock.
THEOREM S3IsStore == Spec => ImplementsStore
<1>1. Init => Store!Init
  BY DEF Init, Holds, holder, Store!Init, Store!TypeOK
<1>2. LockInv /\ LockInv' /\ [Next]_vars => [Store!Next]_<<holder, object>>
  <2> SUFFICES ASSUME LockInv, LockInv', [Next]_vars PROVE [Store!Next]_<<holder, object>>
    OBVIOUS
  <2> USE DEF LockInv, TypeInv
  <2>1. CASE UNCHANGED vars
    BY <2>1 DEF vars, store, holder, Holds
  <2>2. ASSUME NEW p \in Proc, Step(p) PROVE [Store!Next]_<<holder, object>>
    <3>1. pc = [x \in Proc |-> pc[x]] /\ object \in 0..versions /\ versions \in Nat
      BY DEF TypeOK
    <3>2. \A q \in Proc : q # p => (Holds(q)' <=> Holds(q))
      BY <2>2, <3>1 DEF Step, Begin, ForceUnlock, Die, S3Lock, DynamoDBLock, Rollback, Get,
         GetMD5, Put, PutMD5, Finish, Unlock, DynamoDBUnlock, DynamoDBUnlockDelete, Delete,
         DeleteMD5, S3Unlock, GiveUpOrRetry, Quit, Loaded, Goto, Holds
    <3>3. CASE Holds(p) /\ Holds(p)'
      <4>1. holder = p /\ holder' = p
        <5>1. holder = p
          BY <3>3, HolderIs
        <5>2. \A q \in Proc : Holds(q)' => q = p
          BY <3>2, <3>3, Exclusion
        <5> QED
          BY <3>3, <5>1, <5>2 DEF holder
      <4>2. object' = object \/ object' = versions + 1
        BY <2>2, <3>3 DEF Step, Begin, ForceUnlock, Die, S3Lock, DynamoDBLock, Rollback, Get,
           GetMD5, Put, PutMD5, Finish, Unlock, DynamoDBUnlock, DynamoDBUnlockDelete, Delete,
           DeleteMD5, store, Holds
      <4> QED
        BY <3>1, <4>1, <4>2 DEF Store!Next, Store!Write
    <3>4. CASE ~Holds(p) /\ Holds(p)'
      <4>1. object' = object
        BY <2>2, <3>1, <3>4 DEF Step, Begin, ForceUnlock, Die, S3Lock, DynamoDBLock, Rollback,
           Get, GetMD5, Put, PutMD5, Finish, Unlock, DynamoDBUnlock, DynamoDBUnlockDelete,
           Delete, DeleteMD5, store, Goto, Holds
      <4>2. \A q \in Proc : Holds(q)' => q = p
        <5> SUFFICES ASSUME NEW q \in Proc, Holds(q)' PROVE q = p
          OBVIOUS
        <5>1. CASE SomeWithout'
          BY <3>4, <5>1 DEF FileInv
        <5>2. CASE ~SomeWithout'
          BY <3>4, <5>2 DEF SomeWithout, TableInv
        <5> QED
          BY <5>1, <5>2
      <4>3. \A q \in Proc : ~Holds(q)
        BY <3>2, <3>4, <4>2
      <4>4. holder = NoProc /\ holder' = p
        BY <3>4, <4>2, <4>3 DEF holder
      <4> QED
        BY <4>1, <4>4 DEF Store!Next, Store!Acquire
    <3>5. CASE Holds(p) /\ ~Holds(p)'
      <4>1. object' = object
        BY <2>2, <3>1, <3>5 DEF Step, Begin, ForceUnlock, Die, S3Lock, DynamoDBLock, Rollback,
           Get, GetMD5, Put, PutMD5, Finish, Unlock, DynamoDBUnlock, DynamoDBUnlockDelete,
           Delete, DeleteMD5, store, Goto, Holds
      <4>2. holder = p /\ holder' = NoProc
        <5>1. \A q \in Proc : Holds(q) => q = p
          BY <3>5, Exclusion
        <5>2. \A q \in Proc : ~Holds(q)'
          BY <3>2, <3>5, <5>1
        <5> QED
          BY <3>5, <5>1, <5>2 DEF holder
      <4>3. p # NoProc
        BY S3ClientAssumption
      <4> QED
        BY <4>1, <4>2, <4>3 DEF Store!Next, Store!Release
    <3>6. CASE ~Holds(p) /\ ~Holds(p)'
      <4>1. holder' = holder
        BY <3>2, <3>6 DEF holder
      <4>2. object' = object \/ object' = 0
        BY <2>2, <3>6 DEF Step, Begin, ForceUnlock, Die, S3Lock, DynamoDBLock, Rollback, Get,
           GetMD5, Put, PutMD5, Finish, Unlock, DynamoDBUnlock, DynamoDBUnlockDelete, Delete,
           DeleteMD5, store, Holds
      <4> QED
        BY <4>1, <4>2 DEF Store!Next, Store!Remove
    <3> QED
      BY <3>3, <3>4, <3>5, <3>6
  <2> QED
    BY <2>1, <2>2 DEF Next
<1> QED
  BY <1>1, <1>2, LockInvariant, PTL DEF Spec, ImplementsStore, Store!Spec
-----------------------------------------------------------------------------
(***************************************************************************)
(* Without an error of AWS.                                                *)
(***************************************************************************)

\* A lock is taken by who asked for it and given back before its owner ends.
LEMMA OwnerPreserved ==
  ASSUME TypeInv, OwnerInv, NEW p \in Proc, Step(p)
  PROVE  OwnerInv'
<1> SUFFICES ASSUME faults' = 0 PROVE OwnerInv'
  BY DEF OwnerInv
<1>1. mode' = mode
  BY ModeKept
<1>2. /\ \A x \in Proc : x # NoProc /\ x # Left /\ IdOK(x)
      /\ pc = [x \in Proc |-> pc[x]] /\ id = [x \in Proc |-> id[x]] /\ faults \in 0..MaxFaults
  BY S3ClientAssumption DEF TypeInv, TypeOK
<1> USE <1>1, <1>2
<1> USE DEF OwnerInv, IdOK, Ended, Unlocking, Holds, UsesS3, HasTable, Goto, Set, store, locks, mem
<1>3. CASE Begin(p)
  BY <1>3 DEF Begin
<1>4. ASSUME NEW q \in Owner, ForceUnlock(p, q) PROVE OwnerInv'
  BY <1>4 DEF ForceUnlock
<1>5. CASE Die(p)
  BY <1>5 DEF Die
<1>6. CASE S3Lock(p)
  BY <1>6, RequestType DEF S3Lock, GiveUpOrRetry
<1>7. CASE DynamoDBLock(p)
  BY <1>7, RequestType DEF DynamoDBLock
<1>8. CASE Rollback(p)
  BY <1>8, RequestType DEF Rollback, S3Unlock, GiveUpOrRetry
<1>9. CASE Get(p)
  BY <1>9, RequestType DEF Get, Quit
<1>10. CASE GetMD5(p)
  BY <1>10, RequestType DEF GetMD5, Quit, Loaded
<1>11. CASE Put(p)
  BY <1>11, RequestType DEF Put
<1>12. CASE PutMD5(p)
  BY <1>12, RequestType DEF PutMD5
<1>13. CASE Finish(p)
  BY <1>13 DEF Finish
<1>14. CASE Unlock(p)
  BY <1>14, RequestType DEF Unlock, S3Unlock
<1>15. CASE DynamoDBUnlock(p)
  BY <1>15, RequestType DEF DynamoDBUnlock, AfterUnlock
<1>16. CASE DynamoDBUnlockDelete(p)
  BY <1>16, RequestType DEF DynamoDBUnlockDelete, AfterUnlock
<1>17. CASE Delete(p)
  BY <1>17, RequestType DEF Delete
<1>18. CASE DeleteMD5(p)
  BY <1>18, RequestType DEF DeleteMD5
<1> QED
  BY <1>3, <1>4, <1>5, <1>6, <1>7, <1>8, <1>9, <1>10, <1>11, <1>12, <1>13, <1>14, <1>15, <1>16,
     <1>17, <1>18 DEF Step

\* LocksReleased: without an error of AWS a command that has ended owns neither lock,
\* also if it got the first and not the second.
THEOREM LocksAreReleased == Spec => []LocksReleased
<1>1. Init => OwnerInv
  <2> SUFFICES ASSUME Init, NEW p \in Proc PROVE pc[p] = "idle" /\ lockfile # p /\ item # p
    BY DEF OwnerInv
  <2> QED
    BY S3ClientAssumption DEF Init
<1>2. LockInv /\ OwnerInv /\ [Next]_vars => OwnerInv'
  <2> SUFFICES ASSUME LockInv, OwnerInv, [Next]_vars PROVE OwnerInv'
    OBVIOUS
  <2>1. ASSUME NEW p \in Proc, Step(p) PROVE OwnerInv'
    BY <2>1, OwnerPreserved DEF LockInv
  <2>2. CASE UNCHANGED vars
    BY <2>2 DEF vars, store, locks, mem, OwnerInv, Holds, HasTable, UsesS3
  <2> QED
    BY <2>1, <2>2 DEF Next
<1>3. OwnerInv => LocksReleased
  BY DEF OwnerInv, LocksReleased, Holds, Unlocking
<1> QED
  BY <1>1, <1>2, <1>3, LockInvariant, PTL DEF Spec

\* The digest follows the object: only who works under the lock writes either, a removal
\* aside, and it stores the digest of what it has just put before it goes on.
LEMMA FreshPreserved ==
  ASSUME LockInv, FreshInv, NEW p \in Proc, Step(p)
  PROVE  FreshInv'
<1>1. mode' = mode
  BY ModeKept
<1> SUFFICES ASSUME faults' = 0, \A x \in Proc : HasTable(x) PROVE FreshInv'
  BY <1>1 DEF FreshInv, HasTable
<1>2. /\ pc = [x \in Proc |-> pc[x]] /\ read = [x \in Proc |-> read[x]]
      /\ unverified = [x \in Proc |-> unverified[x]] /\ faults \in 0..MaxFaults
  BY DEF LockInv, TypeInv, TypeOK
<1>3. \A x, y \in Proc : Holds(x) /\ Holds(y) => x = y
  BY Exclusion DEF LockInv, TypeInv
<1> USE <1>1, <1>2, <1>3
<1> USE DEF FreshInv, Holds, Goto, Set, store, locks, mem
<1>4. CASE Begin(p)
  BY <1>4 DEF Begin
<1>5. ASSUME NEW q \in Owner, ForceUnlock(p, q) PROVE FreshInv'
  BY <1>5 DEF ForceUnlock
<1>6. CASE Die(p)
  BY <1>6 DEF Die
<1>7. CASE S3Lock(p)
  BY <1>7, RequestType DEF S3Lock, GiveUpOrRetry
<1>8. CASE DynamoDBLock(p)
  BY <1>8, RequestType DEF DynamoDBLock
<1>9. CASE Rollback(p)
  BY <1>9, RequestType DEF Rollback, S3Unlock, GiveUpOrRetry
<1>10. CASE Get(p)
  BY <1>10, RequestType DEF Get, Quit
<1>11. CASE GetMD5(p)
  BY <1>11, RequestType DEF GetMD5, Quit, Loaded
<1>12. CASE Put(p)
  BY <1>12, RequestType DEF Put
<1>13. CASE PutMD5(p)
  BY <1>13, RequestType DEF PutMD5
<1>14. CASE Finish(p)
  BY <1>14 DEF Finish
<1>15. CASE Unlock(p)
  BY <1>15, RequestType DEF Unlock, S3Unlock
<1>16. CASE DynamoDBUnlock(p)
  BY <1>16, RequestType DEF DynamoDBUnlock, AfterUnlock
<1>17. CASE DynamoDBUnlockDelete(p)
  BY <1>17, RequestType DEF DynamoDBUnlockDelete, AfterUnlock
<1>18. CASE Delete(p)
  BY <1>18, RequestType DEF Delete
<1>19. CASE DeleteMD5(p)
  BY <1>19, RequestType DEF DeleteMD5
<1> QED
  BY <1>4, <1>5, <1>6, <1>7, <1>8, <1>9, <1>10, <1>11, <1>12, <1>13, <1>14, <1>15, <1>16, <1>17,
     <1>18, <1>19 DEF Step

\* ReadsAreFresh: what a command has read and found equal to the digest is the state, as
\* long as no request fails and everyone has the table.
THEOREM ReadsAreCurrent == Spec => []ReadsAreFresh
<1>1. Init => FreshInv
  BY DEF Init, FreshInv
<1>2. LockInv /\ FreshInv /\ [Next]_vars => FreshInv'
  <2> SUFFICES ASSUME LockInv, FreshInv, [Next]_vars PROVE FreshInv'
    OBVIOUS
  <2>1. ASSUME NEW p \in Proc, Step(p) PROVE FreshInv'
    BY <2>1, FreshPreserved
  <2>2. CASE UNCHANGED vars
    BY <2>2 DEF vars, store, locks, mem, FreshInv, HasTable
  <2> QED
    BY <2>1, <2>2 DEF Next
<1>3. FreshInv => ReadsAreFresh
  BY DEF FreshInv, ReadsAreFresh
<1> QED
  BY <1>1, <1>2, <1>3, LockInvariant, PTL DEF Spec
=============================================================================
