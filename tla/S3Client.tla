------------------------------ MODULE S3Client ------------------------------
(***************************************************************************)
(* The client of the s3 backend (internal/backend/remote-state/s3), for    *)
(* one state and several commands.  The lock is an object next to the      *)
(* state ("lockfile"), an item of a DynamoDB table, or both, the first     *)
(* before the second; the digest of the state is another item of the       *)
(* table.  Each request to AWS is a step: it may fail, or take effect and  *)
(* yet be reported as failed.  S3 may answer with an older version of the  *)
(* object, which is what the digest is for.                                *)
(*                                                                         *)
(* A version of the state is a number and stands for its digest too; 0 is  *)
(* none.  The ID of a lock is the process that asked for it; every process *)
(* is one command and asks once.                                           *)
(***************************************************************************)
EXTENDS Naturals

CONSTANTS
    Proc,         \* the commands
    Left,         \* the ID of a lock left behind by an earlier command
    NoProc,       \* no lock
    Modes,        \* how the commands may be configured, each a function on Proc
    MaxVersions,  \* bound on the versions written
    MaxFaults     \* bound on the requests that fail and the commands that die

Mechanism == {"s3", "dynamo"}

ASSUME S3ClientAssumption ==
    /\ Left \notin Proc /\ NoProc \notin Proc /\ Left # NoProc
    /\ Modes \subseteq [Proc -> (SUBSET Mechanism) \ {{}}]
    /\ \A f \in Modes : \A p, q \in Proc : f[p] \intersect f[q] # {}
    /\ MaxVersions \in Nat \ {0} /\ MaxFaults \in Nat

VARIABLES
    object, older,   \* the state in the bucket; versions S3 may still return
    digest,          \* the digest in the table
    lockfile, item,  \* the owners of the two locks
    mode,            \* useLockfile and ddbTable, per command
    pc, op,          \* what each command is doing
    id,              \* the lock ID it gives to Unlock
    read,            \* the version that Get has read
    unverified,      \* there was no digest to compare it with
    versions, faults

store == <<object, older, digest>>
locks == <<lockfile, item>>
mem   == <<op, id, read, unverified>>
vars  == <<store, locks, mode, pc, mem, versions, faults>>

Owner == Proc \union {Left, NoProc}

\* Every variable has its type: locks belong to commands that asked for them, and the
\* bucket and the table hold versions that Put has written (S3 keeps none of the others).
TypeOK ==
    /\ object \in 0..versions /\ older \subseteq 0..versions /\ digest \in 0..versions
    /\ lockfile \in Owner /\ item \in Owner
    /\ mode \in Modes
    /\ pc \in [Proc -> {"idle", "lock", "dynamo", "rollback", "rollbackDelete", "get", "md5",
                        "loaded", "putMD5", "unlock", "unlockDelete", "dynUnlock",
                        "dynUnlockDelete", "delete", "deleteMD5", "done", "dead"}]
    /\ op \in [Proc -> {"none", "write", "init", "remove", "force", "quit"}]
    /\ id \in [Proc -> Owner]
    /\ read \in [Proc -> 0..MaxVersions]
    /\ unverified \in [Proc -> BOOLEAN]
    /\ versions \in 0..MaxVersions /\ faults \in 0..MaxFaults

\* A state that exists has its digest, if it was written by a client with a table.
Init ==
    /\ mode \in Modes
    /\ object \in {0, 1} /\ older = {} /\ digest \in {0, object} /\ versions = object
    /\ lockfile \in {Left, NoProc} /\ item \in {Left, NoProc}
    /\ pc = [p \in Proc |-> "idle"] /\ op = [p \in Proc |-> "none"]
    /\ id = [p \in Proc |-> NoProc]
    /\ read = [p \in Proc |-> 0] /\ unverified = [p \in Proc |-> FALSE]
    /\ faults = 0

-----------------------------------------------------------------------------
UsesS3(p)   == "s3" \in mode[p]
HasTable(p) == "dynamo" \in mode[p]

Goto(p, label) == pc' = [pc EXCEPT ![p] = label]
Set(f, p, v)   == [f EXCEPT ![p] = v]

\* The outcome of a request: whether it has its effect and what is reported.
Outcome == {o \in [effect : BOOLEAN, ok : BOOLEAN] : o.ok => o.effect}
Request(o) ==
    /\ o.ok \/ faults < MaxFaults
    /\ faults' = IF o.ok THEN faults ELSE faults + 1

-----------------------------------------------------------------------------
(***************************************************************************)
(* What the commands do: write the state, create it if the workspace is    *)
(* not listed (StateMgr), remove the workspace, or force-unlock.           *)
(***************************************************************************)
Begin(p) ==
    /\ pc[p] = "idle"
    /\ \/ op' = Set(op, p, "write")
       \/ op' = Set(op, p, "init") /\ object = 0
       \/ op' = Set(op, p, "remove") /\ object # 0
    /\ id' = Set(id, p, p)
    /\ Goto(p, "lock")
    /\ UNCHANGED <<store, locks, mode, read, unverified, versions, faults>>

\* An operator knows that the owner has ended.  The lockfile is deleted whoever owns
\* it by then (see Unlock), so without a table operators have to agree among themselves.
ForceUnlock(p, q) ==
    /\ pc[p] = "idle" /\ q \in {lockfile, item} \ {NoProc, p}
    /\ q \in Proc => pc[q] \in {"done", "dead"}
    /\ \/ \A x \in Proc : HasTable(x)
       \/ \A x \in Proc : id[x] = q => pc[x] \in {"done", "dead"}
    /\ op' = Set(op, p, "force") /\ id' = Set(id, p, q)
    /\ Goto(p, "unlock")
    /\ UNCHANGED <<store, locks, mode, read, unverified, versions, faults>>

Die(p) ==
    /\ pc[p] \notin {"idle", "done", "dead"} /\ faults < MaxFaults
    /\ Goto(p, "dead") /\ faults' = faults + 1
    /\ UNCHANGED <<store, locks, mode, mem, versions>>

-----------------------------------------------------------------------------
(***************************************************************************)
(* Lock, called again by LockWithContext while the error tells who has the *)
(* lock and the timeout has not passed; StateMgr calls it once.            *)
(***************************************************************************)

\* The lock cannot be taken: LockWithContext tries again if the owner could be read.
GiveUpOrRetry(p) == Goto(p, "done") \/ (op[p] # "init" /\ Goto(p, "lock"))

\* s3Lock: PutObject with IfNoneMatch.
S3Lock(p) ==
    /\ pc[p] = "lock"
    /\ \/ ~UsesS3(p) /\ Goto(p, "dynamo") /\ UNCHANGED <<lockfile, faults>>
       \/ /\ UsesS3(p) /\ lockfile = NoProc
          /\ \E o \in Outcome :
              /\ Request(o)
              /\ lockfile' = IF o.effect THEN p ELSE lockfile
              /\ IF o.ok THEN Goto(p, "dynamo") ELSE GiveUpOrRetry(p)
       \/ UsesS3(p) /\ lockfile # NoProc /\ GiveUpOrRetry(p) /\ UNCHANGED <<lockfile, faults>>
    /\ UNCHANGED <<store, item, mode, mem, versions>>

\* Fault: the lockfile is kept when the item cannot be had.
DynamoDBLockKeepsFile(p) ==
    /\ pc[p] = "dynamo"
    /\ IF HasTable(p) /\ item # NoProc
       THEN Goto(p, "done") /\ UNCHANGED item
       ELSE Goto(p, "get") /\ item' = IF HasTable(p) THEN p ELSE item
    /\ UNCHANGED <<store, lockfile, mode, mem, versions, faults>>

\* dynamoDBLock: PutItem if there is none.  If it fails Lock releases the lockfile.
DynamoDBLock(p) ==
    /\ pc[p] = "dynamo"
    /\ \/ ~HasTable(p) /\ Goto(p, "get") /\ UNCHANGED <<item, faults>>
       \/ /\ HasTable(p) /\ item = NoProc
          /\ \E o \in Outcome :
              /\ Request(o)
              /\ item' = IF o.effect THEN p ELSE item
              /\ Goto(p, IF o.ok THEN "get" ELSE "rollback")
       \/ HasTable(p) /\ item # NoProc /\ Goto(p, "rollback") /\ UNCHANGED <<item, faults>>
    /\ UNCHANGED <<store, lockfile, mode, mem, versions>>

\* s3Unlock: the owner is read and compared, then the object deleted; `Then` is how the
\* caller goes on.  In Lock an error is only logged.
S3Unlock(p, at, atDelete, Then) ==
    \/ /\ pc[p] = at
       /\ \/ ~UsesS3(p) /\ Then /\ UNCHANGED faults
          \/ /\ UsesS3(p)
             /\ \E o \in Outcome :
                 /\ Request(o)
                 /\ IF o.ok /\ lockfile = id[p] THEN Goto(p, atDelete) ELSE Then
       /\ UNCHANGED lockfile
    \/ /\ pc[p] = atDelete
       /\ \E o \in Outcome :
           /\ Request(o)
           /\ lockfile' = IF o.effect THEN NoProc ELSE lockfile
       /\ Then

Rollback(p) ==
    /\ S3Unlock(p, "rollback", "rollbackDelete", GiveUpOrRetry(p))
    /\ UNCHANGED <<store, item, mode, mem, versions>>

-----------------------------------------------------------------------------
(***************************************************************************)
(* Get.                                                                    *)
(***************************************************************************)

\* A Get that fails ends the command, a removal included.
Quit(p) == op' = Set(op, p, "quit") /\ Goto(p, "unlock")

\* get: HeadObject and GetObject, as one request; the version is the one GetObject returns.
Get(p) ==
    /\ pc[p] = "get"
    /\ \E o \in Outcome :
        /\ Request(o)
        /\ IF o.ok THEN /\ \E v \in {object} \union older : read' = Set(read, p, v)
                        /\ Goto(p, "md5") /\ UNCHANGED op
                   ELSE Quit(p) /\ UNCHANGED read
    /\ UNCHANGED <<store, locks, mode, id, unverified, versions>>

\* What the commands do with the state they have read: StateMgr writes one if there is
\* none, a workspace with resources is not removed without -force.
Loaded(p) ==
    \/ op[p] = "write" /\ Goto(p, "loaded") /\ UNCHANGED op
    \/ op[p] = "init" /\ Goto(p, IF read[p] = 0 THEN "loaded" ELSE "unlock") /\ UNCHANGED op
    \/ op[p] = "remove" /\ Goto(p, "unlock") /\ UNCHANGED op
    \/ op[p] = "remove" /\ read[p] # 0 /\ Quit(p)

\* Fault: at the deadline the state is taken as it is.
GetMD5GivesIn(p) ==
    /\ pc[p] = "md5"
    /\ Loaded(p)
    /\ UNCHANGED <<store, locks, mode, id, read, unverified, versions, faults>>

\* getMD5 and the comparison.  A digest that is missing or cannot be read is passed
\* over; one that differs makes Get try again until its deadline, and then fail.
GetMD5(p) ==
    /\ pc[p] = "md5"
    /\ \E o \in Outcome :
        /\ Request(o) /\ (HasTable(p) \/ o.ok)
        /\ LET known == HasTable(p) /\ o.ok /\ digest # 0 IN
           /\ unverified' = Set(unverified, p, ~known)
           /\ IF known /\ digest # read[p]
              THEN (Goto(p, "get") /\ UNCHANGED op) \/ Quit(p)
              ELSE Loaded(p)
    /\ UNCHANGED <<store, locks, mode, id, read, versions>>

-----------------------------------------------------------------------------
(***************************************************************************)
(* Put and Delete.                                                         *)
(***************************************************************************)

\* Fault: the last write is made when Unlock has been called.
PutLate(p) ==
    /\ pc[p] = "unlock" /\ versions < MaxVersions
    /\ versions' = versions + 1
    /\ object' = versions' /\ older' = older \union {object}
    /\ Goto(p, "unlock")
    /\ UNCHANGED <<digest, locks, mode, mem, faults>>

\* PutObject.  After an error StateMgr gives up; an operation may write again.
Put(p) ==
    /\ pc[p] = "loaded" /\ op[p] # "quit" /\ versions < MaxVersions
    /\ versions' = versions + 1
    /\ \E o \in Outcome :
        /\ Request(o)
        /\ object' = IF o.effect THEN versions' ELSE object
        /\ older' = IF o.effect THEN older \union {object} ELSE older
        /\ Goto(p, IF o.ok THEN "putMD5" ELSE "loaded")
        /\ op' = IF op[p] = "init" /\ ~o.ok THEN Set(op, p, "quit") ELSE op
    /\ read' = Set(read, p, object')
    /\ UNCHANGED <<digest, locks, mode, id, unverified>>

\* Fault: the digest is stored under the number of the next state.
PutMD5Ahead(p) ==
    /\ pc[p] = "putMD5"
    /\ digest' = IF HasTable(p) THEN read[p] + 1 ELSE digest
    /\ Goto(p, IF op[p] = "init" THEN "unlock" ELSE "loaded")
    /\ UNCHANGED <<object, older, locks, mode, mem, versions, faults>>

\* putMD5 logs an error of PutItem and returns nil, so Put succeeds.
PutMD5(p) ==
    /\ pc[p] = "putMD5"
    /\ \E o \in Outcome :
        /\ Request(o) /\ (HasTable(p) \/ o.ok)
        /\ digest' = IF HasTable(p) /\ o.effect THEN read[p] ELSE digest
    /\ Goto(p, IF op[p] = "init" THEN "unlock" ELSE "loaded")
    /\ UNCHANGED <<object, older, locks, mode, mem, versions>>

Finish(p) ==
    /\ pc[p] = "loaded" /\ op[p] \in {"write", "quit"}
    /\ Goto(p, "unlock")
    /\ UNCHANGED <<store, locks, mode, mem, versions, faults>>

\* DeleteWorkspace, after the command has released its lock.
Delete(p) ==
    /\ pc[p] = "delete"
    /\ \E o \in Outcome :
        /\ Request(o)
        /\ object' = IF o.effect THEN 0 ELSE object
        /\ older' = IF o.effect THEN older \union {object} ELSE older
        /\ Goto(p, IF o.ok THEN "deleteMD5" ELSE "done")
    /\ UNCHANGED <<digest, locks, mode, mem, versions>>

DeleteMD5(p) ==
    /\ pc[p] = "deleteMD5"
    /\ \E o \in Outcome :
        /\ Request(o) /\ (HasTable(p) \/ o.ok)
        /\ digest' = IF HasTable(p) /\ o.effect THEN 0 ELSE digest
    /\ Goto(p, "done")
    /\ UNCHANGED <<object, older, locks, mode, mem, versions>>

-----------------------------------------------------------------------------
(***************************************************************************)
(* Unlock: both locks are tried, whatever happens to the first.            *)
(***************************************************************************)
Unlock(p) ==
    /\ S3Unlock(p, "unlock", "unlockDelete", Goto(p, "dynUnlock"))
    /\ UNCHANGED <<store, item, mode, mem, versions>>

AfterUnlock(p) == IF op[p] = "remove" THEN "delete" ELSE "done"

\* dynamoDBUnlock: the owner is read and compared ...
DynamoDBUnlock(p) ==
    /\ pc[p] = "dynUnlock"
    /\ \/ ~HasTable(p) /\ Goto(p, AfterUnlock(p)) /\ UNCHANGED faults
       \/ /\ HasTable(p)
          /\ \E o \in Outcome :
              /\ Request(o)
              /\ Goto(p, IF o.ok /\ item = id[p] THEN "dynUnlockDelete" ELSE AfterUnlock(p))
    /\ UNCHANGED <<store, locks, mode, mem, versions>>

\* Fault: the item is deleted whoever owns it by then.
DynamoDBUnlockDeleteAny(p) ==
    /\ pc[p] = "dynUnlockDelete"
    /\ item' = NoProc
    /\ Goto(p, AfterUnlock(p))
    /\ UNCHANGED <<store, lockfile, mode, mem, versions, faults>>

\* ... and the item deleted on the condition that it is still the one that was read.
DynamoDBUnlockDelete(p) ==
    /\ pc[p] = "dynUnlockDelete"
    /\ \E o \in Outcome :
        /\ Request(o)
        /\ item' = IF o.effect /\ item = id[p] THEN NoProc ELSE item
    /\ Goto(p, AfterUnlock(p))
    /\ UNCHANGED <<store, lockfile, mode, mem, versions>>

-----------------------------------------------------------------------------
Step(p) ==
    \/ Begin(p) \/ (\E q \in Owner : ForceUnlock(p, q)) \/ Die(p)
    \/ S3Lock(p) \/ DynamoDBLock(p) \/ Rollback(p)
    \/ Get(p) \/ GetMD5(p) \/ Put(p) \/ PutMD5(p) \/ Finish(p)
    \/ Unlock(p) \/ DynamoDBUnlock(p) \/ DynamoDBUnlockDelete(p)
    \/ Delete(p) \/ DeleteMD5(p)

Next == \E p \in Proc : Step(p)

Spec == Init /\ [][Next]_vars

-----------------------------------------------------------------------------
(***************************************************************************)
(* Properties.                                                             *)
(***************************************************************************)

\* Lock has returned and Unlock has not been called.
Holds(p) == pc[p] \in {"get", "md5", "loaded", "putMD5"}
holder == IF \E p \in Proc : Holds(p) THEN CHOOSE p \in Proc : Holds(p) ELSE NoProc

\* Seen from outside (the lock from the return of Lock to the call of Unlock, the
\* object as the content) the client is a state store: whatever mechanisms the
\* commands are configured with, as long as any two have one in common, whatever
\* requests fail or commands die, at most one has the lock and only that one writes.
Store == INSTANCE StateStore WITH
    Client <- Proc, Nobody <- NoProc, Gone <- 0, holder <- holder, content <- object

ImplementsStore == Store!Spec

\* A command that works under the lock finds itself in the table until it unlocks, also
\* if others are unlocking, by force or not: dynamoDBUnlock deletes on a condition.  The
\* lockfile is deleted without one; it is the holder's as long as no two force-unlocks
\* of one ID overlap.
HolderIsLocked ==
    \A p \in Proc : Holds(p) =>
        /\ HasTable(p) => item = p
        /\ UsesS3(p) /\ (\E q \in Proc : ~HasTable(q)) => lockfile = p

\* What a command has read and compared with the digest is the state, though S3 may
\* have answered with an older one: without failed requests and with a table everywhere,
\* Put and Delete keep the digest in step.  A removal goes past the lock.
ReadsAreFresh ==
    faults = 0 /\ (\A p \in Proc : HasTable(p)) =>
        \A p \in Proc : pc[p] = "loaded" /\ ~unverified[p] => read[p] = object \/ object = 0

\* A command that ended without an error of AWS leaves neither lock behind, also if it
\* got the first and not the second (Lock gives it back).
LocksReleased ==
    faults = 0 => \A p \in Proc : pc[p] = "done" => lockfile # p /\ item # p
=============================================================================
