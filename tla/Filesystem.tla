----------------------------- MODULE Filesystem -----------------------------
(***************************************************************************)
(* The file-based state manager (internal/states/statemgr/filesystem.go),  *)
(* used by several processes on one state file, with the directory entry,  *)
(* the files behind it and their POSIX locks (internal/flock).             *)
(*                                                                         *)
(* A process runs one command: Lock, RefreshState, any calls of            *)
(* MutateState, WriteState and PersistState, Unlock.  It may crash at any  *)
(* moment; the operating system then releases its lock.  The manager's     *)
(* mutex makes the calls of one process a sequence; a call that touches    *)
(* the disk more than once is several steps.  A snapshot is the set of     *)
(* objects it tracks and its serial; lineages and -state-out are left out. *)
(***************************************************************************)
EXTENDS Naturals

CONSTANTS
    Procs,      \* the processes
    Objects,    \* the objects they may make
    Old,        \* the objects in the state file found at the start
    MaxFiles,   \* bound on the files created
    MaxSerial   \* bound on the writes of the state

ASSUME FilesystemAssumption ==
    /\ "nobody" \notin Procs
    /\ MaxFiles \in Nat /\ MaxSerial \in Nat \ {0}

VARIABLES
    dir,       \* the file at the path
    files,     \* the number of files created so far
    data,      \* the content of each file
    holder,    \* the process that holds the POSIX lock of each file
    backup,    \* the content of the file at backupPath
    pc,        \* what each process is doing
    fd,        \* stateFileOut
    created,   \* created
    file,      \* file
    readFile,  \* readFile
    backupFile, writtenBackup,
    made,      \* the objects each process has made
    work,      \* the objects in the state of each process's Core
    stored,    \* all objects of the snapshots that PersistState has written
    torn       \* the processes whose last write was cut short after the file was emptied

disk  == <<dir, files, data, holder, backup>>
mgr   == <<fd, created, file, readFile, backupFile, writtenBackup>>
ghost == <<made, work, stored, torn>>
vars  == <<disk, pc, mgr, ghost>>

NoFile   == 0
Original == 1
Files    == 1..(MaxFiles + 1)
Nobody   == "nobody"

\* A nil *statefile.File, an empty file; NewStateFile differs in its lineage.
Nil == [objs |-> {}, serial |-> 0]
Snapshots == [objs : SUBSET (Objects \union Old), serial : 0..MaxSerial]

\* What is in a file that has part of a snapshot, which statefile.Read rejects.
Partial == [objs |-> {}, serial |-> MaxSerial + 1]

\* The process holds the lock, as far as it knows.
Locked(p) == pc[p] \in {"locked", "ready", "backup", "truncate", "truncated"}

\* Each field has its type, and a process that thinks it holds the lock does.
TypeOK ==
    /\ dir \in {NoFile} \union Files
    /\ files \in 1..(MaxFiles + 1)
    /\ data \in [Files -> Snapshots \union {Partial}] /\ backup \in Snapshots
    /\ holder \in [Files -> {Nobody} \union Procs]
    /\ pc \in [Procs -> {"idle", "open", "flock", "locked", "ready", "backup", "truncate",
                         "truncated", "stat", "remove", "done"}]
    /\ fd \in [Procs -> {NoFile} \union Files]
    /\ created \in [Procs -> BOOLEAN] /\ writtenBackup \in [Procs -> BOOLEAN]
    /\ file \in [Procs -> Snapshots] /\ readFile \in [Procs -> Snapshots]
    /\ backupFile \in [Procs -> Snapshots]
    /\ made \in [Procs -> SUBSET Objects]
    /\ work \in [Procs -> SUBSET (Objects \union Old)]
    /\ stored \subseteq Objects \union Old
    /\ torn \subseteq Procs
    /\ \A p \in Procs : Locked(p) => fd[p] # NoFile /\ holder[fd[p]] = p

\* There is a state file with the Old objects, or none.
Init ==
    /\ dir \in {NoFile, Original} /\ files = 1
    /\ data = [f \in Files |-> IF f = dir THEN [objs |-> Old, serial |-> 1] ELSE Nil]
    /\ holder = [f \in Files |-> Nobody]
    /\ backup = Nil
    /\ pc = [p \in Procs |-> "idle"]
    /\ fd = [p \in Procs |-> NoFile]
    /\ created = [p \in Procs |-> FALSE]
    /\ file = [p \in Procs |-> Nil] /\ readFile = file /\ backupFile = file
    /\ writtenBackup = created
    /\ made = [p \in Procs |-> {}] /\ work = made
    /\ stored = {} /\ torn = {}

-----------------------------------------------------------------------------
At(p, label) == pc[p] = label
Goto(p, label) == pc' = [pc EXCEPT ![p] = label]
Set(f, p, v) == [f EXCEPT ![p] = v]

\* The process ends, and what it had in memory is gone.
End(p) ==
    /\ Goto(p, "done")
    /\ fd' = Set(fd, p, NoFile) /\ created' = Set(created, p, FALSE)
    /\ file' = Set(file, p, Nil) /\ readFile' = Set(readFile, p, Nil)
    /\ backupFile' = Set(backupFile, p, Nil) /\ writtenBackup' = Set(writtenBackup, p, FALSE)
    /\ work' = Set(work, p, {})

(***************************************************************************)
(* Lock.                                                                   *)
(***************************************************************************)
\* createStateFiles: Stat ...
Stat(p) ==
    /\ At(p, "idle")
    /\ created' = Set(created, p, dir = NoFile)
    /\ Goto(p, "open")
    /\ UNCHANGED <<disk, fd, file, readFile, backupFile, writtenBackup, ghost>>

\* ... and OpenFile with O_CREATE.
OpenFile(p) ==
    /\ At(p, "open")
    /\ IF dir = NoFile
       THEN files <= MaxFiles /\ files' = files + 1 /\ dir' = files + 1
       ELSE UNCHANGED <<files, dir>>
    /\ fd' = Set(fd, p, dir')
    /\ Goto(p, "flock")
    /\ UNCHANGED <<data, holder, backup, created, file, readFile, backupFile, writtenBackup, ghost>>

\* Fault: a lock held by another process is not noticed.
LockUnseen(p) ==
    /\ At(p, "flock")
    /\ holder' = Set(holder, fd[p], p)
    /\ backupFile' = Set(backupFile, p, data[fd[p]])
    /\ Goto(p, "locked")
    /\ UNCHANGED <<dir, files, data, backup, fd, created, file, readFile, writtenBackup, ghost>>

\* The lock is tried, again and again, on the file opened at first; then
\* prepareBackupFile reads that file.
Lock(p) ==
    /\ At(p, "flock") /\ holder[fd[p]] = Nobody /\ data[fd[p]] # Partial
    /\ holder' = Set(holder, fd[p], p)
    /\ backupFile' = Set(backupFile, p, data[fd[p]])
    /\ Goto(p, "locked")
    /\ UNCHANGED <<dir, files, data, backup, fd, created, file, readFile, writtenBackup, ghost>>

\* The time is up; or the lock is taken but prepareBackupFile cannot read the file, or
\* writeLockInfo fails: the command ends, and the operating system gives back the lock.
LockFails(p) ==
    /\ At(p, "flock")
    /\ End(p)
    /\ UNCHANGED <<disk, made, stored, torn>>

-----------------------------------------------------------------------------
(***************************************************************************)
(* The snapshot in memory.                                                 *)
(***************************************************************************)
\* refreshState reads the open file.
RefreshState(p) ==
    /\ At(p, "locked")
    /\ file' = Set(file, p, data[fd[p]]) /\ readFile' = Set(readFile, p, data[fd[p]])
    /\ work' = Set(work, p, data[fd[p]].objs)
    /\ Goto(p, "ready")
    /\ UNCHANGED <<disk, fd, created, backupFile, writtenBackup, made, stored, torn>>

\* MutateState and WriteState refresh first if they have read nothing yet.
Base(p) == IF readFile[p] = Nil THEN data[fd[p]] ELSE file[p]
BaseRead(p) == IF readFile[p] = Nil THEN data[fd[p]] ELSE readFile[p]

\* That fails if an earlier write has left part of a snapshot.
Readable(p) == readFile[p] # Nil \/ data[fd[p]] # Partial

\* Fault: readFile and file share the state that MutateState changes.
MutateStateShared(p) ==
    /\ At(p, "ready") /\ Readable(p)
    /\ \E o \in Objects \ UNION {made[q] : q \in Procs} :
          /\ made' = Set(made, p, made[p] \union {o})
          /\ work' = Set(work, p, work[p] \union {o})
          /\ file' = Set(file, p, [Base(p) EXCEPT !.objs = @ \union {o}])
          /\ readFile' = Set(readFile, p, [BaseRead(p) EXCEPT !.objs = @ \union {o}])
    /\ UNCHANGED <<disk, pc, fd, created, backupFile, writtenBackup, stored, torn>>

\* Core has made an object, and the StateHook records it if it can.
MutateState(p) ==
    /\ At(p, "ready")
    /\ \E o \in Objects \ UNION {made[q] : q \in Procs} :
          /\ made' = Set(made, p, made[p] \union {o})
          /\ work' = Set(work, p, work[p] \union {o})
          /\ file' = IF Readable(p) THEN Set(file, p, [Base(p) EXCEPT !.objs = @ \union {o}])
                                    ELSE file
    /\ readFile' = IF Readable(p) THEN Set(readFile, p, BaseRead(p)) ELSE readFile
    /\ UNCHANGED <<disk, pc, fd, created, backupFile, writtenBackup, stored, torn>>

\* Fault: only what this command has made is written.
WriteStateOwn(p) ==
    /\ At(p, "ready") /\ Readable(p)
    /\ file' = Set(file, p, [Base(p) EXCEPT !.objs = made[p]])
    /\ readFile' = Set(readFile, p, BaseRead(p))
    /\ UNCHANGED <<disk, pc, fd, created, backupFile, writtenBackup, ghost>>

\* The state Core returns at the end.
WriteState(p) ==
    /\ At(p, "ready") /\ Readable(p)
    /\ file' = Set(file, p, [Base(p) EXCEPT !.objs = work[p]])
    /\ readFile' = Set(readFile, p, BaseRead(p))
    /\ UNCHANGED <<disk, pc, fd, created, backupFile, writtenBackup, ghost>>

-----------------------------------------------------------------------------
(***************************************************************************)
(* PersistState.                                                           *)
(***************************************************************************)
NeedsBackup(p) ==
    /\ ~writtenBackup[p] /\ backupFile[p] # Nil
    /\ file[p].objs # backupFile[p].objs

\* Fault: the file is emptied without a backup.
PersistClobbers(p) ==
    /\ At(p, "ready") /\ file[p].serial < MaxSerial
    /\ Goto(p, "truncate")
    /\ UNCHANGED <<disk, mgr, ghost>>

\* The first write of a changed state creates the backup ...
PersistState(p) ==
    /\ At(p, "ready") /\ file[p].serial < MaxSerial
    /\ IF NeedsBackup(p) THEN Goto(p, "backup") /\ backup' = Nil
                         ELSE Goto(p, "truncate") /\ UNCHANGED backup
    /\ UNCHANGED <<dir, files, data, holder, mgr, ghost>>

\* ... and fills it.
WriteBackup(p) ==
    /\ At(p, "backup")
    /\ backup' = backupFile[p]
    /\ writtenBackup' = Set(writtenBackup, p, TRUE)
    /\ Goto(p, "truncate")
    /\ UNCHANGED <<dir, files, data, holder, fd, created, file, readFile, backupFile, ghost>>

Truncate(p) ==
    /\ At(p, "truncate")
    /\ data' = Set(data, fd[p], Nil)
    /\ Goto(p, "truncated")
    /\ UNCHANGED <<dir, files, holder, backup, mgr, ghost>>

\* The serial grows if the state differs from the one read.
NextSnapshot(p) ==
    [file[p] EXCEPT !.serial =
        IF readFile[p] = Nil \/ file[p].objs # readFile[p].objs THEN @ + 1 ELSE @]

\* A part of the new snapshot is in the file.
WritePart(p) ==
    /\ At(p, "truncated")
    /\ data' = Set(data, fd[p], Partial)
    /\ UNCHANGED <<dir, files, holder, backup, pc, mgr, ghost>>

Write(p) ==
    /\ At(p, "truncated")
    /\ file' = Set(file, p, NextSnapshot(p))
    /\ data' = Set(data, fd[p], NextSnapshot(p))
    /\ stored' = stored \union file[p].objs
    /\ torn' = torn \ {p}
    /\ Goto(p, "ready")
    /\ UNCHANGED <<dir, files, holder, backup, fd, created, readFile, backupFile, writtenBackup>>
    /\ UNCHANGED <<made, work>>

\* PersistState fails at the backup, or at the file: then the serial has been raised
\* already.  After an intermediate snapshot the command goes on, and writes again.
WriteFails(p) ==
    /\ \/ pc[p] \in {"backup", "truncate"} /\ UNCHANGED <<file, torn>>
       \/ /\ At(p, "truncated")
          /\ file' = Set(file, p, NextSnapshot(p)) /\ torn' = torn \union {p}
    /\ Goto(p, "ready")
    /\ UNCHANGED <<disk, fd, created, readFile, backupFile, writtenBackup, made, work, stored>>

-----------------------------------------------------------------------------
(***************************************************************************)
(* Unlock, and the end of the process.                                     *)
(***************************************************************************)
\* The lock is released, the file closed, ...
Unlock(p) ==
    /\ At(p, "ready")
    /\ holder' = Set(holder, fd[p], Nobody)
    /\ fd' = Set(fd, p, NoFile)
    /\ Goto(p, "stat")
    /\ UNCHANGED <<dir, files, data, backup, created, file, readFile, backupFile, writtenBackup, ghost>>

\* ... and the path looked up again: an empty file this process has created ...
StatEmpty(p) ==
    /\ At(p, "stat")
    /\ IF dir # NoFile /\ created[p] /\ data[dir] = Nil
       THEN Goto(p, "remove") /\ UNCHANGED <<mgr, work>>
       ELSE End(p)
    /\ UNCHANGED <<disk, made, stored, torn>>

\* ... is removed.
Remove(p) ==
    /\ At(p, "remove")
    /\ dir' = NoFile
    /\ End(p)
    /\ UNCHANGED <<files, data, holder, backup, made, stored, torn>>

Crash(p) ==
    /\ ~At(p, "done")
    /\ holder' = IF Locked(p) THEN Set(holder, fd[p], Nobody) ELSE holder
    /\ torn' = IF At(p, "truncated") THEN torn \union {p} ELSE torn
    /\ End(p)
    /\ UNCHANGED <<dir, files, data, backup, made, stored>>

-----------------------------------------------------------------------------
Step(p) ==
    \/ Stat(p) \/ OpenFile(p) \/ Lock(p) \/ LockFails(p)
    \/ RefreshState(p) \/ MutateState(p) \/ WriteState(p)
    \/ PersistState(p) \/ WriteBackup(p) \/ Truncate(p)
    \/ WritePart(p) \/ Write(p) \/ WriteFails(p)
    \/ Unlock(p) \/ StatEmpty(p) \/ Remove(p) \/ Crash(p)

Next == \E p \in Procs : Step(p)

Spec == Init /\ [][Next]_vars

-----------------------------------------------------------------------------
\* A process has left a file that it emptied and did not fill again.
Abandoned == \E p \in torn : ~Locked(p)

\* The process is writing the file, or still has what it failed to write.
Rewriting(p) == At(p, "truncated") \/ (p \in torn /\ Locked(p))

\* The object is in the state file, or in the snapshot that is to be written to it.
OnRecord(o) ==
    \/ dir # NoFile /\ o \in data[dir].objs
    \/ \E p \in Procs : Rewriting(p) /\ fd[p] = dir /\ o \in file[p].objs

\* Objects once stored by PersistState in a state file that was there from the
\* start stay on record, whatever other processes do, wherever they crash and however
\* often a write fails, as long as nobody gives up in the middle of writing the file
\* itself (Lock, refreshState, persistState).
RecordSurvives == dir = Original /\ ~Abandoned => \A o \in stored : OnRecord(o)

\* The same for a state file that the processes created themselves
\* (createStateFiles, Unlock).
CreatedFileKept == ~Abandoned => \A o \in stored : OnRecord(o)

\* Before a different state is written over a snapshot, the snapshot found by
\* Lock is in the backup file (persistState).
BackupFirst ==
    dir = Original =>
        \A p \in Procs :
            At(p, "truncated") /\ backupFile[p] # Nil /\ file[p].objs # backupFile[p].objs
                => backup = backupFile[p]

\* A stored snapshot that differs from the one the command has read has a
\* higher serial (persistState; refreshState copies what MutateState changes).
SerialCoversChange ==
    \A p \in Procs : At(p, "ready") /\ p \notin torn /\ backupFile[p] # Nil
                       /\ data[fd[p]].objs # backupFile[p].objs
        => data[fd[p]].serial > backupFile[p].serial

\* The file found at the start, with its POSIX lock, as a place to keep states in.  No
\* content stands for a removed one: who empties the file has to hold the lock.
Store == INSTANCE StateStore WITH
    Client <- Procs, Gone <- [none |-> TRUE], holder <- holder[Original], content <- data[Original]

\* The file is a StateStore: at most one process has its lock, gets it only when it is free,
\* and loses it by Unlock or by its end; only that process empties the file or writes to it.
ImplementsStore == Store!Spec
=============================================================================
