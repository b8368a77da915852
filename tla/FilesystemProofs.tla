-------------------------- MODULE FilesystemProofs --------------------------
(***************************************************************************)
(* Proofs about Filesystem, for any set of processes and objects, any      *)
(* number of files and any bound on the writes.                            *)
(***************************************************************************)
EXTENDS Filesystem, TLAPS

Working == {"ready", "backup", "truncate", "truncated"}

\* What a process is about to write fits the bound, one that is to be locked has a file
\* open, and one that has just locked it has not failed yet and can read it.
Bounded ==
    \A p \in Procs :
        /\ pc[p] = "flock" => fd[p] # NoFile
        /\ pc[p] \in {"backup", "truncate", "truncated"} => file[p].serial < MaxSerial
        /\ pc[p] \in {"idle", "open", "flock", "locked"} => p \notin torn
        /\ pc[p] = "locked" => data[fd[p]] # Partial

\* As long as the file found at the start has its name, nobody has opened
\* another one.
OneFile == dir = Original => \A p \in Procs : fd[p] \in {NoFile, Original}

\* The objects stored are in that file, or in what its writer has in memory.
Kept ==
    dir = Original /\ ~Abandoned =>
        /\ \A p \in Procs : pc[p] \in Working =>
              /\ stored \subseteq file[p].objs /\ file[p].objs = work[p]
              /\ file[p].serial > 0 /\ readFile[p].serial > 0
        /\ \/ stored \subseteq data[Original].objs /\ data[Original].serial > 0
           \/ \E p \in Procs : Rewriting(p)

\* The backup file holds the snapshot that its writer found.
BackedUp ==
    \A p \in Procs :
        /\ pc[p] \in {"idle", "open", "flock", "locked"} => ~writtenBackup[p]
        /\ dir = Original /\ Locked(p) /\ writtenBackup[p] => backup = backupFile[p]
        /\ pc[p] \in {"truncate", "truncated"} =>
              writtenBackup[p] \/ backupFile[p] = Nil \/ file[p].objs = backupFile[p].objs

\* The snapshot read is the one that Lock found, and serials only grow.
Counted ==
    \A p \in Procs : backupFile[p] # Nil =>
        /\ pc[p] = "locked" => data[fd[p]] = backupFile[p]
        /\ pc[p] \in Working =>
              readFile[p] = backupFile[p] /\ file[p].serial >= backupFile[p].serial
        /\ pc[p] \in {"ready", "backup", "truncate"} /\ p \notin torn
              /\ data[fd[p]].objs # backupFile[p].objs
              => data[fd[p]].serial > backupFile[p].serial

IInv == TypeOK /\ Bounded /\ OneFile /\ Kept /\ BackedUp /\ Counted

-----------------------------------------------------------------------------
(***************************************************************************)
(* Every action preserves the invariant.                                   *)
(***************************************************************************)
USE FilesystemAssumption
    DEF vars, disk, mgr, ghost, NoFile, Original, Files, Nobody, Locked,
        At, Goto, Set, Working

\* The empty file is a snapshot.
LEMMA NilType == Nil \in Snapshots
BY DEF Nil, Snapshots

\* The POSIX lock: two processes that think they hold the lock have opened
\* different files.
LEMMA Exclusion ==
    ASSUME TypeOK, NEW p \in Procs, NEW q \in Procs, p # q, Locked(p), Locked(q)
    PROVE  fd[p] # fd[q]
BY DEF TypeOK

\* What MutateState and WriteState start from is a snapshot.
LEMMA BaseType ==
    ASSUME TypeOK, NEW p \in Procs, At(p, "ready"), Readable(p)
    PROVE  Base(p) \in Snapshots /\ BaseRead(p) \in Snapshots
BY DEF TypeOK, Base, BaseRead, Readable

\* A process that does not hold the lock ends.
LEMMA EndInv ==
    ASSUME IInv, NEW p \in Procs, ~Locked(p), End(p), UNCHANGED <<disk, made, stored, torn>>
    PROVE  IInv'
<1> USE DEF End
<1>1. TypeOK'
    BY NilType DEF IInv, TypeOK
<1>2. Bounded' /\ OneFile'
    BY DEF IInv, TypeOK, Bounded, OneFile
<1>3. Kept'
    BY DEF IInv, TypeOK, Kept, Abandoned, Rewriting
<1>4. BackedUp'
    BY DEF IInv, TypeOK, BackedUp
<1>5. Counted'
    BY DEF IInv, TypeOK, Counted
<1> QED BY <1>1, <1>2, <1>3, <1>4, <1>5 DEF IInv

\* createStateFiles looks at the path.
LEMMA StatInv ==
    ASSUME IInv, NEW p \in Procs, Stat(p) PROVE IInv'
<1> USE DEF Stat
<1>1. TypeOK'
    BY DEF IInv, TypeOK, Bounded
<1>2. Bounded' /\ OneFile'
    BY DEF IInv, TypeOK, Bounded, OneFile
<1>3. Kept'
    BY DEF IInv, TypeOK, OneFile, Kept, Abandoned, Rewriting
<1>4. BackedUp'
    BY DEF IInv, TypeOK, OneFile, BackedUp
<1>5. Counted'
    BY DEF IInv, TypeOK, Counted
<1> QED BY <1>1, <1>2, <1>3, <1>4, <1>5 DEF IInv

\* createStateFiles opens the file, or creates it.
LEMMA OpenFileInv ==
    ASSUME IInv, NEW p \in Procs, OpenFile(p) PROVE IInv'
<1> USE DEF OpenFile
<1>1. TypeOK'
  <2>1. dir' \in Files /\ files' \in 1..(MaxFiles + 1)
    BY DEF IInv, TypeOK
  <2>2. /\ fd' \in [Procs -> {NoFile} \union Files]
        /\ \A q \in Procs : Locked(q)' => Locked(q) /\ fd'[q] = fd[q]
    BY <2>1 DEF IInv, TypeOK
  <2> QED BY <2>1, <2>2 DEF IInv, TypeOK
<1>2. Bounded' /\ OneFile'
    BY DEF IInv, TypeOK, Bounded, OneFile
<1>3. Kept'
    BY DEF IInv, TypeOK, OneFile, Kept, Abandoned, Rewriting
<1>4. BackedUp'
    BY DEF IInv, TypeOK, OneFile, BackedUp
<1>5. Counted'
  <2>1. pc'[p] = "flock" /\ \A q \in Procs : q # p => fd'[q] = fd[q] /\ pc'[q] = pc[q]
    BY DEF IInv, TypeOK
  <2> QED BY <2>1 DEF IInv, Counted
<1> QED BY <1>1, <1>2, <1>3, <1>4, <1>5 DEF IInv

\* The lock is taken and the backup prepared.
LEMMA LockInv ==
    ASSUME IInv, NEW p \in Procs, Lock(p) PROVE IInv'
<1> USE DEF Lock
<1>1. TypeOK'
    BY DEF IInv, TypeOK, Bounded
<1>2. Bounded' /\ OneFile'
    BY DEF IInv, TypeOK, Bounded, OneFile
<1>3. Kept'
  <2>1. /\ UNCHANGED <<dir, data, stored, torn, file, readFile, work>> /\ pc[p] = "flock"
        /\ pc'[p] = "locked" /\ \A q \in Procs : q # p => pc'[q] = pc[q]
    BY DEF IInv, TypeOK
  <2>2. p \notin torn
    BY <2>1 DEF IInv, Bounded
  <2>3. Abandoned => Abandoned'
    BY <2>1, <2>2 DEF IInv, TypeOK, Abandoned
  <2>4. \A q \in Procs : Rewriting(q) => Rewriting(q)'
    BY <2>1, <2>2 DEF Rewriting
  <2> QED BY <2>1, <2>3, <2>4 DEF IInv, Kept
<1>4. BackedUp'
    BY DEF IInv, TypeOK, OneFile, BackedUp
<1>5. Counted'
    BY DEF IInv, TypeOK, Counted
<1> QED BY <1>1, <1>2, <1>3, <1>4, <1>5 DEF IInv

\* The lock is not to be had.
LEMMA LockFailsInv ==
    ASSUME IInv, NEW p \in Procs, LockFails(p) PROVE IInv'
BY EndInv DEF LockFails

\* The snapshot is read.
LEMMA RefreshStateInv ==
    ASSUME IInv, NEW p \in Procs, RefreshState(p) PROVE IInv'
<1> USE DEF RefreshState
<1>1. TypeOK'
    BY DEF IInv, TypeOK, Snapshots, Bounded
<1>2. Bounded' /\ OneFile'
    BY DEF IInv, TypeOK, Bounded, OneFile
<1>3. Kept'
  <2> SUFFICES ASSUME dir = Original, ~Abandoned' PROVE Kept'
    BY DEF Kept
  <2>1. /\ UNCHANGED <<data, stored, torn>> /\ pc[p] = "locked" /\ pc'[p] = "ready"
        /\ file'[p] = data[fd[p]] /\ readFile'[p] = data[fd[p]] /\ work'[p] = data[fd[p]].objs
        /\ \A q \in Procs : q # p => /\ pc'[q] = pc[q] /\ file'[q] = file[q]
                                     /\ readFile'[q] = readFile[q] /\ work'[q] = work[q]
    BY DEF IInv, TypeOK
  <2>2. p \notin torn
    BY <2>1 DEF IInv, Bounded
  <2>3. ~Abandoned
    BY <2>1, <2>2 DEF IInv, TypeOK, Abandoned
  <2>4. \A q \in Procs : Rewriting(q) => Rewriting(q)'
    BY <2>1, <2>2 DEF Rewriting
  <2>5. fd[p] = Original
    BY <2>1 DEF IInv, TypeOK, OneFile
  <2>6. \A q \in Procs : ~Rewriting(q)
    <3> SUFFICES ASSUME NEW q \in Procs, Rewriting(q) PROVE FALSE
      OBVIOUS
    <3>1. q # p /\ Locked(q) /\ Locked(p)
      BY <2>1, <2>2 DEF Rewriting
    <3>2. fd[q] = Original
      BY <3>1 DEF IInv, TypeOK, OneFile
    <3> QED BY <2>5, <3>1, <3>2, Exclusion DEF IInv
  <2>7. stored \subseteq data[Original].objs /\ data[Original].serial > 0
    BY <2>3, <2>6 DEF IInv, Kept
  <2> QED BY <2>1, <2>3, <2>5, <2>7 DEF IInv, Kept
<1>4. BackedUp'
    BY DEF IInv, TypeOK, OneFile, BackedUp
<1>5. Counted'
    BY DEF IInv, TypeOK, Snapshots, Counted
<1> QED BY <1>1, <1>2, <1>3, <1>4, <1>5 DEF IInv

\* An object is recorded.
LEMMA MutateRecorded ==
    ASSUME IInv, NEW p \in Procs, Readable(p), MutateState(p) PROVE IInv'
<1>o. PICK o \in Objects :
        /\ made' = Set(made, p, made[p] \union {o})
        /\ work' = Set(work, p, work[p] \union {o})
        /\ file' = Set(file, p, [Base(p) EXCEPT !.objs = @ \union {o}])
    BY DEF MutateState
<1> DEFINE next == [Base(p) EXCEPT !.objs = @ \union {o}]
<1>a. TypeOK /\ Base(p) \in Snapshots /\ BaseRead(p) \in Snapshots
    BY BaseType DEF IInv, MutateState
<1>b. next \in Snapshots /\ next.objs = Base(p).objs \union {o} /\ next.serial = Base(p).serial
    BY <1>a DEF Snapshots
<1>c. /\ made' = Set(made, p, made[p] \union {o}) /\ work' = Set(work, p, work[p] \union {o})
      /\ file' = Set(file, p, next) /\ readFile' = Set(readFile, p, BaseRead(p))
      /\ At(p, "ready")
      /\ UNCHANGED <<disk, pc, fd, created, backupFile, writtenBackup, stored, torn>>
    BY <1>o DEF MutateState
<1> HIDE DEF next
<1>1. TypeOK'
    BY <1>a, <1>b, <1>c DEF TypeOK
<1>2. Bounded' /\ OneFile'
    BY <1>b, <1>c DEF IInv, TypeOK, Bounded, OneFile
<1>3. Kept'
  <2> SUFFICES ASSUME dir = Original, ~Abandoned PROVE Kept'
    BY <1>c DEF Kept, Abandoned
  <2>1. Base(p) = file[p] /\ BaseRead(p) = readFile[p]
    <3>1. readFile[p].serial > 0
      BY <1>c DEF IInv, Kept
    <3>2. readFile[p] # Nil
      BY <3>1 DEF Nil
    <3> QED BY <3>2 DEF Base, BaseRead
  <2>2. /\ file'[p] = next /\ readFile'[p] = readFile[p] /\ work'[p] = work[p] \union {o}
        /\ \A q \in Procs : q # p =>
              file'[q] = file[q] /\ readFile'[q] = readFile[q] /\ work'[q] = work[q]
    BY <1>a, <1>c, <2>1 DEF TypeOK
  <2>3. /\ stored \subseteq next.objs /\ next.objs = work[p] \union {o}
        /\ next.serial > 0 /\ readFile[p].serial > 0
    BY <1>b, <1>c, <2>1 DEF IInv, Kept
  <2>4. \A q \in Procs : Rewriting(q) => Rewriting(q)'
    BY <1>c DEF Rewriting
  <2> QED BY <1>c, <2>2, <2>3, <2>4 DEF IInv, Kept
<1>4. BackedUp'
    BY <1>c DEF IInv, TypeOK, OneFile, BackedUp
<1>5. Counted'
    BY <1>b, <1>c DEF IInv, TypeOK, Counted, Base, BaseRead
<1> QED BY <1>1, <1>2, <1>3, <1>4, <1>5 DEF IInv

\* An object is made; it is recorded unless the file cannot be read.
LEMMA MutateStateInv ==
    ASSUME IInv, NEW p \in Procs, MutateState(p) PROVE IInv'
<1>1. CASE Readable(p)
    BY <1>1, MutateRecorded
<1>2. CASE ~Readable(p)
  <2>o. PICK o \in Objects :
          made' = Set(made, p, made[p] \union {o}) /\ work' = Set(work, p, work[p] \union {o})
    BY DEF MutateState
  <2>a. At(p, "ready") /\ UNCHANGED <<disk, pc, mgr, stored, torn>>
    BY <1>2 DEF MutateState
  <2>b. readFile[p] = Nil
    BY <1>2 DEF Readable
  <2>1. TypeOK'
    BY <2>o, <2>a DEF IInv, TypeOK
  <2>2. Bounded' /\ OneFile'
    BY <2>a DEF IInv, Bounded, OneFile
  <2>3. Kept'
    <3> SUFFICES ASSUME dir = Original, ~Abandoned PROVE FALSE
      BY <2>a DEF Kept, Abandoned
    <3> QED BY <2>a, <2>b DEF IInv, Kept, Nil
  <2>4. BackedUp' /\ Counted'
    BY <2>a DEF IInv, BackedUp, Counted
  <2> QED BY <2>1, <2>2, <2>3, <2>4 DEF IInv
<1> QED BY <1>1, <1>2

\* Core's state is taken over.
LEMMA WriteStateInv ==
    ASSUME IInv, NEW p \in Procs, WriteState(p) PROVE IInv'
<1> USE DEF WriteState
<1> TypeOK /\ Base(p) \in Snapshots /\ BaseRead(p) \in Snapshots
    BY BaseType DEF IInv
<1>1. TypeOK'
    BY DEF TypeOK, Snapshots
<1>2. Bounded' /\ OneFile'
    BY DEF IInv, TypeOK, Bounded, OneFile, Base, BaseRead
<1>3. Kept'
  <2> SUFFICES ASSUME dir = Original, ~Abandoned PROVE Kept'
    BY DEF Kept, Abandoned
  <2>1. readFile[p].serial > 0 /\ stored \subseteq work[p] /\ file[p].serial > 0
    BY DEF IInv, Kept
  <2>2. readFile[p] # Nil
    BY <2>1 DEF Nil
  <2>3. Base(p) = file[p] /\ BaseRead(p) = readFile[p]
    BY <2>2 DEF Base, BaseRead
  <2>4. /\ file'[p].objs = work[p] /\ file'[p].serial = file[p].serial
        /\ readFile'[p] = readFile[p]
        /\ \A q \in Procs : q # p => file'[q] = file[q] /\ readFile'[q] = readFile[q]
    BY <2>3 DEF TypeOK, Snapshots
  <2>5. \A q \in Procs : Rewriting(q) => Rewriting(q)'
    BY DEF Rewriting
  <2> QED BY <2>1, <2>4, <2>5 DEF IInv, Kept
<1>4. BackedUp'
    BY DEF IInv, TypeOK, OneFile, BackedUp
<1>5. Counted'
    BY DEF IInv, TypeOK, Counted, Base, BaseRead
<1> QED BY <1>1, <1>2, <1>3, <1>4, <1>5 DEF IInv

\* PersistState begins, with the backup if there is to be one.
LEMMA PersistStateInv ==
    ASSUME IInv, NEW p \in Procs, PersistState(p) PROVE IInv'
<1> USE DEF PersistState, NeedsBackup
<1>1. TypeOK'
  <2>1. backup' \in Snapshots
    BY NilType DEF IInv, TypeOK
  <2>2. /\ pc' \in [Procs -> {"idle", "open", "flock", "locked", "ready", "backup", "truncate",
                              "truncated", "stat", "remove", "done"}]
        /\ \A q \in Procs : Locked(q)' => Locked(q)
    BY DEF IInv, TypeOK
  <2> QED BY <2>1, <2>2 DEF IInv, TypeOK
<1>2. Bounded' /\ OneFile'
    BY DEF IInv, TypeOK, Bounded, OneFile
<1>3. Kept'
  <2>1. /\ UNCHANGED <<dir, data, stored, torn, file, readFile, work>> /\ pc[p] = "ready"
        /\ pc'[p] \in {"backup", "truncate"} /\ \A q \in Procs : q # p => pc'[q] = pc[q]
    BY DEF IInv, TypeOK
  <2>2. Abandoned => Abandoned'
    BY <2>1 DEF IInv, TypeOK, Abandoned
  <2>3. \A q \in Procs : Rewriting(q) => Rewriting(q)'
    BY <2>1 DEF Rewriting
  <2> QED BY <2>1, <2>2, <2>3 DEF IInv, Kept
<1>4. BackedUp'
    BY DEF IInv, TypeOK, OneFile, BackedUp
<1>5. Counted'
    BY DEF IInv, TypeOK, Counted
<1> QED BY <1>1, <1>2, <1>3, <1>4, <1>5 DEF IInv

\* The backup is written.
LEMMA WriteBackupInv ==
    ASSUME IInv, NEW p \in Procs, WriteBackup(p) PROVE IInv'
<1> USE DEF WriteBackup
<1>1. TypeOK'
    BY DEF IInv, TypeOK, Bounded
<1>2. Bounded' /\ OneFile'
    BY DEF IInv, TypeOK, Bounded, OneFile
<1>3. Kept'
    BY DEF IInv, TypeOK, OneFile, Kept, Abandoned, Rewriting
<1>4. BackedUp'
    BY DEF IInv, TypeOK, OneFile, BackedUp
<1>5. Counted'
    BY DEF IInv, TypeOK, Counted
<1> QED BY <1>1, <1>2, <1>3, <1>4, <1>5 DEF IInv

\* The state file is emptied.
LEMMA TruncateInv ==
    ASSUME IInv, NEW p \in Procs, Truncate(p) PROVE IInv'
<1> USE DEF Truncate
<1>1. TypeOK'
    BY NilType DEF IInv, TypeOK, Bounded
<1>2. Bounded' /\ OneFile'
    BY DEF IInv, TypeOK, Bounded, OneFile
<1>3. Kept'
    BY DEF IInv, TypeOK, OneFile, Kept, Abandoned, Rewriting
<1>4. BackedUp'
    BY DEF IInv, TypeOK, OneFile, BackedUp
<1>5. Counted'
  <2>1. \A q \in Procs : q # p /\ Locked(q) => fd[q] # fd[p]
    BY Exclusion DEF IInv
  <2>2. \A q \in Procs : q # p /\ Locked(q) => data'[fd[q]] = data[fd[q]]
    BY <2>1 DEF IInv, TypeOK
  <2>3. pc'[p] = "truncated" /\ \A q \in Procs : q # p => pc'[q] = pc[q]
    BY DEF IInv, TypeOK
  <2> QED BY <2>2, <2>3 DEF IInv, Counted
<1> QED BY <1>1, <1>2, <1>3, <1>4, <1>5 DEF IInv

\* A part of the snapshot is written.
LEMMA WritePartInv ==
    ASSUME IInv, NEW p \in Procs, WritePart(p) PROVE IInv'
<1> USE DEF WritePart
<1>0. \A q \in Procs : q # p /\ Locked(q) => data'[fd[q]] = data[fd[q]]
    BY Exclusion DEF IInv, TypeOK
<1>1. TypeOK'
    BY DEF IInv, TypeOK
<1>2. Bounded' /\ OneFile'
    BY <1>0 DEF IInv, TypeOK, Bounded, OneFile
<1>3. Kept'
    BY DEF IInv, TypeOK, OneFile, Kept, Abandoned, Rewriting
<1>4. BackedUp'
    BY DEF IInv, TypeOK, OneFile, BackedUp
<1>5. Counted'
    BY <1>0 DEF IInv, TypeOK, Counted
<1> QED BY <1>1, <1>2, <1>3, <1>4, <1>5 DEF IInv

\* The new snapshot is written.
LEMMA WriteInv ==
    ASSUME IInv, NEW p \in Procs, Write(p) PROVE IInv'
<1> USE DEF Write
<1> DEFINE next == NextSnapshot(p)
<1>a. file[p] \in Snapshots /\ file[p].serial < MaxSerial
    BY DEF IInv, TypeOK, Bounded
<1>b. /\ next \in Snapshots /\ next.objs = file[p].objs /\ next.serial >= file[p].serial
      /\ file[p].objs # readFile[p].objs => next.serial > file[p].serial
    BY <1>a DEF NextSnapshot, Snapshots
<1> file' = Set(file, p, next) /\ data' = Set(data, fd[p], next)
    OBVIOUS
<1> HIDE DEF next
<1>1. TypeOK'
    BY <1>a, <1>b DEF IInv, TypeOK, Snapshots
<1>2. Bounded' /\ OneFile'
    BY DEF IInv, TypeOK, Bounded, OneFile
<1>3. Kept'
    BY <1>a, <1>b DEF IInv, TypeOK, Snapshots, OneFile, Kept, Abandoned, Rewriting
<1>4. BackedUp'
    BY DEF IInv, TypeOK, OneFile, BackedUp
<1>5. Counted'
  <2>1. \A q \in Procs : q # p /\ Locked(q) => fd[q] # fd[p]
    BY Exclusion DEF IInv
  <2>2. data'[fd[p]] = next
    BY DEF IInv, TypeOK
  <2>3. ASSUME backupFile[p] # Nil
        PROVE  next.objs # backupFile[p].objs => next.serial > backupFile[p].serial
    BY <1>a, <1>b, <2>3 DEF IInv, TypeOK, Snapshots, Counted
  <2>4. /\ file'[p] = next /\ pc'[p] = "ready" /\ UNCHANGED <<fd, readFile, backupFile>>
        /\ \A q \in Procs : q # p => file'[q] = file[q] /\ pc'[q] = pc[q]
    BY DEF IInv, TypeOK
  <2>5. \A q \in Procs : q # p /\ Locked(q) => data'[fd[q]] = data[fd[q]]
    BY <2>1 DEF IInv, TypeOK
  <2> SUFFICES ASSUME NEW q \in Procs, backupFile[q] # Nil
               PROVE  /\ pc'[q] = "locked" => data'[fd[q]] = backupFile[q]
                      /\ pc'[q] \in Working => /\ readFile[q] = backupFile[q]
                                               /\ file'[q].serial >= backupFile[q].serial
                      /\ pc'[q] \in {"ready", "backup", "truncate"} /\ q \notin torn'
                            /\ data'[fd[q]].objs # backupFile[q].objs
                            => data'[fd[q]].serial > backupFile[q].serial
    BY <2>4 DEF Counted
  <2>6. CASE q = p
    <3>1. readFile[p] = backupFile[p] /\ file[p].serial >= backupFile[p].serial
      BY <2>6 DEF IInv, Counted
    <3>2. /\ next.serial \in Nat /\ file[p].serial \in Nat /\ backupFile[p].serial \in Nat
      BY <1>a, <1>b DEF IInv, TypeOK, Snapshots
    <3> QED BY <1>b, <2>2, <2>3, <2>4, <2>6, <3>1, <3>2
  <2>7. CASE q # p
    BY <2>4, <2>5, <2>7 DEF IInv, TypeOK, Counted
  <2> QED BY <2>6, <2>7
<1> QED BY <1>1, <1>2, <1>3, <1>4, <1>5 DEF IInv

\* A write fails.
LEMMA WriteFailsInv ==
    ASSUME IInv, NEW p \in Procs, WriteFails(p) PROVE IInv'
<1>a. /\ pc[p] \in {"backup", "truncate", "truncated"} /\ pc'[p] = "ready"
      /\ \A q \in Procs : q # p => pc'[q] = pc[q]
      /\ pc' \in [Procs -> {"idle", "open", "flock", "locked", "ready", "backup", "truncate",
                            "truncated", "stat", "remove", "done"}]
      /\ UNCHANGED <<disk, fd, created, readFile, backupFile, writtenBackup, made, work, stored>>
    BY DEF WriteFails, IInv, TypeOK
<1>b. file[p] \in Snapshots /\ file[p].serial < MaxSerial
    BY <1>a DEF IInv, TypeOK, Bounded
<1>c. /\ NextSnapshot(p) \in Snapshots /\ NextSnapshot(p).objs = file[p].objs
      /\ NextSnapshot(p).serial >= file[p].serial
    BY <1>b DEF NextSnapshot, Snapshots
<1>d. /\ file' \in [Procs -> Snapshots] /\ \A q \in Procs : q # p => file'[q] = file[q]
      /\ file'[p].objs = file[p].objs /\ file'[p].serial >= file[p].serial
  <2>1. file \in [Procs -> Snapshots] /\ file[p].serial \in Nat
    BY <1>b DEF IInv, TypeOK, Snapshots
  <2>2. CASE file' = Set(file, p, NextSnapshot(p))
    BY <1>c, <2>1, <2>2
  <2>3. CASE UNCHANGED file
    BY <2>1, <2>3
  <2> QED BY <2>2, <2>3 DEF WriteFails
<1>e. /\ torn' \subseteq Procs /\ torn \subseteq torn' /\ torn' \subseteq torn \union {p}
      /\ pc[p] = "truncated" => p \in torn'
    BY <1>a DEF WriteFails, IInv, TypeOK
<1>1. TypeOK'
    BY <1>a, <1>d, <1>e DEF IInv, TypeOK
<1>2. Bounded' /\ OneFile'
    BY <1>a, <1>d, <1>e DEF IInv, Bounded, OneFile
<1>3. Kept'
  <2>1. Abandoned => Abandoned'
    BY <1>a, <1>e DEF IInv, TypeOK, Abandoned
  <2>2. \A q \in Procs : Rewriting(q) => Rewriting(q)'
    BY <1>a, <1>e DEF Rewriting
  <2>3. file[p].serial \in Nat /\ file'[p].serial \in Nat
    BY <1>d DEF IInv, TypeOK, Snapshots
  <2> QED BY <1>a, <1>d, <2>1, <2>2, <2>3 DEF IInv, Kept
<1>4. BackedUp'
    BY <1>a, <1>d DEF IInv, BackedUp
<1>5. Counted'
  <2> SUFFICES ASSUME NEW q \in Procs, backupFile[q] # Nil
               PROVE  /\ pc'[q] = "locked" => data[fd[q]] = backupFile[q]
                      /\ pc'[q] \in Working => /\ readFile[q] = backupFile[q]
                                               /\ file'[q].serial >= backupFile[q].serial
                      /\ pc'[q] \in {"ready", "backup", "truncate"} /\ q \notin torn'
                            /\ data[fd[q]].objs # backupFile[q].objs
                            => data[fd[q]].serial > backupFile[q].serial
    BY <1>a DEF Counted
  <2>1. CASE q # p
    BY <1>a, <1>d, <1>e, <2>1 DEF IInv, Counted
  <2>2. CASE q = p
    <3>1. file[p].serial \in Nat /\ file'[p].serial \in Nat /\ backupFile[p].serial \in Nat
      BY <1>d DEF IInv, TypeOK, Snapshots
    <3>2. readFile[p] = backupFile[p] /\ file[p].serial >= backupFile[p].serial
      BY <1>a, <2>2 DEF IInv, Counted
    <3>3. pc[p] # "truncated" /\ p \notin torn /\ data[fd[p]].objs # backupFile[p].objs
            => data[fd[p]].serial > backupFile[p].serial
      BY <1>a, <2>2 DEF IInv, Counted
    <3> QED BY <1>a, <1>d, <1>e, <2>2, <3>1, <3>2, <3>3
  <2> QED BY <2>1, <2>2
<1> QED BY <1>1, <1>2, <1>3, <1>4, <1>5 DEF IInv

\* The lock is released.
LEMMA UnlockInv ==
    ASSUME IInv, NEW p \in Procs, Unlock(p) PROVE IInv'
<1> USE DEF Unlock
<1>1. TypeOK'
    BY DEF IInv, TypeOK, Bounded
<1>2. Bounded' /\ OneFile'
    BY DEF IInv, TypeOK, Bounded, OneFile
<1>3. Kept'
    BY DEF IInv, TypeOK, OneFile, Kept, Abandoned, Rewriting
<1>4. BackedUp'
    BY DEF IInv, TypeOK, OneFile, BackedUp
<1>5. Counted'
  <2>1. pc'[p] = "stat" /\ \A q \in Procs : q # p => fd'[q] = fd[q] /\ pc'[q] = pc[q]
    BY DEF IInv, TypeOK
  <2> QED BY <2>1 DEF IInv, Counted
<1> QED BY <1>1, <1>2, <1>3, <1>4, <1>5 DEF IInv

\* Unlock looks at the path.
LEMMA StatEmptyInv ==
    ASSUME IInv, NEW p \in Procs, StatEmpty(p) PROVE IInv'
<1>1. CASE End(p)
    BY <1>1, EndInv DEF StatEmpty
<1>2. CASE Goto(p, "remove") /\ UNCHANGED <<mgr, work>>
  <2> UNCHANGED <<disk, mgr, ghost>> /\ pc[p] = "stat"
    BY <1>2 DEF StatEmpty
  <2>1. TypeOK'
    BY <1>2 DEF IInv, TypeOK
  <2>2. Bounded' /\ OneFile'
    BY <1>2 DEF IInv, TypeOK, Bounded, OneFile
  <2>3. Kept'
    BY <1>2 DEF IInv, TypeOK, Kept, Abandoned, Rewriting
  <2>4. BackedUp'
    BY <1>2 DEF IInv, TypeOK, BackedUp
  <2>5. Counted'
    BY <1>2 DEF IInv, TypeOK, Counted
  <2> QED BY <2>1, <2>2, <2>3, <2>4, <2>5 DEF IInv
<1> QED BY <1>1, <1>2 DEF StatEmpty

\* An empty file is removed.
LEMMA RemoveInv ==
    ASSUME IInv, NEW p \in Procs, Remove(p) PROVE IInv'
<1> USE DEF Remove, End
<1>1. TypeOK'
    BY NilType DEF IInv, TypeOK, Bounded
<1>2. Bounded' /\ OneFile'
    BY DEF IInv, TypeOK, Bounded, OneFile
<1>3. Kept'
    BY DEF IInv, TypeOK, OneFile, Kept, Abandoned, Rewriting
<1>4. BackedUp'
    BY DEF IInv, TypeOK, OneFile, BackedUp
<1>5. Counted'
    BY DEF IInv, TypeOK, Counted
<1> QED BY <1>1, <1>2, <1>3, <1>4, <1>5 DEF IInv

\* The process dies.
LEMMA CrashInv ==
    ASSUME IInv, NEW p \in Procs, Crash(p) PROVE IInv'
<1> USE DEF Crash, End
<1>1. TypeOK'
    BY NilType DEF IInv, TypeOK, Bounded
<1>2. Bounded' /\ OneFile'
    BY DEF IInv, TypeOK, Bounded, OneFile
<1>3. Kept'
  <2>1. CASE pc[p] = "truncated"
    BY <2>1 DEF IInv, TypeOK, Kept, Abandoned, Rewriting
  <2>2. CASE pc[p] # "truncated"
    BY <2>2 DEF IInv, TypeOK, Kept, Abandoned, Rewriting
  <2> QED BY <2>1, <2>2
<1>4. BackedUp'
    BY DEF IInv, TypeOK, OneFile, BackedUp
<1>5. Counted'
    BY DEF IInv, TypeOK, Counted
<1> QED BY <1>1, <1>2, <1>3, <1>4, <1>5 DEF IInv
-----------------------------------------------------------------------------
\* The invariant holds at the start.
LEMMA InitInv == Init => IInv
<1> SUFFICES ASSUME Init PROVE IInv
    OBVIOUS
<1>1. [objs |-> Old, serial |-> 1] \in Snapshots /\ Nil \in Snapshots
    BY DEF Nil, Snapshots
<1>2. TypeOK
  <2>1. data \in [Files -> Snapshots] /\ backup \in Snapshots
    BY <1>1 DEF Init
  <2>2. /\ file \in [Procs -> Snapshots] /\ readFile \in [Procs -> Snapshots]
        /\ backupFile \in [Procs -> Snapshots]
    BY <1>1 DEF Init
  <2>3. torn \subseteq Procs /\ created \in [Procs -> BOOLEAN] /\ writtenBackup \in [Procs -> BOOLEAN]
    BY DEF Init
  <2> QED BY <2>1, <2>2, <2>3 DEF Init, TypeOK
<1>3. Bounded /\ OneFile /\ Kept /\ BackedUp /\ Counted
    BY DEF Init, Bounded, OneFile, Kept, Abandoned, Rewriting, BackedUp, Counted
<1> QED BY <1>2, <1>3 DEF IInv

\* Every step preserves it.
LEMMA NextInv == IInv /\ [Next]_vars => IInv'
<1> SUFFICES ASSUME IInv, [Next]_vars PROVE IInv'
    OBVIOUS
<1>1. CASE Next
  <2> PICK p \in Procs : Step(p)
    BY <1>1 DEF Next
  <2> QED BY StatInv, OpenFileInv, LockInv, LockFailsInv, RefreshStateInv, MutateStateInv,
             WriteStateInv, PersistStateInv, WriteBackupInv, TruncateInv, WritePartInv, WriteInv,
             WriteFailsInv, UnlockInv, StatEmptyInv, RemoveInv, CrashInv DEF Step
<1>2. CASE UNCHANGED vars
    BY <1>2 DEF IInv, TypeOK, Bounded, OneFile, Kept, Abandoned, Rewriting, BackedUp, Counted
<1> QED BY <1>1, <1>2

\* IInv is an invariant of the processes and the disk together.
LEMMA Invariance == Spec => []IInv
  BY InitInv, NextInv, PTL DEF Spec

-----------------------------------------------------------------------------
\* Every variable keeps its type, and a manager that believes it holds the lock
\* holds the POSIX lock of the file it has open (Filesystem.Lock).
THEOREM TypeCorrect == Spec => []TypeOK
<1>1. IInv => TypeOK
    BY DEF IInv
<1> QED BY <1>1, Invariance, PTL

\* In a state file that was there from the start every object once stored stays
\* on record, unless a process gave up in the middle of writing it (Lock, refreshState, persistState).
THEOREM RecordsSurvive == Spec => []RecordSurvives
<1>1. IInv => RecordSurvives
  <2> SUFFICES ASSUME IInv, dir = Original, ~Abandoned, NEW o \in stored PROVE OnRecord(o)
    BY DEF RecordSurvives
  <2>1. CASE stored \subseteq data[Original].objs
    BY <2>1 DEF OnRecord
  <2>2. ASSUME NEW p \in Procs, Rewriting(p) PROVE OnRecord(o)
    <3>1. Locked(p) /\ pc[p] \in Working
      BY <2>2 DEF IInv, Bounded, Rewriting
    <3>2. fd[p] = dir
      BY <3>1 DEF IInv, TypeOK, OneFile
    <3>3. o \in file[p].objs
      BY <3>1 DEF IInv, Kept
    <3> QED BY <2>2, <3>2, <3>3 DEF OnRecord
  <2> QED BY <2>1, <2>2 DEF IInv, Kept
<1> QED BY <1>1, Invariance, PTL

\* The snapshot found by Lock is in the backup file before a different one is
\* written over it (persistState).
THEOREM BackupsComeFirst == Spec => []BackupFirst
<1>1. IInv => BackupFirst
    BY DEF IInv, BackedUp, BackupFirst
<1> QED BY <1>1, Invariance, PTL

\* A snapshot that differs from the one found has a higher serial
\* (persistState, refreshState).
THEOREM SerialsCoverChanges == Spec => []SerialCoversChange
<1>1. IInv => SerialCoversChange
    BY DEF IInv, Counted, SerialCoversChange
<1> QED BY <1>1, Invariance, PTL

-----------------------------------------------------------------------------
\* ImplementsStore: for any processes, crashes and failed writes, the file found at the
\* start has at most one holder of its lock, and only that one empties or writes it.
THEOREM FileIsStore == Spec => ImplementsStore
<1>1. Init => Store!Init
    BY DEF Init, Store!Init, Store!TypeOK
<1>2. IInv /\ [Next]_vars => [Store!Next]_<<holder[Original], data[Original]>>
  <2> SUFFICES ASSUME IInv, [Next]_vars PROVE [Store!Next]_<<holder[Original], data[Original]>>
    OBVIOUS
  <2>1. CASE UNCHANGED vars
    BY <2>1
  <2>2. ASSUME NEW p \in Procs, Lock(p) PROVE [Store!Next]_<<holder[Original], data[Original]>>
    BY <2>2 DEF Lock, IInv, TypeOK, Store!Next, Store!Acquire
  <2>3. ASSUME NEW p \in Procs, Truncate(p) \/ WritePart(p) \/ Write(p)
        PROVE  [Store!Next]_<<holder[Original], data[Original]>>
    <3>1. Locked(p) /\ UNCHANGED holder /\ \E v : data' = [data EXCEPT ![fd[p]] = v]
      BY <2>3 DEF Truncate, WritePart, Write
    <3>2. fd[p] \in Files /\ holder[fd[p]] = p
      BY <3>1 DEF IInv, TypeOK
    <3>3. data'[Original] = data[Original] \/ holder[Original] = p
      BY <3>1, <3>2 DEF IInv, TypeOK
    <3> QED
      BY <3>1, <3>3 DEF Store!Next, Store!Write
  <2>4. ASSUME NEW p \in Procs, Unlock(p) \/ Crash(p)
        PROVE  [Store!Next]_<<holder[Original], data[Original]>>
    <3>1. UNCHANGED data
      BY <2>4 DEF Unlock, Crash
    <3>2. \/ Locked(p) /\ holder' = [holder EXCEPT ![fd[p]] = Nobody]
          \/ UNCHANGED holder
      BY <2>4 DEF Unlock, Crash
    <3>3. Locked(p) => fd[p] \in Files /\ holder[fd[p]] = p /\ p # Nobody
      BY DEF IInv, TypeOK
    <3>4. holder'[Original] = holder[Original] \/ (holder[Original] # Nobody /\ holder'[Original] = Nobody)
      BY <3>2, <3>3 DEF IInv, TypeOK
    <3> QED
      BY <3>1, <3>4 DEF Store!Next, Store!Release
  <2>5. ASSUME NEW p \in Procs, Step(p), ~Lock(p), ~Truncate(p), ~WritePart(p), ~Write(p),
               ~Unlock(p), ~Crash(p)
        PROVE  UNCHANGED <<holder[Original], data[Original]>>
    BY <2>5 DEF Step, Stat, OpenFile, LockFails, RefreshState, MutateState, WriteState,
         PersistState, WriteBackup, WriteFails, StatEmpty, Remove
  <2> QED
    BY <2>1, <2>2, <2>3, <2>4, <2>5 DEF Next
<1> QED
    BY <1>1, <1>2, Invariance, PTL DEF Spec, ImplementsStore, Store!Spec
=============================================================================
