----------------------------- MODULE FileLocks -----------------------------
(***************************************************************************)
(* The locks of SQLite's database file (os_unix.c in sqlite3.c). All       *)
(* connections belong to one process, so the operating system's locks,     *)
(* which a process never refuses itself, decide nothing: what counts is    *)
(* the record the process keeps about the file, unixInodeInfo.             *)
(***************************************************************************)
EXTENDS Integers, FiniteSets

CONSTANT Conns   \* the connections (unixFile) that have the file open

ASSUME ConnsAssumption == IsFiniteSet(Conns)

NoLock    == 0
Shared    == 1
Reserved  == 2
Pending   == 3
Exclusive == 4
Levels == NoLock..Exclusive

VARIABLES
  lock,   \* unixFile.eFileLock of every connection
  inode   \* unixInodeInfo: eFileLock, and nShared, the connections with a lock

lockVars == <<lock, inode>>

LocksInit ==
  /\ lock = [c \in Conns |-> NoLock]
  /\ inode = [eFileLock |-> NoLock, nShared |-> 0]

-----------------------------------------------------------------------------
(* unixLock: whether it answers SQLITE_OK, and what it does then.           *)

\* Another connection's lock excludes this one.
Precluded(c, l) ==
  /\ lock[c] # inode.eFileLock
  /\ inode.eFileLock >= Pending \/ l > Shared

\* Mutant: the readers are not counted.
Granted_ignoresReaders(c, l) == ~Precluded(c, l)

Granted(c, l) ==
  /\ ~Precluded(c, l)
  /\ l = Exclusive => inode.nShared <= 1

Raise(c, l) ==
  /\ lock' = [lock EXCEPT ![c] = l]
  /\ inode' = [inode EXCEPT !.eFileLock = IF l = Shared /\ @ # NoLock THEN @ ELSE l,
                            !.nShared = IF l = Shared THEN @ + 1 ELSE @]

\* One step of unixLock that succeeds; a lock already held is kept.
Lock(c, l) ==
  IF lock[c] >= l THEN UNCHANGED lockVars ELSE Granted(c, l) /\ Raise(c, l)

\* One step that answers SQLITE_BUSY. A connection that asks for EXCLUSIVE and
\* meets only readers keeps PENDING, so that no new reader comes in.
Refused(c, l) ==
  /\ lock[c] < l
  /\ ~Granted(c, l)
  /\ IF l = Exclusive /\ ~Precluded(c, l)
       THEN /\ lock' = [lock EXCEPT ![c] = Pending]
            /\ inode' = [inode EXCEPT !.eFileLock = Pending]
       ELSE UNCHANGED lockVars

\* Mutant: a reader that comes down from a higher lock is counted off as well.
Unlock_miscounts(c, l) ==
  IF lock[c] <= l THEN UNCHANGED lockVars
  ELSE LET level == IF lock[c] > Shared THEN Shared ELSE inode.eFileLock
           left == inode.nShared - 1
       IN /\ lock' = [lock EXCEPT ![c] = l]
          /\ inode' = [eFileLock |-> IF left = 0 THEN NoLock ELSE level,
                       nShared |-> left]

\* posixUnlock.
Unlock(c, l) ==
  IF lock[c] <= l THEN UNCHANGED lockVars
  ELSE LET level == IF lock[c] > Shared THEN Shared ELSE inode.eFileLock
           left == IF l = NoLock THEN inode.nShared - 1 ELSE inode.nShared
       IN /\ lock' = [lock EXCEPT ![c] = l]
          /\ inode' = [eFileLock |-> IF left = 0 THEN NoLock ELSE level,
                       nShared |-> left]

\* Mutant: a reader is taken for a writer.
ReservedHeld_shared == inode.eFileLock >= Shared

\* unixCheckReservedLock.
ReservedHeld == inode.eFileLock > Shared

-----------------------------------------------------------------------------
(* What the pager may ask for, by itself: SHARED first, RESERVED only from  *)
(* SHARED, EXCLUSIVE from any lock; down to SHARED or to none.              *)

AskFor(c, l) ==
  /\ l \in {Shared, Reserved, Exclusive}
  /\ lock[c] = NoLock => l = Shared
  /\ l = Reserved => lock[c] = Shared
  /\ Lock(c, l) \/ Refused(c, l)

GoDown(c) == \E l \in {NoLock, Shared} : Unlock(c, l)

LocksGone == /\ lock' = [c \in Conns |-> NoLock]
             /\ inode' = [eFileLock |-> NoLock, nShared |-> 0]

LocksNext ==
  \/ \E c \in Conns : GoDown(c) \/ \E l \in Levels : AskFor(c, l)
  \/ LocksGone

LocksSpec == LocksInit /\ [][LocksNext]_lockVars

-----------------------------------------------------------------------------
LocksTypeOK ==
  /\ lock \in [Conns -> Levels]
  /\ inode \in [eFileLock : Levels, nShared : Nat]

\* At most one connection holds more than SHARED, and while one holds
\* EXCLUSIVE no other has any lock: the writer is alone with the file
\* (unixLock, on which rules 12 and 13 at sqlite3.c:39972 rest).
LocksExclude ==
  \A c, d \in Conns :
    c # d => /\ lock[c] <= Shared \/ lock[d] <= Shared
             /\ lock[c] = Exclusive => lock[d] = NoLock
=============================================================================
