---------------------------- MODULE PagerProofs ----------------------------
(***************************************************************************)
(* What the pager asks of the locks, and with it that they exclude each    *)
(* other, whoever is misled; and, until a connection that has been misled  *)
(* writes, that its caches and files are what they should be: a committed  *)
(* state can always be rolled back to, readers that have not been misled   *)
(* have recovered, and what the connections see is what the transactions   *)
(* of Database see.                                                        *)
(*                                                                         *)
(* The invariant is IInv, or spoiled: the locks (PagerInv), what the files *)
(* may hold (MediaOK), and what each connection knows of them in each of   *)
(* its states (ConnIn). A misled connection knows nothing, but has not     *)
(* begun to write. The refinement needs one thing more, Represented.       *)
(***************************************************************************)
EXTENDS Pager, FileLocksProofs, WellFoundedInduction

\* The states in which a connection is alone with the file.
Alone == {"alone", "replay", "replaying", "replayed", "undo", "undoing", "undone",
          "exclusive", "counted", "synced", "valid", "dbmod", "finished"}

LockInState(s, l) ==
  /\ s = "open" => l = NoLock
  /\ s \in {"locked", "found", "orphan", "hot", "clean", "reader"} => l = Shared
  /\ s = "failed" => l \in {Shared, Pending}
  /\ s = "reserved" => l = Reserved
  /\ s = "cachemod" => l \in {Reserved, Pending}
  /\ s \in Alone => l = Exclusive
  /\ s = "error" => l \in {Shared, Exclusive}

\* Every state comes with its lock (assert_pager_state, sqlite3.c:40697).
StatesHaveLocks ==
  /\ state \in [Conns -> States]
  /\ \A c \in Conns : LockInState(state[c], lock[c])

PagerInv == LocksInv /\ StatesHaveLocks

\* The step of one connection c: from state s with its lock to state t.
LEMMA OneMoves ==
  ASSUME PagerInv, NEW c \in Conns, NEW t \in States, Goto(c, t),
         \A d \in Conns : d # c => lock'[d] = lock[d],
         LockInState(t, lock'[c])
  PROVE  StatesHaveLocks'
<1>1. state' \in [Conns -> States]  BY DEF PagerInv, StatesHaveLocks, Goto
<1>2. ASSUME NEW d \in Conns PROVE LockInState(state'[d], lock'[d])
  <2>1. CASE d = c
    <3>1. state'[d] = t  BY <2>1 DEF PagerInv, StatesHaveLocks, Goto
    <3> QED  BY <2>1, <3>1
  <2>2. CASE d # c
    <3>1. state'[d] = state[d]  BY <2>2 DEF PagerInv, StatesHaveLocks, Goto
    <3> QED  BY <2>2, <3>1 DEF PagerInv, StatesHaveLocks
  <2> QED  BY <2>1, <2>2
<1> QED  BY <1>1, <1>2 DEF StatesHaveLocks

\* A step that leaves the locks alone ...
LEMMA Quiet ==
  ASSUME PagerInv, NEW c \in Conns, NEW t \in States, Goto(c, t), UNCHANGED lockVars,
         LockInState(t, lock[c])
  PROVE  StatesHaveLocks' /\ [LocksNext]_lockVars
<1>1. LockInState(t, lock'[c]) /\ \A d \in Conns : d # c => lock'[d] = lock[d]
  BY DEF lockVars
<1> QED  BY <1>1, OneMoves

LEMMA Still ==
  ASSUME PagerInv, UNCHANGED <<lockVars, state>>
  PROVE  StatesHaveLocks' /\ [LocksNext]_lockVars
<1>1. state' = state /\ lock' = lock  BY DEF lockVars
<1> QED  BY <1>1 DEF PagerInv, StatesHaveLocks

\* ... one that gives a lock back ...
LEMMA GivesBack ==
  ASSUME PagerInv, NEW c \in Conns, NEW t \in States, Goto(c, t),
         NEW l \in {NoLock, Shared}, Unlock(c, l),
         LockInState(t, IF lock[c] <= l THEN lock[c] ELSE l)
  PROVE  StatesHaveLocks' /\ [LocksNext]_lockVars
<1>1. l \in Levels  BY NumbersAre DEF Numbers
<1>2. lock'[c] = (IF lock[c] <= l THEN lock[c] ELSE l)
      /\ \A d \in Conns : d # c => lock'[d] = lock[d]
  BY <1>1, OneLock DEF PagerInv
<1>3. LocksNext  BY DEF LocksNext, GoDown
<1> QED  BY <1>2, <1>3, OneMoves

\* ... and one that asks for a lock and gets it.
LEMMA Asks ==
  ASSUME PagerInv, NEW c \in Conns, NEW t \in States, Goto(c, t),
         NEW l \in {Shared, Reserved, Exclusive}, Lock(c, l),
         lock[c] = NoLock => l = Shared, l = Reserved => lock[c] = Shared,
         LockInState(t, IF lock[c] >= l THEN lock[c] ELSE l)
  PROVE  StatesHaveLocks' /\ [LocksNext]_lockVars
<1>1. l \in Levels  BY NumbersAre DEF Numbers
<1>2. lock'[c] = (IF lock[c] >= l THEN lock[c] ELSE l)
      /\ \A d \in Conns : d # c => lock'[d] = lock[d]
  BY <1>1, OneLock DEF PagerInv
<1>3. LocksNext  BY <1>1 DEF LocksNext, AskFor
<1> QED  BY <1>2, <1>3, OneMoves

\* The steps of a reader and of a recovery up to the playback.
LEMMA ReadKeeps ==
  ASSUME PagerInv, NEW c \in Conns, Read(c)
  PROVE  StatesHaveLocks' /\ [LocksNext]_lockVars
<1> DEFINE Good == StatesHaveLocks' /\ [LocksNext]_lockVars
<1> HIDE DEF Good
<1>0. LockInState(state[c], lock[c]) /\ state[c] \in States /\ lock[c] \in Levels
  BY DEF PagerInv, StatesHaveLocks, LocksInv, LocksTypeOK
<1>1. CASE TakeShared(c)
  <2>1. Goto(c, "locked") /\ Lock(c, Shared)  BY <1>1 DEF TakeShared
  <2>2. LockInState("locked", IF lock[c] >= Shared THEN lock[c] ELSE Shared) /\ "locked" \in States
        /\ (lock[c] = NoLock => Shared = Shared) /\ (Shared = Reserved => lock[c] = Shared)
    BY <1>0, <1>1, NumbersAre DEF TakeShared, LockInState, Alone, States, CacheModified, Numbers
  <2> QED  BY <2>1, <2>2, Asks DEF Good
<1>2. CASE LookForJournal(c)
  <2>1. PICK t \in {"found", "clean"} : Goto(c, t)
    BY <1>2 DEF LookForJournal
  <2>2. UNCHANGED lockVars /\ LockInState(t, lock[c]) /\ t \in States
    BY <1>0, <1>2, <2>1, NumbersAre DEF LookForJournal, LockInState, Alone, States, CacheModified, Numbers
  <2> QED  BY <2>1, <2>2, Quiet DEF Good
<1>3. CASE LookForWriter(c)
  <2>1. PICK t \in {"clean", "orphan"} : Goto(c, t)
    BY <1>3 DEF LookForWriter
  <2>2. UNCHANGED lockVars /\ LockInState(t, lock[c]) /\ t \in States
    BY <1>0, <1>3, <2>1, NumbersAre DEF LookForWriter, LockInState, Alone, States, CacheModified, Numbers
  <2> QED  BY <2>1, <2>2, Quiet DEF Good
<1>4. CASE DropRemnant(c)
  <2>1. Goto(c, "clean") /\ UNCHANGED lockVars  BY <1>4 DEF DropRemnant
  <2>2. LockInState("clean", lock[c]) /\ "clean" \in States
    BY <1>0, <1>4, NumbersAre DEF DropRemnant, LockInState, Alone, States, CacheModified, Numbers
  <2> QED  BY <2>1, <2>2, Quiet DEF Good
<1>5. CASE LookIntoJournal(c)
  <2>1. PICK t \in {"clean", "hot"} : Goto(c, t)
    BY <1>5 DEF LookIntoJournal
  <2>2. UNCHANGED lockVars /\ LockInState(t, lock[c]) /\ t \in States
    BY <1>0, <1>5, <2>1, NumbersAre DEF LookIntoJournal, LockInState, Alone, States, CacheModified, Numbers
  <2> QED  BY <2>1, <2>2, Quiet DEF Good
<1>6. CASE LockForRecovery(c)
  <2>1. CASE Lock(c, Exclusive) /\ Goto(c, "alone")
    <3>1. LockInState("alone", IF lock[c] >= Exclusive THEN lock[c] ELSE Exclusive) /\ "alone" \in States
          /\ lock[c] = Shared
      BY <1>0, <1>6, NumbersAre DEF LockForRecovery, LockInState, Alone, States, CacheModified, Numbers
    <3> QED  BY <2>1, <3>1, Asks, NumbersAre DEF Good, Numbers
  <2>2. CASE Refused(c, Exclusive) /\ Goto(c, "failed")
    <3>1. lock[c] = Shared /\ Exclusive \in Levels
      BY <1>0, <1>6, NumbersAre DEF LockForRecovery, LockInState, Numbers
    <3>2. lock'[c] \in {Shared, Pending} /\ \A d \in Conns : d # c => lock'[d] = lock[d]
      BY <2>2, <3>1, OneLock DEF PagerInv
    <3>3. LockInState("failed", lock'[c]) /\ "failed" \in States
      BY <3>2 DEF LockInState, Alone, States
    <3>4. LocksNext
      BY <2>2, <3>1, NumbersAre DEF LocksNext, AskFor, Numbers
    <3> QED  BY <2>2, <3>2, <3>3, <3>4, OneMoves DEF Good
  <2> QED  BY <1>6, <2>1, <2>2 DEF LockForRecovery
<1>7. CASE NothingToRecover(c)
  <2>1. Goto(c, "clean") /\ Unlock(c, Shared)  BY <1>7 DEF NothingToRecover
  <2>2. LockInState("clean", IF lock[c] <= Shared THEN lock[c] ELSE Shared) /\ "clean" \in States
    BY <1>0, <1>7, NumbersAre DEF NothingToRecover, LockInState, Alone, States, CacheModified, Numbers
  <2> QED  BY <2>1, <2>2, GivesBack DEF Good
<1>8. CASE SyncHotJournal(c)
  <2>1. Goto(c, "replay") /\ UNCHANGED lockVars  BY <1>8 DEF SyncHotJournal
  <2>2. LockInState("replay", lock[c]) /\ "replay" \in States
    BY <1>0, <1>8, NumbersAre DEF SyncHotJournal, LockInState, Alone, States, CacheModified, Numbers
  <2> QED  BY <2>1, <2>2, Quiet DEF Good
<1>9. CASE ReadHeader(c)
  <2>1. PICK t \in {"failed", "reader"} : Goto(c, t)
    BY <1>9 DEF ReadHeader
  <2>2. UNCHANGED lockVars /\ LockInState(t, lock[c]) /\ t \in States
    BY <1>0, <1>9, <2>1, NumbersAre DEF ReadHeader, LockInState, Alone, States, CacheModified, Numbers
  <2> QED  BY <2>1, <2>2, Quiet DEF Good
<1>10. CASE EndRead(c)
  <2>1. Goto(c, "open") /\ Unlock(c, NoLock)  BY <1>10 DEF EndRead
  <2>2. LockInState("open", IF lock[c] <= NoLock THEN lock[c] ELSE NoLock) /\ "open" \in States
    BY <1>0, <1>10, NumbersAre DEF EndRead, LockInState, Alone, States, CacheModified, Numbers
  <2> QED  BY <2>1, <2>2, GivesBack DEF Good
<1>11. CASE (\E p \in Pages : ReadPage(c, p))
  <2>1. UNCHANGED <<lockVars, state>>  BY <1>11 DEF ReadPage
  <2> QED  BY <2>1, Still DEF Good
<1> QED
  BY <1>1, <1>2, <1>3, <1>4, <1>5, <1>6, <1>7, <1>8, <1>9, <1>10, <1>11 DEF Good, Read

\* The steps of a write transaction.
LEMMA WriteKeeps ==
  ASSUME PagerInv, NEW c \in Conns, WriteTx(c)
  PROVE  StatesHaveLocks' /\ [LocksNext]_lockVars
<1> DEFINE Good == StatesHaveLocks' /\ [LocksNext]_lockVars
<1> HIDE DEF Good
<1>0. LockInState(state[c], lock[c]) /\ state[c] \in States /\ lock[c] \in Levels
  BY DEF PagerInv, StatesHaveLocks, LocksInv, LocksTypeOK
<1>1. CASE BeginWrite(c)
  <2>1. Goto(c, "reserved") /\ Lock(c, Reserved)  BY <1>1 DEF BeginWrite
  <2>2. LockInState("reserved", IF lock[c] >= Reserved THEN lock[c] ELSE Reserved) /\ "reserved" \in States
        /\ (lock[c] = NoLock => Reserved = Shared) /\ (Reserved = Reserved => lock[c] = Shared)
    BY <1>0, <1>1, NumbersAre DEF BeginWrite, LockInState, Alone, States, CacheModified, Numbers
  <2> QED  BY <2>1, <2>2, Asks DEF Good
<1>2. CASE OpenForWriting(c)
  <2>1. Goto(c, "cachemod") /\ UNCHANGED lockVars  BY <1>2 DEF OpenForWriting
  <2>2. LockInState("cachemod", lock[c]) /\ "cachemod" \in States
    BY <1>0, <1>2, NumbersAre DEF OpenForWriting, LockInState, Alone, States, CacheModified, Numbers
  <2> QED  BY <2>1, <2>2, Quiet DEF Good
<1>3. CASE LockForCommit(c)
  <2>1. CASE Lock(c, Exclusive) /\ Goto(c, "exclusive")
    <3>1. LockInState("exclusive", IF lock[c] >= Exclusive THEN lock[c] ELSE Exclusive)
          /\ "exclusive" \in States /\ lock[c] # NoLock
      BY <1>0, <1>3, NumbersAre DEF LockForCommit, LockInState, Alone, States, CacheModified, Numbers
    <3> QED  BY <2>1, <3>1, Asks, NumbersAre DEF Good, Numbers
  <2>2. CASE Refused(c, Exclusive) /\ UNCHANGED state
    <3>1. state[c] = "cachemod" /\ lock[c] \in {Reserved, Pending} /\ Exclusive \in Levels
      BY <1>0, <1>3, NumbersAre DEF LockForCommit, LockInState, Numbers
    <3>2. lock'[c] \in {Reserved, Pending} /\ \A d \in Conns : d # c => lock'[d] = lock[d]
      BY <2>2, <3>1, OneLock DEF PagerInv
    <3>3. LockInState("cachemod", lock'[c]) /\ "cachemod" \in States /\ Goto(c, "cachemod")
      BY <2>2, <3>1, <3>2 DEF LockInState, Alone, States, CacheModified, Goto, PagerInv, StatesHaveLocks
    <3>4. LocksNext
      BY <2>2, <3>1, NumbersAre DEF LocksNext, AskFor, Numbers
    <3> QED  BY <3>2, <3>3, <3>4, OneMoves DEF Good
  <2> QED  BY <1>3, <2>1, <2>2 DEF LockForCommit
<1>4. CASE CountChange(c)
  <2>1. Goto(c, "counted") /\ UNCHANGED lockVars  BY <1>4 DEF CountChange
  <2>2. LockInState("counted", lock[c]) /\ "counted" \in States
    BY <1>0, <1>4, NumbersAre DEF CountChange, LockInState, Alone, States, CacheModified, Numbers
  <2> QED  BY <2>1, <2>2, Quiet DEF Good
<1>5. CASE SyncRecords(c)
  <2>1. Goto(c, "synced") /\ UNCHANGED lockVars  BY <1>5 DEF SyncRecords
  <2>2. LockInState("synced", lock[c]) /\ "synced" \in States
    BY <1>0, <1>5, NumbersAre DEF SyncRecords, LockInState, Alone, States, CacheModified, Numbers
  <2> QED  BY <2>1, <2>2, Quiet DEF Good
<1>6. CASE WriteHeader(c)
  <2>1. Goto(c, "valid") /\ UNCHANGED lockVars  BY <1>6 DEF WriteHeader
  <2>2. LockInState("valid", lock[c]) /\ "valid" \in States
    BY <1>0, <1>6, NumbersAre DEF WriteHeader, LockInState, Alone, States, CacheModified, Numbers
  <2> QED  BY <2>1, <2>2, Quiet DEF Good
<1>7. CASE SyncHeader(c)
  <2>1. Goto(c, "dbmod") /\ UNCHANGED lockVars  BY <1>7 DEF SyncHeader
  <2>2. LockInState("dbmod", lock[c]) /\ "dbmod" \in States
    BY <1>0, <1>7, NumbersAre DEF SyncHeader, LockInState, Alone, States, CacheModified, Numbers
  <2> QED  BY <2>1, <2>2, Quiet DEF Good
<1>8. CASE WriteBack(c)
  <2>1. UNCHANGED <<lockVars, state>>  BY <1>8 DEF WriteBack
  <2> QED  BY <2>1, Still DEF Good
<1>9. CASE SyncPages(c)
  <2>1. Goto(c, "finished") /\ UNCHANGED lockVars  BY <1>9 DEF SyncPages
  <2>2. LockInState("finished", lock[c]) /\ "finished" \in States
    BY <1>0, <1>9, NumbersAre DEF SyncPages, LockInState, Alone, States, CacheModified, Numbers
  <2> QED  BY <2>1, <2>2, Quiet DEF Good
<1>10. CASE Commit(c)
  <2>1. Goto(c, "reader") /\ Unlock(c, Shared)  BY <1>10 DEF Commit
  <2>2. LockInState("reader", IF lock[c] <= Shared THEN lock[c] ELSE Shared) /\ "reader" \in States
    BY <1>0, <1>10, NumbersAre DEF Commit, LockInState, Alone, States, CacheModified, Numbers
  <2> QED  BY <2>1, <2>2, GivesBack DEF Good
<1>11. CASE (\E p \in Pages : WritePage(c, p))
  <2>1. UNCHANGED <<lockVars, state>>  BY <1>11 DEF WritePage
  <2> QED  BY <2>1, Still DEF Good
<1> QED
  BY <1>1, <1>2, <1>3, <1>4, <1>5, <1>6, <1>7, <1>8, <1>9, <1>10, <1>11 DEF Good, WriteTx

\* The steps of rolling back and of failing.
LEMMA UndoKeeps ==
  ASSUME PagerInv, NEW c \in Conns, Undo(c)
  PROVE  StatesHaveLocks' /\ [LocksNext]_lockVars
<1> DEFINE Good == StatesHaveLocks' /\ [LocksNext]_lockVars
<1> HIDE DEF Good
<1>0. LockInState(state[c], lock[c]) /\ state[c] \in States /\ lock[c] \in Levels
  BY DEF PagerInv, StatesHaveLocks, LocksInv, LocksTypeOK
<1>1. CASE Rollback(c)
  <2>1. Goto(c, "reader") /\ Unlock(c, Shared)  BY <1>1 DEF Rollback
  <2>2. LockInState("reader", IF lock[c] <= Shared THEN lock[c] ELSE Shared) /\ "reader" \in States
    BY <1>0, <1>1, NumbersAre DEF Rollback, LockInState, Alone, States, CacheModified, Numbers
  <2> QED  BY <2>1, <2>2, GivesBack DEF Good
<1>2. CASE CommitFails(c)
  <2>1. Goto(c, "error") /\ Unlock(c, Shared)  BY <1>2 DEF CommitFails
  <2>2. LockInState("error", IF lock[c] <= Shared THEN lock[c] ELSE Shared) /\ "error" \in States
    BY <1>0, <1>2, NumbersAre DEF CommitFails, LockInState, Alone, States, CacheModified, Numbers
  <2> QED  BY <2>1, <2>2, GivesBack DEF Good
<1>3. CASE WriteFails(c)
  <2>1. Goto(c, "undo") /\ UNCHANGED lockVars  BY <1>3 DEF WriteFails
  <2>2. LockInState("undo", lock[c]) /\ "undo" \in States
    BY <1>0, <1>3, NumbersAre DEF WriteFails, LockInState, Alone, States, CacheModified, Numbers
  <2> QED  BY <2>1, <2>2, Quiet DEF Good
<1>4. CASE CutBack(c)
  <2>1. PICK t \in {"undoing", "replaying"} : Goto(c, t)
    BY <1>4 DEF CutBack
  <2>2. UNCHANGED lockVars /\ LockInState(t, lock[c]) /\ t \in States
    BY <1>0, <1>4, <2>1, NumbersAre DEF CutBack, LockInState, Alone, States, CacheModified, Numbers
  <2> QED  BY <2>1, <2>2, Quiet DEF Good
<1>5. CASE Restore(c)
  <2>1. UNCHANGED <<lockVars, state>>  BY <1>5 DEF Restore
  <2> QED  BY <2>1, Still DEF Good
<1>6. CASE SyncRestored(c)
  <2>1. PICK t \in {"undone", "replayed"} : Goto(c, t)
    BY <1>6 DEF SyncRestored
  <2>2. UNCHANGED lockVars /\ LockInState(t, lock[c]) /\ t \in States
    BY <1>0, <1>6, <2>1, NumbersAre DEF SyncRestored, LockInState, Alone, States, CacheModified, Numbers
  <2> QED  BY <2>1, <2>2, Quiet DEF Good
<1>7. CASE EndPlayback(c)
  <2>1. PICK t \in {"reader", "clean"} : Goto(c, t)  BY <1>7 DEF EndPlayback
  <2>2. Unlock(c, Shared) /\ t \in States
        /\ LockInState(t, IF lock[c] <= Shared THEN lock[c] ELSE Shared)
    BY <1>0, <1>7, <2>1, NumbersAre DEF EndPlayback, LockInState, Alone, States, CacheModified, Numbers
  <2> QED  BY <2>1, <2>2, GivesBack DEF Good
<1>10. CASE RollbackFails(c)
  <2>1. Goto(c, "error") /\ Unlock(c, Shared)  BY <1>10 DEF RollbackFails
  <2>2. LockInState("error", IF lock[c] <= Shared THEN lock[c] ELSE Shared) /\ "error" \in States
    BY <1>0, <1>10, NumbersAre DEF RollbackFails, LockInState, Alone, States, CacheModified, Numbers
  <2> QED  BY <2>1, <2>2, GivesBack DEF Good
<1>11. CASE EndPlaybackFails(c)
  <2>1. Goto(c, "error") /\ Unlock(c, Shared)  BY <1>11 DEF EndPlaybackFails
  <2>2. LockInState("error", IF lock[c] <= Shared THEN lock[c] ELSE Shared) /\ "error" \in States
    BY <1>0, <1>11, NumbersAre DEF EndPlaybackFails, LockInState, Alone, States, CacheModified, Numbers
  <2> QED  BY <2>1, <2>2, GivesBack DEF Good
<1>8. CASE PlaybackFails(c)
  <2>1. Goto(c, "error") /\ UNCHANGED lockVars  BY <1>8 DEF PlaybackFails
  <2>2. LockInState("error", lock[c]) /\ "error" \in States
    BY <1>0, <1>8, NumbersAre DEF PlaybackFails, LockInState, Alone, States, CacheModified, Numbers
  <2> QED  BY <2>1, <2>2, Quiet DEF Good
<1>9. CASE ClearError(c)
  <2>1. Goto(c, "open") /\ Unlock(c, NoLock)  BY <1>9 DEF ClearError
  <2>2. LockInState("open", IF lock[c] <= NoLock THEN lock[c] ELSE NoLock) /\ "open" \in States
    BY <1>0, <1>9, NumbersAre DEF ClearError, LockInState, Alone, States, CacheModified, Numbers
  <2> QED  BY <2>1, <2>2, GivesBack DEF Good
<1> QED
  BY <1>1, <1>2, <1>3, <1>4, <1>5, <1>6, <1>7, <1>8, <1>9, <1>10, <1>11 DEF Good, Undo

LEMMA PagerInitially == Init => PagerInv
<1> SUFFICES ASSUME Init PROVE PagerInv  OBVIOUS
<1>1. LocksInv  BY LocksInitially DEF Init
<1>2. StatesHaveLocks
  BY NumbersAre DEF Init, LocksInit, StatesHaveLocks, LockInState, Alone, States, Numbers
<1> QED  BY <1>1, <1>2 DEF PagerInv

\* Every step of the pager is one of the locks and keeps the invariant.
LEMMA PagerKeeps == PagerInv /\ [Next]_vars => PagerInv' /\ [LocksNext]_lockVars
<1> SUFFICES ASSUME PagerInv, [Next]_vars PROVE PagerInv' /\ [LocksNext]_lockVars  OBVIOUS
<1>1. StatesHaveLocks' /\ [LocksNext]_lockVars
  <2>1. CASE UNCHANGED vars
    BY <2>1 DEF vars, lockVars, PagerInv, StatesHaveLocks
  <2>2. ASSUME NEW c \in Conns, Read(c) PROVE StatesHaveLocks' /\ [LocksNext]_lockVars
    BY <2>2, ReadKeeps
  <2>3. ASSUME NEW c \in Conns, WriteTx(c) PROVE StatesHaveLocks' /\ [LocksNext]_lockVars
    BY <2>3, WriteKeeps
  <2>4. ASSUME NEW c \in Conns, Undo(c) PROVE StatesHaveLocks' /\ [LocksNext]_lockVars
    BY <2>4, UndoKeeps
  <2>5. CASE ProcessGone
    <3>1. LocksNext  BY <2>5 DEF ProcessGone, LocksNext
    <3>2. StatesHaveLocks'
      BY <2>5, NumbersAre DEF ProcessGone, LocksGone, StatesHaveLocks, LockInState, Alone, States, Numbers
    <3> QED  BY <3>1, <3>2
  <2> QED
    BY <2>1, <2>2, <2>3, <2>4, <2>5 DEF Next, Killed, PowerFails
<1> QED  BY <1>1, LocksKeep DEF PagerInv

\* However connections read, write, recover, are misled or fail, and whenever
\* the process is killed or the power fails, a writer is alone with the file.
THEOREM WritersAreAlone == Spec => []LocksExclude
<1>1. Spec => []PagerInv  BY PagerInitially, PagerKeeps, PTL DEF Spec
<1>2. PagerInv => LocksExclude  BY DEF PagerInv, LocksInv
<1> QED  BY <1>1, <1>2, PTL

\* The pager uses the locks as unixLock asserts it does (sqlite3.c:25459).
THEOREM ImplementsLocks == Spec => LocksSpec
<1>1. Init => LocksInit  BY DEF Init
<1>2. Spec => []PagerInv  BY PagerInitially, PagerKeeps, PTL DEF Spec
<1> QED  BY <1>1, <1>2, PagerKeeps, PTL DEF Spec, LocksSpec

\* A set of numbers that is not empty has a smallest member.
LEMMA Smallest ==
  ASSUME NEW S \in SUBSET Nat, S # {}
  PROVE  \E n \in S : \A m \in S : n <= m
<1> DEFINE R == {ss \in Nat \X Nat : ss[1] < ss[2]}
<1>1. IsWellFoundedOn(R, Nat)  BY NatLessThanWellFounded DEF OpToRel
<1> HIDE DEF R
<1>2. PICK n \in S : \A m \in S : ~(<<m, n>> \in R)  BY <1>1, WFMin
<1>3. ASSUME NEW m \in S PROVE n <= m
  <2>1. <<m, n>> \notin R  BY <1>2
  <2>2. m \in Nat /\ n \in Nat  OBVIOUS
  <2>3. ~(m < n)  BY <2>1, <2>2 DEF R
  <2> QED  BY <2>2, <2>3
<1> QED  BY <1>3

\* The page that is restored next is one of those that have to be.
LEMMA FirstIs ==
  ASSUME NEW S \in SUBSET Nat, S # {}
  PROVE  First(S) \in S
BY Smallest DEF First

\* What FileSize says: the last page that is there.
LEMMA FileSizeIs ==
  /\ FileSize \in 0..Size
  /\ FileSize # 0 => file[FileSize] # Empty
  /\ \A p \in Pages : p > FileSize => file[p] = Empty
<1> DEFINE Bare(n) == \A p \in Pages : p > n => file[p] = Empty
           S == {n \in 0..Size : Bare(n)}
<1>1. Size \in S /\ S \subseteq Nat  BY PagerAssumption DEF Pages
<1>2. PICK n \in S : \A m \in S : n <= m  BY <1>1, Smallest
<1>3. n # 0 => file[n] # Empty
  <2>1. SUFFICES ASSUME n # 0, file[n] = Empty PROVE FALSE  OBVIOUS
  <2>2. n - 1 \in 0..Size /\ n \in 1..Size  BY <2>1, PagerAssumption
  <2>3. Bare(n - 1)
    <3> SUFFICES ASSUME NEW p \in Pages, p > n - 1 PROVE file[p] = Empty  OBVIOUS
    <3>1. p = n \/ p > n  BY <2>2 DEF Pages
    <3> QED  BY <2>1, <3>1
  <2> QED  BY <1>2, <2>2, <2>3
<1>4. \E m \in 0..Size : /\ m # 0 => file[m] # Empty
                         /\ \A p \in Pages : p > m => file[p] = Empty
  BY <1>2, <1>3
<1> QED  BY <1>4 DEF FileSize

-----------------------------------------------------------------------------
\* What a page may hold: Empty, the number of a transaction, or what is left of a torn write.
Written == 0..tx \union {Garbage}
\* The committed state, as a connection that opened the file now would recover it.
DB == Committed(file, journal)
\* Everything written to the file is on the disk.
Synced == \A p \in Pages : disk[p] = {file[p]}

\* The three cases of what a rollback makes of a page.
LEMMA UndoneIs ==
  ASSUME NEW j \in Journals, NEW p \in Pages, NEW v
  PROVE  /\ p > j.orig => Undone(j, p, v) = Empty
         /\ p <= j.orig /\ p \in Recorded(j) => Undone(j, p, v) = Original(j, p)
         /\ p <= j.orig /\ p \notin Recorded(j) => Undone(j, p, v) = v
<1>1. ~(p > j.orig) <=> p <= j.orig  BY PagerAssumption DEF Journals, Pages
<1>2. CASE p > j.orig
  <2>1. Undone(j, p, v) = Empty  BY <1>1, <1>2 DEF Undone
  <2> QED  BY <1>1, <1>2, <2>1
<1>3. CASE p <= j.orig /\ p \in Recorded(j)
  <2>1. ~(p > j.orig)  BY <1>1, <1>3
  <2>2. Undone(j, p, v) = Original(j, p)  BY <1>3, <2>1, Zenon DEF Undone
  <2> QED  BY <1>3, <2>1, <2>2
<1>4. CASE p <= j.orig /\ p \notin Recorded(j)
  <2>1. ~(p > j.orig)  BY <1>1, <1>4
  <2>2. Undone(j, p, v) = v  BY <1>4, <2>1, Zenon DEF Undone
  <2> QED  BY <1>4, <2>1, <2>2
<1> QED  BY <1>1, <1>2, <1>3, <1>4

\* The original of a recorded page is in one of the records.
LEMMA OriginalIs ==
  ASSUME NEW j, NEW p \in Recorded(j)
  PROVE  \E i \in DOMAIN j.recs : j.recs[i].page = p /\ Original(j, p) = j.recs[i].val
<1> DEFINE i == CHOOSE i \in DOMAIN j.recs : j.recs[i].page = p
<1>1. i \in DOMAIN j.recs /\ j.recs[i].page = p  BY DEF Recorded
<1> QED  BY <1>1 DEF Original

\* The record of a journal fits the file, whichever of its pages are on the disk.
Fits(j) ==
  /\ j.valid => j.exists
  /\ Recorded(j) \subseteq 1..j.orig
  /\ \A i \in DOMAIN j.recs : /\ j.recs[i].val \in Written
                              /\ j.recs[i].page = j.orig => j.recs[i].val # Empty
  /\ j.valid /\ j.orig # 0 => Empty \notin disk[j.orig]

\* The types of the file, of the disk below it and of the journals.
MediaTypes ==
  /\ file \in [Pages -> Written]
  /\ disk \in [Pages -> SUBSET Written]
  /\ journal \in Journals
  /\ left \subseteq Journals

\* What the file, the disk and the journal may hold between two steps: without a
\* valid journal the disk has caught up with the file (or there is no database), and
\* under a valid one every page, in whichever version, is undone to the committed one.
MediaOK ==
  /\ MediaTypes
  /\ \A p \in Pages : file[p] \in disk[p]
  /\ \A j \in left \union {journal} : Fits(j)
  /\ ~journal.valid => file = NoDatabase \/ Synced
  /\ journal.valid => \A p \in Pages : \A v \in disk[p] : Undone(journal, p, v) = DB[p]
  /\ journal.valid => \A j \in left :
       j = journal \/ (~j.valid /\ (DB = NoDatabase \/ (Synced /\ file = DB)))

\* There is nothing left to recover. A valid journal may still lie beside an
\* empty database.
Recovered == file = DB /\ (journal.valid => file = NoDatabase)

\* What c has cached is committed.
Matches(c) == \A p \in Pages : cache[c][p] \in {NotCached, DB[p]}

\* A reader knows the committed state by its change counter.
Knows(c) == Recovered /\ Matches(c) /\ cache[c][1] = DB[1] /\ DB[1] # Garbage

\* What a connection outside a transaction has kept in its cache, by the change
\* counter on page 1 it has kept too: older than the committed state, or equal to it.
Remembers(c) ==
  \/ c \in misled
  \/ cache[c][1] = NotCached
  \/ cache[c][1] < DB[1]
  \/ cache[c][1] = DB[1] /\ Matches(c)

\* The journal records the file as it still is: its size and the pages to be changed.
Prepared ==
  /\ journal.exists
  /\ \A p \in Pages : p > journal.orig => file[p] = Empty
  /\ journal.orig # 0 => file[journal.orig] # Empty
  /\ \A i \in DOMAIN journal.recs : journal.recs[i].val = file[journal.recs[i].page]

\* The pages c has yet to write are recorded, the others are in the file as c has them.
Changed(c) ==
  /\ \A p \in todo[c] : /\ p > journal.orig \/ p \in Recorded(journal)
                        /\ cache[c][p] \in 1..tx
  /\ \A p \in Pages \ todo[c] : cache[c][p] \in {NotCached, file[p]}

\* A page that c has not read has not been changed by it.
Unread(c) == \A p \in Pages : cache[c][p] = NotCached => file[p] = DB[p]

\* Every page but those in todo is back to the committed state.
Restoring(c) ==
  /\ todo[c] \subseteq Recorded(journal)
  /\ todo[c] # {} => journal.valid
  /\ \A p \in Pages \ todo[c] : file[p] = DB[p]

\* A page that is not in the journal has not been changed in the cache either.
Abandoned(c) ==
  \A p \in Pages : p <= journal.orig /\ p \notin Recorded(journal)
                     => cache[c][p] \in {NotCached, DB[p]}

\* The states before a connection has compared the change counter.
Outside == {"open", "locked", "found", "orphan", "hot", "alone", "clean", "failed",
            "replay", "replaying", "replayed"}
\* The states in which there may be pages left to write.
Busy == CacheModified \union {"dbmod", "replaying", "undoing", "undo", "error"}

\* The states of a write transaction, to its end.
Writing == {"reserved", "dbmod", "finished", "undo", "undoing", "undone"} \union CacheModified

\* What holds of connection c in state s.
ConnIn(c, s) ==
  /\ s \in Writing => c \notin misled
  /\ s \in Outside => Remembers(c)
  /\ s \notin Busy => todo[c] = {}
  /\ s = "clean" => c \in misled \/ Recovered
  /\ s = "reader" => c \in misled \/ Knows(c)
  /\ s = "reserved" => Recovered
  /\ s \in {"replayed", "undone"} \union CacheModified => file = DB
  /\ s \in {"replayed", "undone", "finished"} => Synced
  /\ s \in {"reserved", "undoing", "undone"} => Matches(c)
  /\ s \in {"reserved", "undoing", "undone", "cachemod", "exclusive"}
       => cache[c][1] = DB[1] /\ DB[1] # Garbage
  /\ s \in {"cachemod", "exclusive"} => 1 \notin todo[c]
  /\ s \in {"counted", "synced", "valid", "dbmod", "finished", "undo"}
       => cache[c][1] = DB[1] + 1
  /\ s \in {"reserved", "undo", "undoing", "undone", "dbmod", "finished"} \union CacheModified
       => DB[1] < tx
  /\ s \in CacheModified => Prepared
  /\ s \in CacheModified \union {"dbmod", "finished"} => Changed(c)
  /\ s \in {"dbmod", "finished"} => Unread(c)
  /\ s \in {"cachemod", "exclusive", "counted", "synced"} => ~journal.valid
  /\ s = "synced" => journal.synced /\ left = {Blank}
  /\ s \in {"valid", "dbmod", "finished", "undo"} => journal.valid
  /\ s = "valid" => /\ file = NoDatabase \/ Synced
                    /\ \E j \in left : ~j.valid
  /\ s \in {"dbmod", "finished", "undo", "undoing", "replay", "replaying"} => left = {journal}
  /\ s = "undo" => Abandoned(c)
  /\ s \in {"replaying", "undoing"} => Restoring(c)

\* Every connection is in the state its cache and the files say.
ConnOK(c) == ConnIn(c, state[c])

\* The types of the caches.
CacheTypes ==
  /\ cache \in [Conns -> [Pages -> Written \union {NotCached}]]
  /\ todo \in [Conns -> SUBSET Pages]
  /\ tx \in 0..MaxTx

\* The inductive invariant.
IInv == PagerInv /\ MediaOK /\ CacheTypes /\ \A c \in Conns : ConnOK(c)

\* Values are numbers.
LEMMA Numeric ==
  ASSUME IInv
  PROVE  /\ tx \in Nat /\ MaxTx \in Nat /\ tx <= MaxTx
         /\ Garbage = MaxTx + 1 /\ NotCached = MaxTx + 2 /\ Empty = 0
         /\ 1 \in Pages /\ Size \in Nat /\ Pages \subseteq Nat
         /\ Empty \in Written /\ Written \subseteq 0..MaxTx + 1 /\ Written \subseteq Values
         /\ Written \subseteq Nat
BY PagerAssumption DEF IInv, CacheTypes, Written, Garbage, NotCached, Empty, Pages, Values

\* A rollback writes nothing but values.
LEMMA UndoneType ==
  ASSUME IInv, NEW j \in left \union {journal}, NEW p \in Pages, NEW v \in Written
  PROVE  Undone(j, p, v) \in Written
<1>1. j \in Journals /\ Fits(j)  BY DEF IInv, MediaOK, MediaTypes
<1>2. p \in Recorded(j) => Original(j, p) \in Written  BY <1>1, OriginalIs DEF Fits
<1>3. p > j.orig \/ p <= j.orig  BY <1>1, Numeric DEF Journals, Pages
<1> QED  BY <1>1, <1>2, <1>3, Numeric, UndoneIs

\* The committed state is a database.
LEMMA DBType ==
  ASSUME IInv
  PROVE  DB \in [Pages -> Written]
<1>1. file \in [Pages -> Written]  BY DEF IInv, MediaOK, MediaTypes
<1>2. \A p \in Pages : Undone(journal, p, file[p]) \in Written  BY <1>1, UndoneType
<1> QED  BY <1>1, <1>2 DEF DB, Committed

\* A step in which the others have no part.
Only(c) ==
  /\ state' \in [Conns -> States]
  /\ CacheTypes'
  /\ \A d \in Conns \ {c} : /\ state'[d] = state[d]
                            /\ cache'[d] = cache[d]
                            /\ todo'[d] = todo[d]
                            /\ d \in misled' <=> d \in misled

\* A step of c that leaves the files alone has to keep what is said of c only.
LEMMA QuietKeeps ==
  ASSUME IInv, NEW c \in Conns, UNCHANGED <<file, disk, journal, left>>, tx' \in {tx, tx + 1},
         Only(c), ConnOK(c)'
  PROVE  MediaOK' /\ CacheTypes' /\ (\A d \in Conns : ConnOK(d)') /\ DB' = DB
<1>1. tx \in 0..MaxTx /\ MaxTx \in Nat /\ Written \subseteq Written'
  BY PagerAssumption DEF IInv, CacheTypes, Written
<1>2. DB' = DB /\ Synced' = Synced  BY DEF DB, Synced
<1>3. \A j : Fits(j) => Fits(j)'  BY <1>1 DEF Fits
<1>4. MediaOK'
  <2>1. MediaTypes'  BY <1>1 DEF IInv, MediaOK, MediaTypes
  <2> QED  BY <1>2, <1>3, <2>1 DEF IInv, MediaOK
<1>5. ASSUME NEW d \in Conns \ {c} PROVE ConnOK(d)'
  <2>1. /\ state'[d] = state[d] /\ cache'[d] = cache[d] /\ todo'[d] = todo[d]
        /\ d \in misled' <=> d \in misled
    BY DEF Only
  <2>2. /\ Remembers(d)' = Remembers(d) /\ Matches(d)' = Matches(d) /\ Knows(d)' = Knows(d)
        /\ Restoring(d)' = Restoring(d) /\ Abandoned(d)' = Abandoned(d) /\ Unread(d)' = Unread(d)
        /\ Prepared' = Prepared /\ Recovered' = Recovered
    BY <1>2, <2>1
    DEF Recovered, Remembers, Matches, Knows, Restoring, Abandoned, Unread, Prepared
  <2>3. Changed(d) => Changed(d)'  BY <1>1, <2>1 DEF Changed
  <2>4. ConnOK(d)  BY DEF IInv
  <2>5. DB[1] < tx => DB'[1] < tx'
    <3>1. DB[1] \in Nat  BY DBType, Numeric
    <3> QED  BY <1>1, <1>2, <3>1
  <2> QED  BY <1>2, <2>1, <2>2, <2>3, <2>4, <2>5 DEF ConnOK, ConnIn
<1> QED  BY <1>2, <1>4, <1>5 DEF Only

-----------------------------------------------------------------------------
(* Who may be where at the same time                                        *)

\* The states of a connection with SHARED or no lock.
Modest == {"open", "locked", "found", "orphan", "hot", "clean", "reader", "failed", "error"}

\* Beside EXCLUSIVE nobody holds a lock.
LEMMA AloneMeansAlone ==
  ASSUME IInv, NEW c \in Conns, state[c] \in Alone, NEW d \in Conns \ {c}
  PROVE  state[d] = "open"
<1>1. /\ lock \in [Conns -> Levels]
      /\ LockInState(state[c], lock[c]) /\ LockInState(state[d], lock[d])
      /\ state[d] \in States
  BY DEF IInv, PagerInv, LocksInv, LocksTypeOK, StatesHaveLocks
<1>2. lock[c] = Exclusive  BY <1>1 DEF LockInState
<1>3. lock[d] = NoLock  BY <1>2 DEF IInv, PagerInv, LocksInv, LocksExclude
<1> QED  BY <1>1, <1>3, NumbersAre DEF LockInState, Numbers, Alone, States, CacheModified

\* Beside RESERVED nobody holds more than SHARED.
LEMMA OneWriter ==
  ASSUME IInv, NEW c \in Conns, state[c] \in {"reserved", "cachemod"}, NEW d \in Conns \ {c}
  PROVE  state[d] \in Modest
<1>1. /\ lock \in [Conns -> Levels]
      /\ LockInState(state[c], lock[c]) /\ LockInState(state[d], lock[d])
      /\ state[d] \in States
  BY DEF IInv, PagerInv, LocksInv, LocksTypeOK, StatesHaveLocks
<1>2. lock[c] \in {Reserved, Pending}  BY <1>1 DEF LockInState
<1>3. lock[d] <= Shared
  BY <1>1, <1>2, NumbersAre DEF IInv, PagerInv, LocksInv, LocksExclude, Numbers
<1> QED
  BY <1>1, <1>3, NumbersAre DEF LockInState, Numbers, Alone, States, CacheModified, Modest

\* Who reads is where no committed state is replaced.
LEMMA ModestKeeps ==
  ASSUME IInv, NEW d \in Conns, state[d] \in Modest,
         state'[d] = state[d], cache'[d] = cache[d], todo'[d] = todo[d],
         d \in misled' <=> d \in misled, DB' = DB, file' = file, journal'.valid => journal.valid
  PROVE  ConnOK(d)'
<1>1. ConnOK(d)  BY DEF IInv
<1>2. /\ Remembers(d)' = Remembers(d) /\ (Recovered => Recovered') /\ (Knows(d) => Knows(d)')
  BY DEF Remembers, Matches, Recovered, Knows
<1> QED  BY <1>1, <1>2 DEF ConnOK, ConnIn, Modest, Outside, Busy, Writing, CacheModified

\* Who holds no lock is not disturbed by a commit: the change counter tells it.
LEMMA OpenKeeps ==
  ASSUME IInv, NEW d \in Conns, state[d] = "open",
         state'[d] = state[d], cache'[d] = cache[d], todo'[d] = todo[d],
         d \in misled' <=> d \in misled, DB' = DB \/ DB'[1] = DB[1] + 1
  PROVE  ConnOK(d)'
<1>1. ConnOK(d)  BY DEF IInv
<1>2. Remembers(d)'
  <2>1. Remembers(d)  BY <1>1 DEF ConnOK, ConnIn, Outside
  <2>2. CASE DB' = DB  BY <2>1, <2>2 DEF Remembers, Matches
  <2>3. CASE DB'[1] = DB[1] + 1
    <3>1. DB[1] \in Nat /\ cache[d][1] \in Nat
      BY DBType, Numeric DEF IInv, CacheTypes
    <3> QED  BY <2>1, <2>3, <3>1 DEF Remembers
  <2> QED  BY <2>2, <2>3
<1> QED  BY <1>1, <1>2 DEF ConnOK, ConnIn, Outside, Busy, Writing, CacheModified

-----------------------------------------------------------------------------
(* Steps that leave the files as they are                                   *)

\* A step after which the invariant of the files and the connections holds again.
Kept == MediaOK' /\ CacheTypes' /\ \A d \in Conns : ConnOK(d)'

\* A step of connection c that leaves the committed state alone.
Mine(c) == Kept /\ Only(c) /\ DB' = DB

\* A move of c alone.
LEMMA Moves ==
  ASSUME IInv, NEW c \in Conns, NEW t \in States, Goto(c, t), UNCHANGED <<cache, todo, tx, misled>>
  PROVE  Only(c) /\ state'[c] = t
<1>1. state \in [Conns -> States]  BY DEF IInv, PagerInv, StatesHaveLocks
<1>2. CacheTypes'  BY DEF IInv, CacheTypes, Written
<1> QED  BY <1>1, <1>2 DEF Only, Goto

\* Whatever is said of connection c but for its state.
LEMMA SameSaid ==
  ASSUME NEW c \in Conns, UNCHANGED <<file, disk, journal, left>>,
         cache'[c] = cache[c], todo'[c] = todo[c], UNCHANGED <<tx, misled>>
  PROVE  /\ DB' = DB /\ Synced' = Synced
         /\ Remembers(c)' = Remembers(c) /\ Matches(c)' = Matches(c) /\ Knows(c)' = Knows(c)
         /\ Restoring(c)' = Restoring(c) /\ Abandoned(c)' = Abandoned(c) /\ Unread(c)' = Unread(c)
         /\ Prepared' = Prepared /\ Changed(c)' = Changed(c) /\ Recovered' = Recovered
BY DEF Recovered, DB, Synced, Remembers, Matches, Knows, Restoring, Abandoned, Unread, Prepared,
       Changed

\* A step of c to where everything that is said of c holds already.
LEMMA QuietMove ==
  ASSUME IInv, NEW c \in Conns, NEW t \in States, Goto(c, t), ConnIn(c, t),
         UNCHANGED <<file, disk, journal, left>>, UNCHANGED <<cache, todo, tx, misled>>
  PROVE  Mine(c)
<1>1. Only(c) /\ state'[c] = t  BY Moves
<1>2. /\ DB' = DB /\ Synced' = Synced
      /\ Remembers(c)' = Remembers(c) /\ Matches(c)' = Matches(c) /\ Knows(c)' = Knows(c)
      /\ Restoring(c)' = Restoring(c) /\ Abandoned(c)' = Abandoned(c) /\ Unread(c)' = Unread(c)
      /\ Prepared' = Prepared /\ Changed(c)' = Changed(c) /\ Recovered' = Recovered
  BY SameSaid
<1>3. ConnOK(c)'  BY <1>1, <1>2 DEF ConnOK, ConnIn
<1>4. tx' \in {tx, tx + 1}  OBVIOUS
<1> QED  BY <1>1, <1>3, <1>4, QuietKeeps DEF Kept, Mine

LEMMA TakeSharedKeeps ==
  ASSUME IInv, NEW c \in Conns, TakeShared(c)
  PROVE  Mine(c)
<1>1. /\ state[c] \in {"open"}
      /\ UNCHANGED <<file, disk, journal, left>> /\ UNCHANGED <<cache, todo, tx, misled>>
  BY DEF TakeShared, files, journals, history
<1>2. PICK t \in {"locked"} : Goto(c, t)  BY DEF TakeShared
<1>3. ConnIn(c, t)
  BY <1>1, <1>2 DEF IInv, ConnOK, ConnIn, Outside, Busy, Writing, CacheModified
<1>4. t \in States  BY DEF States, CacheModified
<1> QED  BY <1>1, <1>2, <1>3, <1>4, QuietMove

LEMMA LockForRecoveryKeeps ==
  ASSUME IInv, NEW c \in Conns, LockForRecovery(c)
  PROVE  Mine(c)
<1>1. /\ state[c] \in {"hot"}
      /\ UNCHANGED <<file, disk, journal, left>> /\ UNCHANGED <<cache, todo, tx, misled>>
  BY DEF LockForRecovery, files, journals, history
<1>2. PICK t \in {"alone", "failed"} : Goto(c, t)  BY DEF LockForRecovery
<1>3. ConnIn(c, t)
  BY <1>1, <1>2 DEF IInv, ConnOK, ConnIn, Outside, Busy, Writing, CacheModified
<1>4. t \in States  BY DEF States, CacheModified
<1> QED  BY <1>1, <1>2, <1>3, <1>4, QuietMove

LEMMA PlaybackFailsKeeps ==
  ASSUME IInv, NEW c \in Conns, PlaybackFails(c)
  PROVE  Mine(c)
<1>1. /\ state[c] \in {"replay", "undo", "replaying", "undoing"}
      /\ UNCHANGED <<file, disk, journal, left>> /\ UNCHANGED <<cache, todo, tx, misled>>
  BY DEF PlaybackFails, files, journals, history
<1>2. PICK t \in {"error"} : Goto(c, t)  BY DEF PlaybackFails
<1>3. ConnIn(c, t)
  BY <1>1, <1>2 DEF IInv, ConnOK, ConnIn, Outside, Busy, Writing, CacheModified
<1>4. t \in States  BY DEF States, CacheModified
<1> QED  BY <1>1, <1>2, <1>3, <1>4, QuietMove

LEMMA CommitFailsKeeps ==
  ASSUME IInv, NEW c \in Conns, CommitFails(c)
  PROVE  Mine(c)
<1>1. /\ state[c] \in {"finished"}
      /\ UNCHANGED <<file, disk, journal, left>> /\ UNCHANGED <<cache, todo, tx, misled>>
  BY DEF CommitFails, files, journals, history
<1>2. PICK t \in {"error"} : Goto(c, t)  BY DEF CommitFails
<1>3. ConnIn(c, t)
  BY <1>1, <1>2 DEF IInv, ConnOK, ConnIn, Outside, Busy, Writing, CacheModified
<1>4. t \in States  BY DEF States, CacheModified
<1> QED  BY <1>1, <1>2, <1>3, <1>4, QuietMove

LEMMA RollbackFailsKeeps ==
  ASSUME IInv, NEW c \in Conns, RollbackFails(c)
  PROVE  Mine(c)
<1>1. /\ state[c] \in CacheModified
      /\ UNCHANGED <<file, disk, journal, left>> /\ UNCHANGED <<cache, todo, tx, misled>>
  BY DEF RollbackFails, files, journals, history
<1>2. PICK t \in {"error"} : Goto(c, t)  BY DEF RollbackFails
<1>3. ConnIn(c, t)
  BY <1>1, <1>2 DEF IInv, ConnOK, ConnIn, Outside, Busy, Writing, CacheModified
<1>4. t \in States  BY DEF States, CacheModified
<1> QED  BY <1>1, <1>2, <1>3, <1>4, QuietMove

LEMMA EndPlaybackFailsKeeps ==
  ASSUME IInv, NEW c \in Conns, EndPlaybackFails(c)
  PROVE  Mine(c)
<1>1. /\ state[c] \in {"replayed", "undone"}
      /\ UNCHANGED <<file, disk, journal, left>> /\ UNCHANGED <<cache, todo, tx, misled>>
  BY DEF EndPlaybackFails, files, journals, history
<1>2. PICK t \in {"error"} : Goto(c, t)  BY DEF EndPlaybackFails
<1>3. ConnIn(c, t)
  BY <1>1, <1>2 DEF IInv, ConnOK, ConnIn, Outside, Busy, Writing, CacheModified
<1>4. t \in States  BY DEF States, CacheModified
<1> QED  BY <1>1, <1>2, <1>3, <1>4, QuietMove

LEMMA EndReadKeeps ==
  ASSUME IInv, NEW c \in Conns, EndRead(c)
  PROVE  Mine(c)
<1>1. /\ state[c] \in {"reader", "failed"}
      /\ UNCHANGED <<file, disk, journal, left>> /\ UNCHANGED <<cache, todo, tx, misled>>
  BY DEF EndRead, files, journals, history
<1>2. PICK t \in {"open"} : Goto(c, t)  BY DEF EndRead
<1>3. c \in misled \/ Knows(c) => Remembers(c)  BY DEF Remembers, Knows
<1>4. ConnIn(c, t)
  BY <1>1, <1>2, <1>3 DEF IInv, ConnOK, ConnIn, Outside, Busy, Writing, CacheModified
<1>5. t \in States  BY DEF States, CacheModified
<1> QED  BY <1>1, <1>2, <1>4, <1>5, QuietMove

LEMMA LookForJournalKeeps ==
  ASSUME IInv, NEW c \in Conns, LookForJournal(c)
  PROVE  Mine(c)
<1>1. /\ state[c] \in {"locked"}
      /\ UNCHANGED <<file, disk, journal, left>> /\ UNCHANGED <<cache, todo, tx, misled>>
  BY DEF LookForJournal, files, journals, history
<1>2. PICK t \in {"found", "clean"} :
        Goto(c, t) /\ (t = "clean" => Recovered)
  <2>1. ~journal.valid => Recovered  BY DEF DB, Committed, Recovered
  <2>2. ~journal.exists => ~journal.valid  BY DEF IInv, MediaOK, Fits
  <2> QED  BY <2>1, <2>2 DEF LookForJournal
<1>3. ConnIn(c, t)
  BY <1>1, <1>2 DEF IInv, ConnOK, ConnIn, Outside, Busy, Writing, CacheModified
<1>4. t \in States  BY DEF States, CacheModified
<1> QED  BY <1>1, <1>2, <1>3, <1>4, QuietMove

LEMMA LookIntoJournalKeeps ==
  ASSUME IInv, NEW c \in Conns, LookIntoJournal(c)
  PROVE  Mine(c)
<1>1. /\ state[c] \in {"orphan"}
      /\ UNCHANGED <<file, disk, journal, left>> /\ UNCHANGED <<cache, todo, tx, misled>>
  BY DEF LookIntoJournal, files, journals, history
<1>2. PICK t \in {"hot", "clean"} :
        Goto(c, t) /\ (t = "clean" => Recovered)
  <2>1. ~journal.valid => Recovered  BY DEF DB, Committed, Recovered
  <2> QED  BY <2>1 DEF LookIntoJournal
<1>3. ConnIn(c, t)
  BY <1>1, <1>2 DEF IInv, ConnOK, ConnIn, Outside, Busy, Writing, CacheModified
<1>4. t \in States  BY DEF States, CacheModified
<1> QED  BY <1>1, <1>2, <1>3, <1>4, QuietMove

LEMMA NothingToRecoverKeeps ==
  ASSUME IInv, NEW c \in Conns, NothingToRecover(c)
  PROVE  Mine(c)
<1>1. /\ state[c] \in {"alone"}
      /\ UNCHANGED <<file, disk, journal, left>> /\ UNCHANGED <<cache, todo, tx, misled>>
  BY DEF NothingToRecover, files, journals, history
<1>2. PICK t \in {"clean"} :
        Goto(c, t) /\ (t = "clean" => Recovered)
  <2>1. ~journal.valid => Recovered  BY DEF DB, Committed, Recovered
  <2>2. ~journal.exists => ~journal.valid  BY DEF IInv, MediaOK, Fits
  <2> QED  BY <2>1, <2>2 DEF NothingToRecover
<1>3. ConnIn(c, t)
  BY <1>1, <1>2 DEF IInv, ConnOK, ConnIn, Outside, Busy, Writing, CacheModified
<1>4. t \in States  BY DEF States, CacheModified
<1> QED  BY <1>1, <1>2, <1>3, <1>4, QuietMove

\* A writer that does not mislead has nothing to be recovered from.
LEMMA WriterSeen ==
  ASSUME IInv, NEW c \in Conns, state[c] = "found", ReservedHeld,
         ~(RecoveryRefused /\ journal.valid)
  PROVE  Recovered
<1>1. /\ lock \in [Conns -> Levels] /\ inode.eFileLock \in Levels
      /\ inode.eFileLock > Shared
  BY DEF IInv, PagerInv, LocksInv, LocksTypeOK, ReservedHeld
<1>2. PICK d \in Conns : lock[d] = inode.eFileLock
  BY <1>1, NumbersAre DEF IInv, PagerInv, LocksInv, Highest, Numbers
<1>3. /\ LockInState(state[c], lock[c]) /\ LockInState(state[d], lock[d])
      /\ state[d] \in States
  BY DEF IInv, PagerInv, StatesHaveLocks
<1>4. lock[c] = Shared  BY <1>3 DEF LockInState
<1>5. d # c  BY <1>1, <1>2, <1>4, NumbersAre DEF Numbers
<1>6. lock[d] # Exclusive
  BY <1>4, <1>5, NumbersAre DEF IInv, PagerInv, LocksInv, LocksExclude, Numbers
<1>7. CASE ~journal.valid  BY <1>7 DEF Recovered, DB, Committed
<1>8. CASE ~RecoveryRefused
  <2>1. ~(state[d] = "failed" /\ lock[d] = Pending)  BY <1>8 DEF RecoveryRefused
  <2>2. state[d] \in {"reserved", "cachemod"}
    BY <1>1, <1>2, <1>3, <1>6, <2>1, NumbersAre
    DEF LockInState, Numbers, States, Alone, CacheModified
  <2>3. ConnOK(d)  BY DEF IInv
  <2> QED  BY <2>2, <2>3 DEF ConnOK, ConnIn, Writing, CacheModified, Recovered
<1> QED  BY <1>7, <1>8

\* Who has been misled goes on as if there were nothing to recover.
LEMMA LookForWriterKeeps ==
  ASSUME IInv, NEW c \in Conns, LookForWriter(c)
  PROVE  Mine(c)
<1>1. /\ state[c] = "found"
      /\ UNCHANGED <<file, disk, journal, left>> /\ UNCHANGED <<cache, todo, tx>>
      /\ misled' = IF RecoveryRefused /\ journal.valid THEN misled \union {c} ELSE misled
  BY DEF LookForWriter, files, journals
<1>2. PICK t \in {"clean", "orphan"} :
        Goto(c, t) /\ (t = "clean" => ReservedHeld)
  BY DEF LookForWriter
<1>3. t \in States  BY DEF States, CacheModified
<1>4. CASE RecoveryRefused /\ journal.valid
  <2>1. state' \in [Conns -> States] /\ state'[c] = t
        /\ \A d \in Conns \ {c} : state'[d] = state[d]
    BY <1>2, <1>3 DEF IInv, PagerInv, StatesHaveLocks, Goto
  <2>2. c \in misled' /\ \A d \in Conns \ {c} : d \in misled' <=> d \in misled
    BY <1>1, <1>4
  <2>3. CacheTypes'  BY <1>1 DEF IInv, CacheTypes, Written
  <2>4. Only(c)  BY <1>1, <2>1, <2>2, <2>3 DEF Only
  <2>5. todo'[c] = {}
    BY <1>1 DEF IInv, ConnOK, ConnIn, Busy, CacheModified
  <2>6. ConnOK(c)'
    BY <2>1, <2>2, <2>5 DEF ConnOK, ConnIn, Remembers, Outside, Busy, Writing, CacheModified
  <2>7. tx' \in {tx, tx + 1}  BY <1>1
  <2> QED  BY <1>1, <2>4, <2>6, <2>7, QuietKeeps DEF Kept, Mine
<1>5. CASE ~(RecoveryRefused /\ journal.valid)
  <2>1. UNCHANGED <<cache, todo, tx, misled>>  BY <1>1, <1>5
  <2>2. t = "clean" => Recovered  BY <1>1, <1>2, <1>5, WriterSeen
  <2>3. ConnIn(c, t)
    BY <1>1, <1>2, <2>2 DEF IInv, ConnOK, ConnIn, Outside, Busy, Writing, CacheModified
  <2> QED  BY <1>1, <1>2, <1>3, <2>1, <2>3, QuietMove
<1> QED  BY <1>4, <1>5

LEMMA WriteFailsKeeps ==
  ASSUME IInv, NEW c \in Conns, WriteFails(c)
  PROVE  Mine(c)
<1>1. /\ state[c] \in {"dbmod"}
      /\ UNCHANGED <<file, disk, journal, left>> /\ UNCHANGED <<cache, todo, tx, misled>>
  BY DEF WriteFails, files, journals, history
<1>2. PICK t \in {"undo"} : Goto(c, t)  BY DEF WriteFails
<1>3. Abandoned(c)
  <2>1. ConnOK(c) /\ journal \in Journals  BY DEF IInv, MediaOK, MediaTypes
  <2>2. Changed(c) /\ journal.valid  BY <1>1, <2>1 DEF ConnOK, ConnIn, Writing, CacheModified
  <2>3. SUFFICES ASSUME NEW p \in Pages, p <= journal.orig, p \notin Recorded(journal)
                 PROVE  cache[c][p] \in {NotCached, DB[p]}
    BY DEF Abandoned
  <2>4. DB[p] = file[p]  BY <2>1, <2>2, <2>3, UndoneIs DEF DB, Committed
  <2>5. ~(p > journal.orig)  BY <2>1, <2>3, Numeric DEF Journals
  <2> QED  BY <2>2, <2>3, <2>4, <2>5 DEF Changed
<1>4. ConnIn(c, t)
  BY <1>1, <1>2, <1>3 DEF IInv, ConnOK, ConnIn, Outside, Busy, Writing, CacheModified
<1>5. t \in States  BY DEF States, CacheModified
<1> QED  BY <1>1, <1>2, <1>4, <1>5, QuietMove

LEMMA LockForCommitKeeps ==
  ASSUME IInv, NEW c \in Conns, LockForCommit(c)
  PROVE  Mine(c)
<1>1. /\ state[c] = "cachemod" /\ state \in [Conns -> States]
      /\ UNCHANGED <<file, disk, journal, left>> /\ UNCHANGED <<cache, todo, tx, misled>>
  BY DEF LockForCommit, files, journals, IInv, PagerInv, StatesHaveLocks, history
<1>2. PICK t \in {"cachemod", "exclusive"} : Goto(c, t)
  BY <1>1 DEF LockForCommit, Goto
<1>3. ConnIn(c, t)
  BY <1>1, <1>2 DEF IInv, ConnOK, ConnIn, Outside, Busy, Writing, CacheModified
<1>4. t \in States  BY DEF States, CacheModified
<1> QED  BY <1>1, <1>2, <1>3, <1>4, QuietMove

\* The first write of a misled connection is what spoils everything.
LEMMA BeginWriteKeeps ==
  ASSUME IInv, NEW c \in Conns, BeginWrite(c), ~spoiled'
  PROVE  Mine(c)
<1>1. /\ state[c] = "reader" /\ tx < MaxTx /\ tx' = tx + 1 /\ Goto(c, "reserved")
      /\ UNCHANGED <<file, disk, journal, left>> /\ UNCHANGED <<cache, todo, misled>>
  BY DEF BeginWrite, files, journals, history
<1>2. ConnOK(c) /\ c \notin misled  BY DEF IInv, BeginWrite
<1>3. /\ state' \in [Conns -> States] /\ state'[c] = "reserved"
      /\ \A d \in Conns \ {c} : state'[d] = state[d]
  BY <1>1 DEF IInv, PagerInv, StatesHaveLocks, Goto, States
<1>4. tx' \in 0..MaxTx /\ Written \subseteq Written'
  BY <1>1, Numeric DEF Written
<1>5. Only(c)  BY <1>1, <1>3, <1>4 DEF Only, IInv, CacheTypes
<1>6. DB' = DB  BY <1>1 DEF DB
<1>7. DB'[1] < tx'
  <2>1. DB[1] \in Written /\ DB[1] # Garbage
    BY <1>1, <1>2, DBType, Numeric DEF ConnOK, ConnIn, Knows
  <2> QED  BY <1>1, <1>6, <2>1, Numeric DEF Written
<1>8. ConnOK(c)'
  BY <1>1, <1>2, <1>3, <1>6, <1>7
  DEF ConnOK, ConnIn, Outside, Busy, Writing, CacheModified, Matches, Knows, Recovered
<1> QED  BY <1>1, <1>5, <1>8, QuietKeeps DEF Kept, Mine

\* A step of c's cache.
LEMMA Caches ==
  ASSUME IInv, NEW c \in Conns, NEW t \in States, Goto(c, t) \/ (UNCHANGED state /\ t = state[c]),
         NEW k \in [Pages -> Written \union {NotCached}], cache' = [cache EXCEPT ![c] = k],
         NEW s \in SUBSET Pages, todo' = [todo EXCEPT ![c] = s], UNCHANGED <<tx, misled>>
  PROVE  Only(c) /\ state'[c] = t /\ cache'[c] = k /\ todo'[c] = s
<1>1. /\ state \in [Conns -> States]
      /\ cache \in [Conns -> [Pages -> Written \union {NotCached}]]
      /\ todo \in [Conns -> SUBSET Pages]
  BY DEF IInv, PagerInv, StatesHaveLocks, CacheTypes
<1>2. CacheTypes'
  <2>1. Written' = Written  BY DEF Written
  <2>2. cache' \in [Conns -> [Pages -> Written \union {NotCached}]]  BY <1>1
  <2>3. todo' \in [Conns -> SUBSET Pages]  BY <1>1
  <2> QED  BY <2>1, <2>2, <2>3 DEF IInv, CacheTypes
<1>3. state' \in [Conns -> States] /\ state'[c] = t /\ \A d \in Conns \ {c} : state'[d] = state[d]
  BY <1>1 DEF Goto
<1> QED  BY <1>1, <1>2, <1>3 DEF Only

\* Nothing has been done of what is left to do.
LEMMA SameTodo ==
  ASSUME IInv, NEW c \in Conns, UNCHANGED todo
  PROVE  todo' = [todo EXCEPT ![c] = todo[c]] /\ todo[c] \in SUBSET Pages
BY DEF IInv, CacheTypes

\* An empty cache.
LEMMA NothingIs == Nothing \in [Pages -> Written \union {NotCached}] /\ Nothing[1] = NotCached
BY PagerAssumption DEF Nothing, Pages

LEMMA ReadHeaderKeeps ==
  ASSUME IInv, NEW c \in Conns, ReadHeader(c)
  PROVE  Mine(c)
<1> DEFINE k == Validated(c)
<1>1. /\ state[c] = "clean" /\ cache' = [cache EXCEPT ![c] = k]
      /\ Goto(c, IF cache'[c][1] = Garbage THEN "failed" ELSE "reader")
      /\ UNCHANGED <<file, disk, journal, left>> /\ UNCHANGED todo /\ UNCHANGED <<tx, misled>>
  BY DEF ReadHeader, files, journals, history
<1>2. ConnOK(c)  BY DEF IInv
<1>3. todo[c] = {} /\ Remembers(c) /\ (c \in misled \/ Recovered)
  BY <1>1, <1>2 DEF ConnOK, ConnIn, Outside, Busy, Writing, CacheModified
<1>4. /\ DB[1] \in Written /\ DB \in [Pages -> Written] /\ 1 \in Pages
      /\ file \in [Pages -> Written]
      /\ cache[c] \in [Pages -> Written \union {NotCached}]
  BY DBType, Numeric DEF IInv, MediaOK, MediaTypes, CacheTypes
<1>5. k \in [Pages -> Written \union {NotCached}]
  BY <1>4, NothingIs DEF Validated
<1>6. ASSUME c \notin misled
      PROVE  k[1] = DB[1] /\ \A p \in Pages : k[p] \in {NotCached, DB[p]}
  <2>0. file[1] = DB[1]  BY <1>3, <1>6 DEF Recovered
  <2>1. CASE cache[c][1] = file[1]
    <3>1. k = cache[c]  BY <2>1 DEF Validated
    <3>2. NotCached \notin Written /\ ~(cache[c][1] < DB[1])
      BY <1>4, <2>0, <2>1, Numeric
    <3>3. Matches(c)  BY <1>3, <1>4, <1>6, <2>0, <2>1, <3>2 DEF Remembers
    <3> QED  BY <1>4, <2>0, <2>1, <3>1, <3>3 DEF Matches
  <2>2. CASE cache[c][1] # file[1]
    <3>1. k = [Nothing EXCEPT ![1] = DB[1]]  BY <1>4, <2>0, <2>2 DEF Validated
    <3> QED  BY <1>4, <3>1 DEF Nothing
  <2> QED  BY <2>1, <2>2
<1> HIDE DEF k
<1>7. cache'[c] = k  BY <1>1 DEF IInv, CacheTypes
<1>8. PICK t \in {"failed", "reader"} : Goto(c, t) /\ (t = "reader" => k[1] # Garbage)
  BY <1>1, <1>7
<1>9. Only(c) /\ state'[c] = t /\ todo'[c] = {}
  <2>1. todo' = [todo EXCEPT ![c] = todo[c]] /\ t \in States  BY <1>1, SameTodo DEF States
  <2>2. todo' = [todo EXCEPT ![c] = {}]  BY <1>3, <2>1
  <2>3. Goto(c, t) /\ cache' = [cache EXCEPT ![c] = k] /\ UNCHANGED <<tx, misled>>
    BY <1>1, <1>8
  <2>4. {} \in SUBSET Pages  OBVIOUS
  <2> QED  BY <1>5, <2>1, <2>2, <2>3, <2>4, Caches
<1>10. DB' = DB  BY <1>1 DEF DB
<1>11. Remembers(c)' /\ (c \in misled' \/ t = "failed" \/ Knows(c)')
  <2>1. CASE c \in misled  BY <1>1, <2>1 DEF Remembers
  <2>2. CASE c \notin misled
    <3>1. Matches(c)' /\ cache'[c][1] = DB'[1]  BY <1>6, <1>7, <1>10, <2>2 DEF Matches
    <3>2. Recovered'  BY <1>1, <1>3, <1>10, <2>2 DEF Recovered
    <3> QED  BY <1>7, <1>8, <3>1, <3>2 DEF Remembers, Knows
  <2> QED  BY <2>1, <2>2
<1>12. ConnOK(c)'
  BY <1>8, <1>9, <1>11
  DEF ConnOK, ConnIn, Outside, Busy, Writing, CacheModified
<1> QED  BY <1>1, <1>9, <1>12, QuietKeeps DEF Kept, Mine

LEMMA ReadPageKeeps ==
  ASSUME IInv, NEW c \in Conns, NEW p \in Pages, ReadPage(c, p)
  PROVE  Mine(c)
<1> DEFINE k == [cache[c] EXCEPT ![p] = file[p]]
<1>1. /\ state[c] \in {"reader", "reserved", "cachemod"} /\ cache[c][p] = NotCached
      /\ UNCHANGED <<file, disk, journal, left>> /\ UNCHANGED state /\ UNCHANGED todo
      /\ UNCHANGED <<tx, misled>> /\ cache' = [cache EXCEPT ![c] = k]
  BY DEF ReadPage, files, journals, history, IInv, CacheTypes
<1>2. ConnOK(c)  BY DEF IInv
<1>3. /\ DB \in [Pages -> Written] /\ 1 \in Pages /\ file \in [Pages -> Written]
      /\ cache[c] \in [Pages -> Written \union {NotCached}]
      /\ state[c] \in States
  BY DBType, Numeric DEF IInv, MediaOK, MediaTypes, CacheTypes, PagerInv, StatesHaveLocks
<1>4. /\ k \in [Pages -> Written \union {NotCached}] /\ k[p] = file[p]
      /\ \A q \in Pages \ {p} : k[q] = cache[c][q]
  BY <1>3
<1> HIDE DEF k
<1>5. Only(c) /\ state'[c] = state[c] /\ cache'[c] = k /\ todo'[c] = todo[c]
  BY <1>1, <1>3, <1>4, SameTodo, Caches
<1>6. CASE c \in misled
  <2>1. state[c] = "reader" /\ todo[c] = {}
    BY <1>1, <1>2, <1>6 DEF ConnOK, ConnIn, Writing, Busy, CacheModified
  <2>2. ConnOK(c)'
    BY <1>1, <1>5, <1>6, <2>1 DEF ConnOK, ConnIn, Outside, Busy, Writing, CacheModified
  <2> QED  BY <1>1, <1>5, <2>2, QuietKeeps DEF Kept, Mine
<1>7. CASE c \notin misled
  <2>1. file = DB /\ cache[c][1] = DB[1]
    BY <1>1, <1>2, <1>7 DEF Recovered, Knows, ConnOK, ConnIn, CacheModified
  <2>2. p # 1  BY <1>1, <1>3, <2>1, Numeric
  <2>3. k[1] = DB[1] /\ k[p] = DB[p]  BY <1>3, <1>4, <2>1, <2>2
  <2>4. DB' = DB  BY <1>1 DEF DB
  <2>5. Matches(c) => Matches(c)'  BY <1>1, <1>4, <1>5, <2>3, <2>4 DEF Matches
  <2>6. Knows(c) => Knows(c)'
    BY <1>1, <1>5, <2>3, <2>4, <2>5 DEF Knows, Recovered
  <2>7. Changed(c) => Changed(c)'
    <3>1. SUFFICES ASSUME Changed(c) PROVE Changed(c)'  OBVIOUS
    <3>2. p \notin todo[c]  BY <1>1, <3>1, Numeric DEF Changed
    <3>3. Recorded(journal)' = Recorded(journal) /\ journal' = journal  BY <1>1 DEF Recorded
    <3>4. \A q \in todo[c] : k[q] = cache[c][q]
      BY <1>4, <3>2 DEF IInv, CacheTypes
    <3> QED  BY <1>1, <1>4, <1>5, <2>1, <3>1, <3>2, <3>3, <3>4 DEF Changed
  <2>8. ConnOK(c)'
    BY <1>1, <1>2, <1>5, <1>7, <2>1, <2>3, <2>4, <2>5, <2>6, <2>7
    DEF ConnOK, ConnIn, Outside, Busy, Writing, CacheModified, Prepared, Recovered
  <2> QED  BY <1>1, <1>5, <2>8, QuietKeeps DEF Kept, Mine
<1> QED  BY <1>6, <1>7

LEMMA ClearErrorKeeps ==
  ASSUME IInv, NEW c \in Conns, ClearError(c)
  PROVE  Mine(c)
<1>1. /\ cache' = [cache EXCEPT ![c] = Nothing] /\ todo' = [todo EXCEPT ![c] = {}]
      /\ Goto(c, "open")
      /\ UNCHANGED <<file, disk, journal, left>> /\ UNCHANGED <<tx, misled>>
  BY DEF ClearError, files, journals, history
<1>2. Only(c) /\ state'[c] = "open" /\ cache'[c] = Nothing /\ todo'[c] = {}
  BY <1>1, NothingIs, Caches DEF States
<1>3. Remembers(c)'  BY <1>2, NothingIs DEF Remembers
<1>4. ConnOK(c)'  BY <1>2, <1>3 DEF ConnOK, ConnIn, Outside, Busy, Writing, CacheModified
<1> QED  BY <1>1, <1>2, <1>4, QuietKeeps DEF Kept, Mine

-----------------------------------------------------------------------------
(* Steps on the files                                                       *)

\* Who is alone with the file may change the committed state by one transaction.
LEMMA AloneStep ==
  ASSUME IInv, NEW c \in Conns, state[c] \in Alone, Only(c),
         DB' = DB \/ DB'[1] = DB[1] + 1, MediaOK', ConnOK(c)'
  PROVE  Kept
<1>1. ASSUME NEW d \in Conns \ {c} PROVE ConnOK(d)'
  BY AloneMeansAlone, OpenKeeps DEF Only
<1> QED  BY <1>1 DEF Kept, Only

\* Who holds RESERVED may change what nobody else reads: its cache and the journal.
LEMMA WriterStep ==
  ASSUME IInv, NEW c \in Conns, state[c] \in {"reserved", "cachemod"}, Only(c),
         DB' = DB, file' = file, journal'.valid => journal.valid, MediaOK', ConnOK(c)'
  PROVE  Kept
<1>1. ASSUME NEW d \in Conns \ {c} PROVE ConnOK(d)'
  BY OneWriter, ModestKeeps DEF Only
<1> QED  BY <1>1 DEF Kept, Only

\* What the invariant says of the journal.
LEMMA JournalIs ==
  ASSUME IInv
  PROVE  /\ journal \in Journals /\ Fits(journal)
         /\ file \in [Pages -> Written] /\ disk \in [Pages -> SUBSET Written]
         /\ ~journal.valid => DB = file
         /\ \A p \in Pages : journal.valid => DB[p] = Undone(journal, p, file[p])
BY DEF IInv, MediaOK, MediaTypes, DB, Committed

\* A journal without records fits any file.
LEMMA BlankFits ==
  ASSUME IInv, NEW j \in Journals, j.recs = <<>>, ~j.valid
  PROVE  Fits(j)
BY DEF Fits, Recorded

\* A new journal and a deleted one record nothing.
LEMMA BlanksAre ==
  /\ NoJournal \in Journals /\ NoJournal.recs = <<>> /\ ~NoJournal.valid
  /\ Blank \in Journals /\ Blank.recs = <<>> /\ ~Blank.valid /\ Blank.exists
<1>1. 0 \in 0..Size /\ <<>> \in Seq([page : Pages, val : Values])  BY PagerAssumption
<1>2. NoJournal = [exists |-> FALSE, valid |-> FALSE, synced |-> FALSE, orig |-> 0, recs |-> <<>>]
  BY DEF NoJournal
<1>3. Blank = [exists |-> TRUE, valid |-> FALSE, synced |-> FALSE, orig |-> 0, recs |-> <<>>]
  <2>1. Blank = [NoJournal EXCEPT !.exists = TRUE]  BY DEF Blank
  <2> HIDE DEF Blank
  <2> QED  BY <1>2, <2>1
<1>4. NoJournal.recs = <<>> /\ Blank.recs = <<>>  BY <1>2, <1>3
<1>5. NoJournal \in Journals  BY <1>1, <1>2 DEF Journals
<1>6. Blank \in Journals  BY <1>1, <1>3 DEF Journals
<1> QED  BY <1>2, <1>3, <1>4, <1>5, <1>6

\* Whether a journal fits depends on the disk alone.
LEMMA SameFits ==
  ASSUME UNCHANGED <<disk, tx>>, NEW j
  PROVE  Fits(j)' = Fits(j)
BY DEF Fits, Written

\* The journal gives way to one that does not count.
LEMMA Dropped ==
  ASSUME IInv, UNCHANGED <<file, disk, tx>>, file = NoDatabase \/ Synced,
         NEW j \in Journals, j.recs = <<>>, ~j.valid, journal' = j,
         NEW k \in Journals, k.recs = <<>>, ~k.valid, left' = left \union {k}
  PROVE  MediaOK' /\ DB' = file /\ ~journal'.valid
<1>1. DB' = file  BY DEF DB, Committed
<1>2. MediaTypes'  BY DEF IInv, MediaOK, MediaTypes, Written
<1>3. ASSUME NEW i \in left' \union {journal'} PROVE Fits(i)'
  <2>1. Fits(i)  BY BlankFits DEF IInv, MediaOK
  <2> QED  BY <2>1, SameFits
<1>4. Synced' = Synced  BY DEF Synced
<1> QED  BY <1>1, <1>2, <1>3, <1>4 DEF IInv, MediaOK

\* Page p, of which the journal has the original, gets another value.
LEMMA PutKeeps ==
  ASSUME IInv, journal.valid, left = {journal}, UNCHANGED <<journal, left, tx>>,
         NEW p \in Pages, p > journal.orig \/ p \in Recorded(journal),
         NEW v \in Written, p = journal.orig => v # Empty, Put(p, v)
  PROVE  /\ MediaOK' /\ DB' = DB /\ file'[p] = v
         /\ \A q \in Pages \ {p} : file'[q] = file[q]
<1>1. /\ journal \in Journals /\ Fits(journal)
      /\ file \in [Pages -> Written] /\ disk \in [Pages -> SUBSET Written]
      /\ DB \in [Pages -> Written]
  BY JournalIs, DBType
<1>2. file' = [file EXCEPT ![p] = v] /\ disk' = [disk EXCEPT ![p] = disk[p] \union {v, Garbage}]
  BY DEF Put
<1>3. Written' = Written /\ Garbage \in Written  BY DEF Written
<1>4. /\ file' \in [Pages -> Written] /\ disk' \in [Pages -> SUBSET Written]
      /\ file'[p] = v /\ \A q \in Pages \ {p} : file'[q] = file[q] /\ disk'[q] = disk[q]
      /\ disk'[p] = disk[p] \union {v, Garbage}
  BY <1>1, <1>2, <1>3
<1>5. ASSUME NEW w PROVE Undone(journal, p, w) = DB[p]
  <2>1. DB[p] = Undone(journal, p, file[p])  BY JournalIs
  <2>2. p > journal.orig \/ (p <= journal.orig /\ p \in Recorded(journal))
    BY <1>1 DEF Fits
  <2> QED  BY <1>1, <2>1, <2>2, UndoneIs
<1>6. DB' = DB
  <2>1. DB' = [q \in Pages |-> Undone(journal, q, file'[q])]  BY DEF DB, Committed
  <2>2. ASSUME NEW q \in Pages PROVE DB'[q] = DB[q]
    BY <1>4, <1>5, <2>1, JournalIs
  <2> QED  BY <1>1, <2>1, <2>2
<1>7. Fits(journal)'
  <2>1. Garbage # Empty  BY Numeric
  <2>2. journal.orig # 0 => Empty \notin disk'[journal.orig]
    <3>1. journal.orig # 0 => journal.orig \in Pages /\ Empty \notin disk[journal.orig]
      BY <1>1, PagerAssumption DEF Journals, Pages, Fits
    <3> QED  BY <1>4, <2>1, <3>1
  <2> QED  BY <1>1, <1>3, <2>2 DEF Fits
<1>8. ASSUME NEW q \in Pages PROVE /\ file'[q] \in disk'[q]
                                   /\ \A w \in disk'[q] : Undone(journal, q, w) = DB[q]
  BY <1>4, <1>5 DEF IInv, MediaOK
<1>9. MediaTypes'  BY <1>3, <1>4 DEF IInv, MediaOK, MediaTypes
<1> QED  BY <1>4, <1>6, <1>7, <1>8, <1>9 DEF MediaOK

\* A sync leaves one version of every page.
LEMMA SyncKeeps ==
  ASSUME IInv, SyncFile, UNCHANGED <<journal, left, tx>>, left = {journal}
  PROVE  MediaOK' /\ DB' = DB /\ Synced'
<1>1. /\ file' = file /\ disk' = [p \in Pages |-> {file[p]}] /\ Written' = Written
      /\ file \in [Pages -> Written] /\ disk \in [Pages -> SUBSET Written]
  BY JournalIs DEF SyncFile, Written
<1>2. DB' = DB  BY <1>1 DEF DB
<1>3. Synced'  BY <1>1 DEF Synced
<1>4. Fits(journal)'
  <2>1. \A p \in Pages : disk'[p] \subseteq disk[p]  BY <1>1 DEF IInv, MediaOK
  <2>2. journal.orig # 0 => journal.orig \in Pages
    BY JournalIs, PagerAssumption DEF Journals, Pages
  <2> QED  BY <1>1, <2>1, <2>2, JournalIs DEF Fits
<1>5. MediaTypes'  BY <1>1 DEF IInv, MediaOK, MediaTypes
<1>6. journal.valid => \A p \in Pages : \A v \in disk'[p] : Undone(journal, p, v) = DB[p]
  BY <1>1, JournalIs
<1> QED  BY <1>1, <1>2, <1>3, <1>4, <1>5, <1>6 DEF MediaOK

\* What a journal holds after a page has been recorded.
LEMMA RecordingIs ==
  ASSUME NEW j \in Journals, NEW c \in Conns, NEW p \in Pages, cache[c][p] \in Values
  PROVE  LET r == Recording(j, c, p)
         IN /\ r \in Journals
            /\ r.exists = j.exists /\ r.valid = j.valid /\ r.orig = j.orig
            /\ Recorded(j) \subseteq Recorded(r) /\ Recorded(r) \subseteq Recorded(j) \union {p}
            /\ p > j.orig \/ p \in Recorded(r)
            /\ \A i \in DOMAIN r.recs :
                 \/ \E k \in DOMAIN j.recs : r.recs[i] = j.recs[k]
                 \/ /\ r.recs[i].page = p /\ r.recs[i].val = cache[c][p]
                    /\ p <= j.orig /\ p \notin Recorded(j)
<1> DEFINE r == Recording(j, c, p)
           e == [page |-> p, val |-> cache[c][p]]
<1>1. CASE p > j.orig \/ p \in Recorded(j)
  <2>1. r = j  BY <1>1 DEF Recording
  <2> QED  BY <1>1, <2>1
<1>2. CASE ~(p > j.orig \/ p \in Recorded(j))
  <2>1. r = [j EXCEPT !.recs = Append(j.recs, e), !.synced = FALSE]  BY <1>2 DEF Recording
  <2>2. j.recs \in Seq([page : Pages, val : Values]) /\ e \in [page : Pages, val : Values]
    BY DEF Journals
  <2> DEFINE q == Append(j.recs, e)
  <2>3. /\ q \in Seq([page : Pages, val : Values])
        /\ DOMAIN q = 1..Len(j.recs) + 1 /\ DOMAIN j.recs = 1..Len(j.recs) /\ Len(j.recs) \in Nat
        /\ \A i \in DOMAIN j.recs : q[i] = j.recs[i]
        /\ q[Len(j.recs) + 1] = e
    BY <2>2
  <2> HIDE DEF q
  <2>4. /\ r \in Journals /\ r.recs = q
        /\ r.exists = j.exists /\ r.valid = j.valid /\ r.orig = j.orig
    BY <2>1, <2>3 DEF Journals, q
  <2>5. \A i \in DOMAIN q : i \in DOMAIN j.recs \/ i = Len(j.recs) + 1  BY <2>3
  <2>6. Recorded(r) = Recorded(j) \union {p}
    <3>1. DOMAIN j.recs \subseteq DOMAIN q /\ Len(j.recs) + 1 \in DOMAIN q  BY <2>3
    <3> QED  BY <2>3, <2>4, <2>5, <3>1 DEF Recorded
  <2>7. p <= j.orig  BY <1>2, PagerAssumption DEF Pages, Journals
  <2> QED  BY <1>2, <2>3, <2>4, <2>5, <2>6, <2>7
<1> QED  BY <1>1, <1>2

\* Page p is changed in c's cache, after its original has gone into the journal.
LEMMA ChangeKeeps ==
  ASSUME IInv, NEW c \in Conns, state[c] \in {"cachemod", "exclusive"},
         NEW p \in Pages \ todo[c], cache[c][p] # NotCached \/ p > journal.orig,
         NEW v \in 1..tx, Change(c, p, v), UNCHANGED <<file, disk, left, tx, misled>>,
         NEW t \in States, Goto(c, t) \/ (UNCHANGED state /\ t = state[c])
  PROVE  /\ MediaOK' /\ DB' = DB /\ Prepared' /\ Changed(c)' /\ ~journal'.valid
         /\ Only(c) /\ state'[c] = t
         /\ cache'[c][p] = v /\ \A q \in Pages \ {p} : cache'[c][q] = cache[c][q]
         /\ todo'[c] = todo[c] \union {p}
<1>1. /\ ConnOK(c) /\ Prepared /\ Changed(c) /\ ~journal.valid
      /\ cache[c] \in [Pages -> Written \union {NotCached}] /\ todo[c] \in SUBSET Pages
  BY DEF IInv, ConnOK, ConnIn, Writing, CacheModified, CacheTypes
<1>2. /\ journal \in Journals /\ Fits(journal) /\ DB = file /\ file \in [Pages -> Written]
  BY <1>1, JournalIs
<1>3. /\ cache[c][p] \in Values /\ v \in Written
  BY <1>1, Numeric DEF Written, Values
<1> DEFINE r == Recording(journal, c, p)
<1>4. /\ r \in Journals
      /\ r.exists = journal.exists /\ r.valid = journal.valid /\ r.orig = journal.orig
      /\ Recorded(journal) \subseteq Recorded(r)
      /\ Recorded(r) \subseteq Recorded(journal) \union {p}
      /\ p > journal.orig \/ p \in Recorded(r)
      /\ \A i \in DOMAIN r.recs :
           \/ \E k \in DOMAIN journal.recs : r.recs[i] = journal.recs[k]
           \/ /\ r.recs[i].page = p /\ r.recs[i].val = cache[c][p]
              /\ p <= journal.orig /\ p \notin Recorded(journal)
  BY <1>2, <1>3, RecordingIs
<1>5. journal' = r  BY DEF Change
<1> HIDE DEF r
<1> DEFINE k == [cache[c] EXCEPT ![p] = v]
<1>6. /\ k \in [Pages -> Written \union {NotCached}] /\ k[p] = v
      /\ \A q \in Pages \ {p} : k[q] = cache[c][q]
  BY <1>1, <1>3
<1>7. cache' = [cache EXCEPT ![c] = k] /\ todo' = [todo EXCEPT ![c] = todo[c] \union {p}]
  BY DEF Change
<1> HIDE DEF k
<1>8. todo[c] \union {p} \in SUBSET Pages  BY <1>1
<1>9. Only(c) /\ state'[c] = t /\ cache'[c] = k /\ todo'[c] = todo[c] \union {p}
  <2>1. k \in [Pages -> Written \union {NotCached}]  BY <1>6
  <2>2. UNCHANGED <<tx, misled>>  OBVIOUS
  <2>3. PICK u \in SUBSET Pages : u = todo[c] \union {p}  BY <1>8
  <2>4. todo' = [todo EXCEPT ![c] = u]  BY <1>7, <2>3
  <2>5. Only(c) /\ state'[c] = t /\ cache'[c] = k /\ todo'[c] = u
    <3>0. cache' = [cache EXCEPT ![c] = k]  BY <1>7
    <3>1. CASE Goto(c, t)  BY <2>1, <2>2, <2>4, <3>0, <3>1, Caches
    <3>2. CASE UNCHANGED state /\ t = state[c]  BY <2>1, <2>2, <2>4, <3>0, <3>2, Caches
    <3> QED  BY <3>1, <3>2
  <2> QED  BY <2>3, <2>5
<1>10. p <= journal.orig => cache[c][p] = file[p]
  <2>1. p <= journal.orig => ~(p > journal.orig)  BY <1>2, Numeric DEF Journals
  <2> QED  BY <1>1, <2>1 DEF Changed
<1>11. DB' = DB /\ ~journal'.valid
  <2>1. ~r.valid  BY <1>1, <1>4
  <2>2. ~journal'.valid /\ file' = file  BY <1>5, <2>1
  <2> QED  BY <1>2, <2>2 DEF DB, Committed
<1>12. Prepared'
  <2>1. ASSUME NEW i \in DOMAIN r.recs PROVE r.recs[i].val = file[r.recs[i].page]
    <3>1. CASE \E m \in DOMAIN journal.recs : r.recs[i] = journal.recs[m]
      BY <1>1, <3>1 DEF Prepared
    <3>2. CASE r.recs[i].page = p /\ r.recs[i].val = cache[c][p] /\ p <= journal.orig
      BY <1>10, <3>2
    <3> QED  BY <1>4, <3>1, <3>2
  <2>2. r.exists /\ r.orig = journal.orig  BY <1>1, <1>4 DEF Prepared
  <2>3. /\ \A q \in Pages : q > journal.orig => file[q] = Empty
        /\ journal.orig # 0 => file[journal.orig] # Empty
    BY <1>1 DEF Prepared
  <2> QED  BY <1>5, <2>1, <2>2, <2>3 DEF Prepared
<1>13. Changed(c)'
  <2>1. ASSUME NEW q \in todo'[c] PROVE /\ q > journal'.orig \/ q \in Recorded(journal')
                                        /\ cache'[c][q] \in 1..tx'
    BY <1>1, <1>4, <1>5, <1>6, <1>9, <2>1 DEF Changed
  <2>2. ASSUME NEW q \in Pages \ todo'[c] PROVE cache'[c][q] \in {NotCached, file'[q]}
    BY <1>1, <1>6, <1>9, <2>2 DEF Changed
  <2> QED  BY <2>1, <2>2 DEF Changed
<1>14. Fits(r)
  <2>1. Recorded(r) \subseteq 1..journal.orig
    <3>1. p \in Recorded(r) => p \in 1..journal.orig
      <4>1. CASE p \in Recorded(journal)  BY <1>2, <4>1 DEF Fits
      <4>2. CASE p \in Recorded(r) \ Recorded(journal)
        <5>1. PICK i \in DOMAIN r.recs : r.recs[i].page = p  BY <4>2 DEF Recorded
        <5>2. ~\E m \in DOMAIN journal.recs : r.recs[i] = journal.recs[m]
          BY <4>2, <5>1 DEF Recorded
        <5>3. p <= journal.orig  BY <1>4, <5>2
        <5> QED  BY <1>2, <5>3, Numeric DEF Journals, Pages
      <4> QED  BY <4>1, <4>2
    <3> QED  BY <1>2, <1>4, <3>1 DEF Fits
  <2>2. ASSUME NEW i \in DOMAIN r.recs
        PROVE  r.recs[i].val \in Written /\ (r.recs[i].page = journal.orig => r.recs[i].val # Empty)
    <3>1. CASE \E m \in DOMAIN journal.recs : r.recs[i] = journal.recs[m]
      BY <1>2, <3>1 DEF Fits
    <3>2. CASE /\ r.recs[i].page = p /\ r.recs[i].val = cache[c][p] /\ p <= journal.orig
      <4>1. r.recs[i].val = file[p] /\ file[p] \in Written  BY <1>2, <1>10, <3>2
      <4>2. p = journal.orig => journal.orig # 0  BY DEF Pages
      <4> QED  BY <1>1, <3>2, <4>1, <4>2 DEF Prepared
    <3> QED  BY <1>4, <3>1, <3>2
  <2> QED  BY <1>1, <1>4, <2>1, <2>2 DEF Fits
<1>15. MediaOK'
  <2>1. MediaTypes'  BY <1>4, <1>5 DEF IInv, MediaOK, MediaTypes, Written
  <2>2. ASSUME NEW i \in left' \union {journal'} PROVE Fits(i)'
    <3>1. Fits(i)  BY <1>5, <1>14 DEF IInv, MediaOK
    <3> QED  BY <3>1, SameFits
  <2>3. Synced' = Synced  BY DEF Synced
  <2> QED  BY <1>1, <1>11, <2>1, <2>2, <2>3 DEF IInv, MediaOK
<1> QED  BY <1>6, <1>9, <1>11, <1>12, <1>13, <1>15

LEMMA OpenForWritingKeeps ==
  ASSUME IInv, NEW c \in Conns, OpenForWriting(c)
  PROVE  Mine(c)
<1>1. /\ state[c] = "reserved" /\ Goto(c, "cachemod") /\ OpenJournal
      /\ UNCHANGED <<file, disk, tx>> /\ UNCHANGED <<cache, todo, tx, misled>>
  BY DEF OpenForWriting, files, history
<1>2. ConnOK(c) /\ Recovered /\ todo[c] = {} /\ Matches(c)
  BY <1>1 DEF IInv, ConnOK, ConnIn, Busy, Writing, CacheModified
<1> DEFINE j == [Blank EXCEPT !.orig = FileSize]
<1>3. /\ j \in Journals /\ j.recs = <<>> /\ ~j.valid /\ j.exists /\ j.orig = FileSize
  <2>1. FileSize \in 0..Size  BY FileSizeIs
  <2>2. /\ Blank \in Journals /\ Blank.recs = <<>> /\ ~Blank.valid /\ Blank.exists
    BY BlanksAre
  <2> HIDE DEF Blank
  <2> QED  BY <2>1, <2>2 DEF Journals
<1>4. journal' = j /\ left' = left \union {Blank}  BY <1>1 DEF OpenJournal
<1> HIDE DEF j
<1>5. file = NoDatabase \/ Synced  BY <1>2 DEF IInv, MediaOK, Recovered
<1>6. MediaOK' /\ DB' = file /\ ~journal'.valid
  <2>1. Blank \in Journals /\ Blank.recs = <<>> /\ ~Blank.valid  BY BlanksAre
  <2>2. UNCHANGED <<file, disk, tx>>  BY <1>1
  <2>3. j \in Journals /\ j.recs = <<>> /\ ~j.valid  BY <1>3
  <2> QED  BY <1>4, <1>5, <2>1, <2>2, <2>3, Dropped
<1>7. DB' = DB /\ file' = file  BY <1>1, <1>2, <1>6 DEF Recovered
<1>8. Only(c) /\ state'[c] = "cachemod"  BY <1>1, Moves DEF States, CacheModified
<1>9. Prepared'
  <2>1. /\ FileSize # 0 => file[FileSize] # Empty
        /\ \A p \in Pages : p > FileSize => file[p] = Empty
    BY FileSizeIs
  <2>2. DOMAIN j.recs = {}  BY <1>3
  <2> QED  BY <1>3, <1>4, <1>7, <2>1, <2>2 DEF Prepared
<1>10. Changed(c)'  BY <1>1, <1>2, <1>7 DEF Changed, Matches, Recovered
<1>11. ConnOK(c)'
  BY <1>1, <1>2, <1>6, <1>7, <1>8, <1>9, <1>10
  DEF ConnOK, ConnIn, Outside, Busy, Writing, CacheModified, Recovered
<1>12. journal'.valid => journal.valid  BY <1>6
<1> QED  BY <1>1, <1>6, <1>7, <1>8, <1>11, <1>12, WriterStep DEF Mine

LEMMA WritePageKeeps ==
  ASSUME IInv, NEW c \in Conns, NEW p \in Pages, WritePage(c, p)
  PROVE  Mine(c)
<1>1. /\ state[c] = "cachemod" /\ p \notin todo[c] /\ p # 1 /\ Change(c, p, tx)
      /\ UNCHANGED <<file, disk, left, tx, misled>> /\ UNCHANGED state
      /\ cache[c][p] # NotCached \/ p > journal.orig
  BY DEF WritePage, files, history
<1>2. ConnOK(c) /\ (state[c] \in Writing => c \notin misled)  BY DEF IInv, ConnOK, ConnIn
<1>3. /\ file = DB /\ cache[c][1] = DB[1] /\ DB[1] # Garbage /\ 1 \notin todo[c] /\ DB[1] < tx
      /\ ~journal.valid
  BY <1>1, <1>2 DEF ConnOK, ConnIn, Writing, CacheModified
<1>4. tx \in 1..tx /\ state[c] \in States
  <2>1. DB[1] \in Nat /\ tx \in Nat  BY DBType, Numeric
  <2> QED  BY <1>3, <2>1 DEF IInv, PagerInv, StatesHaveLocks
<1>5. /\ MediaOK' /\ DB' = DB /\ Prepared' /\ Changed(c)' /\ ~journal'.valid
      /\ Only(c) /\ state'[c] = state[c]
      /\ cache'[c][p] = tx /\ \A q \in Pages \ {p} : cache'[c][q] = cache[c][q]
      /\ todo'[c] = todo[c] \union {p}
  <2>1. p \in Pages \ todo[c]  BY <1>1
  <2>2. UNCHANGED state /\ state[c] = state[c]  BY <1>1
  <2>3. state[c] \in {"cachemod", "exclusive"}  BY <1>1
  <2> QED  BY <1>1, <1>4, <2>1, <2>2, <2>3, ChangeKeeps
<1>6. cache'[c][1] = cache[c][1]  BY <1>1, <1>5, Numeric
<1>7. ConnOK(c)'
  BY <1>1, <1>2, <1>3, <1>5, <1>6 DEF ConnOK, ConnIn, Outside, Busy, Writing, CacheModified
<1> QED  BY <1>1, <1>5, <1>7, WriterStep DEF Mine

LEMMA CountChangeKeeps ==
  ASSUME IInv, NEW c \in Conns, CountChange(c)
  PROVE  Mine(c)
<1> DEFINE v == cache[c][1] + 1
<1>1. /\ state[c] = "exclusive" /\ Change(c, 1, v) /\ Goto(c, "counted")
      /\ UNCHANGED <<file, disk, left, tx, misled>>
  BY DEF CountChange, files, history
<1>2. ConnOK(c) /\ (state[c] \in Writing => c \notin misled)  BY DEF IInv, ConnOK, ConnIn
<1>3. /\ file = DB /\ cache[c][1] = DB[1] /\ 1 \notin todo[c] /\ DB[1] < tx
  BY <1>1, <1>2 DEF ConnOK, ConnIn, Writing, CacheModified
<1>4. DB[1] \in Nat /\ tx \in 0..MaxTx /\ MaxTx \in Nat /\ NotCached = MaxTx + 2
  BY DBType, Numeric
<1>5. v \in 1..tx /\ v = DB[1] + 1 /\ cache[c][1] # NotCached  BY <1>3, <1>4
<1> HIDE DEF v
<1>6. /\ MediaOK' /\ DB' = DB /\ Prepared' /\ Changed(c)' /\ ~journal'.valid
      /\ Only(c) /\ state'[c] = "counted" /\ cache'[c][1] = v
  <2>1. 1 \in Pages \ todo[c]  BY <1>3, Numeric
  <2>2. state[c] \in {"cachemod", "exclusive"} /\ "counted" \in States
    BY <1>1 DEF States, CacheModified
  <2>3. cache[c][1] # NotCached \/ 1 > journal.orig  BY <1>5
  <2> QED  BY <1>1, <1>5, <2>1, <2>2, <2>3, ChangeKeeps
<1>7. ConnOK(c)'
  BY <1>1, <1>2, <1>3, <1>5, <1>6 DEF ConnOK, ConnIn, Outside, Busy, Writing, CacheModified
<1>8. state[c] \in Alone  BY <1>1 DEF Alone
<1> QED  BY <1>6, <1>7, <1>8, AloneStep DEF Mine

LEMMA SyncRecordsKeeps ==
  ASSUME IInv, NEW c \in Conns, SyncRecords(c)
  PROVE  Mine(c)
<1>1. /\ state[c] = "counted" /\ Goto(c, "synced") /\ left' = {Blank}
      /\ journal' = [journal EXCEPT !.synced = TRUE]
      /\ UNCHANGED <<file, disk, tx>> /\ UNCHANGED <<cache, todo, tx, misled>>
  BY DEF SyncRecords, files, history
<1>2. ConnOK(c) /\ (state[c] \in Writing => c \notin misled)  BY DEF IInv, ConnOK, ConnIn
<1>3. /\ file = DB /\ cache[c][1] = DB[1] + 1 /\ DB[1] < tx /\ ~journal.valid
      /\ Prepared /\ Changed(c)
  BY <1>1, <1>2 DEF ConnOK, ConnIn, Writing, CacheModified
<1>4. journal \in Journals /\ Fits(journal)  BY JournalIs
<1>5. /\ journal' \in Journals /\ journal'.synced /\ journal'.recs = journal.recs
      /\ journal'.valid = journal.valid /\ journal'.orig = journal.orig
      /\ journal'.exists = journal.exists
  BY <1>1, <1>4 DEF Journals
<1>6. DB' = DB
  <2>1. ~journal'.valid /\ file' = file  BY <1>1, <1>3, <1>5
  <2> QED  BY <1>3, <2>1 DEF DB, Committed
<1>7. Recorded(journal') = Recorded(journal)  BY <1>5 DEF Recorded
<1>8. Prepared'  BY <1>1, <1>3, <1>5 DEF Prepared
<1>9. Changed(c)'  BY <1>1, <1>3, <1>5, <1>7 DEF Changed
<1>10. MediaOK'
  <2>1. MediaTypes'  BY <1>1, <1>5, BlanksAre DEF IInv, MediaOK, MediaTypes, Written
  <2>2. ASSUME NEW i \in left' \union {journal'} PROVE Fits(i)'
    <3>1. Fits(journal')  BY <1>4, <1>5, <1>7 DEF Fits
    <3>2. Fits(Blank)  BY BlanksAre, BlankFits
    <3>3. Fits(i)  BY <1>1, <3>1, <3>2
    <3> QED  BY <1>1, <3>3, SameFits
  <2>3. Synced' = Synced  BY <1>1 DEF Synced
  <2>4. \A p \in Pages : file'[p] \in disk'[p]  BY <1>1 DEF IInv, MediaOK
  <2>5. file' = NoDatabase \/ Synced'  BY <1>1, <1>3, <2>3 DEF IInv, MediaOK
  <2>6. ~journal'.valid  BY <1>3, <1>5
  <2> QED  BY <2>1, <2>2, <2>4, <2>5, <2>6 DEF MediaOK
<1>11. Only(c) /\ state'[c] = "synced"  BY <1>1, Moves DEF States, CacheModified
<1>12. ConnOK(c)'
  BY <1>1, <1>2, <1>3, <1>5, <1>6, <1>8, <1>9, <1>11 DEF ConnOK, ConnIn, Outside, Busy, Writing, CacheModified
<1>13. state[c] \in Alone  BY <1>1 DEF Alone
<1> QED  BY <1>6, <1>10, <1>11, <1>12, <1>13, AloneStep DEF Mine

LEMMA WriteHeaderKeeps ==
  ASSUME IInv, NEW c \in Conns, WriteHeader(c)
  PROVE  Mine(c)
<1>1. /\ state[c] = "synced" /\ Goto(c, "valid") /\ left' = left \union Remains(journal')
      /\ journal' = [journal EXCEPT !.valid = TRUE]
      /\ UNCHANGED <<file, disk, tx>> /\ UNCHANGED <<cache, todo, tx, misled>>
  BY DEF WriteHeader, files, history
<1>2. ConnOK(c) /\ (state[c] \in Writing => c \notin misled)  BY DEF IInv, ConnOK, ConnIn
<1>3. /\ file = DB /\ cache[c][1] = DB[1] + 1 /\ DB[1] < tx /\ ~journal.valid
      /\ Prepared /\ Changed(c) /\ journal.synced /\ left = {Blank}
  BY <1>1, <1>2 DEF ConnOK, ConnIn, Writing, CacheModified
<1>4. journal \in Journals /\ Fits(journal)  BY JournalIs
<1>5. /\ journal' \in Journals /\ journal'.synced /\ journal'.recs = journal.recs
      /\ journal'.valid /\ journal'.orig = journal.orig
      /\ journal'.exists
  BY <1>1, <1>3, <1>4 DEF Journals, Prepared
<1>6. left' = {Blank, journal'}  BY <1>1, <1>3, <1>5 DEF Remains
<1>7. Recorded(journal') = Recorded(journal)  BY <1>5 DEF Recorded
<1>8. Prepared'  BY <1>1, <1>3, <1>5 DEF Prepared
<1>9. Changed(c)'  BY <1>1, <1>3, <1>5, <1>7 DEF Changed
<1>10. file = NoDatabase \/ Synced  BY <1>3 DEF IInv, MediaOK
<1>11. ASSUME NEW p \in Pages PROVE Undone(journal', p, file[p]) = file[p]
  <2>1. CASE p > journal'.orig
    BY <1>3, <1>5, <2>1, UndoneIs DEF Prepared
  <2>2. CASE p <= journal'.orig /\ p \in Recorded(journal')
    <3>1. PICK i \in DOMAIN journal'.recs :
            journal'.recs[i].page = p /\ Original(journal', p) = journal'.recs[i].val
      BY <2>2, OriginalIs
    <3>2. Original(journal', p) = file[p]  BY <1>3, <1>5, <3>1 DEF Prepared
    <3> QED  BY <1>5, <2>2, <3>2, UndoneIs
  <2>3. CASE p <= journal'.orig /\ p \notin Recorded(journal')
    BY <1>5, <2>3, UndoneIs
  <2>4. p > journal'.orig \/ p <= journal'.orig  BY <1>5, Numeric DEF Journals
  <2> QED  BY <2>1, <2>2, <2>3, <2>4
<1>12. DB' = DB
  <2>1. DB' = [p \in Pages |-> Undone(journal', p, file[p])]  BY <1>1, <1>5 DEF DB, Committed
  <2>2. DB \in [Pages -> Written]  BY DBType
  <2> QED  BY <1>3, <1>11, <2>1, <2>2
<1>13. MediaOK'
  <2>1. MediaTypes'  BY <1>1, <1>5, <1>6, BlanksAre DEF IInv, MediaOK, MediaTypes, Written
  <2>2. Fits(journal')
    <3>1. ASSUME journal.orig # 0, Empty \in disk[journal.orig] PROVE FALSE
      <4>1. journal.orig \in Pages  BY <1>4, <3>1, Numeric DEF Journals, Pages
      <4>2. file[journal.orig] # Empty  BY <1>3, <3>1 DEF Prepared
      <4>3. file # NoDatabase  BY <4>1, <4>2 DEF NoDatabase
      <4>4. disk[journal.orig] = {file[journal.orig]}  BY <1>10, <4>1, <4>3 DEF Synced
      <4> QED  BY <3>1, <4>2, <4>4
    <3> QED  BY <1>4, <1>5, <1>7, <3>1 DEF Fits
  <2>3. ASSUME NEW i \in left' \union {journal'} PROVE Fits(i)'
    <3>2. Fits(Blank)  BY BlanksAre, BlankFits
    <3>3. Fits(i)  BY <1>6, <2>2, <3>2
    <3> QED  BY <1>1, <3>3, SameFits
  <2>4. Synced' = Synced  BY <1>1 DEF Synced
  <2>5. \A p \in Pages : file'[p] \in disk'[p]  BY <1>1 DEF IInv, MediaOK
  <2>6. ASSUME NEW p \in Pages, NEW v \in disk'[p] PROVE Undone(journal', p, v) = DB'[p]
    <3>1. CASE Synced
      <4>1. v = file[p]  BY <1>1, <3>1 DEF Synced
      <4> QED  BY <1>3, <1>11, <1>12, <4>1
    <3>2. CASE file = NoDatabase
      <4>1. file[p] = Empty  BY <3>2 DEF NoDatabase
      <4>2. journal.orig = 0
        <5>1. journal.orig # 0 => journal.orig \in Pages
          BY <1>4, Numeric DEF Journals, Pages
        <5> QED  BY <1>3, <3>2, <5>1 DEF Prepared, NoDatabase
      <4>3. p > journal'.orig  BY <1>5, <4>2 DEF Pages
      <4>4. Undone(journal', p, v) = Empty  BY <1>5, <4>3, UndoneIs
      <4> QED  BY <1>3, <1>12, <4>1, <4>4
    <3> QED  BY <1>10, <3>1, <3>2
  <2>7. ~Blank.valid /\ (DB' = NoDatabase \/ (Synced' /\ file' = DB'))
    BY <1>1, <1>3, <1>10, <1>12, <2>4, BlanksAre
  <2> QED  BY <1>5, <1>6, <2>1, <2>3, <2>5, <2>6, <2>7 DEF MediaOK
<1>14. Only(c) /\ state'[c] = "valid"  BY <1>1, Moves DEF States, CacheModified
<1>15. /\ file' = NoDatabase \/ Synced'
       /\ \E j \in left' : ~j.valid
  BY <1>1, <1>6, <1>10, BlanksAre DEF Synced
<1>16. ConnOK(c)'
  BY <1>1, <1>2, <1>3, <1>5, <1>8, <1>9, <1>12, <1>14, <1>15
  DEF ConnOK, ConnIn, Outside, Busy, Writing, CacheModified
<1>17. state[c] \in Alone  BY <1>1 DEF Alone
<1> QED  BY <1>12, <1>13, <1>14, <1>16, <1>17, AloneStep DEF Mine

\* left comes down to the journal there is.
LEMMA JournalSynced ==
  ASSUME IInv, UNCHANGED <<file, disk, journal, tx>>, left' = {journal}
  PROVE  MediaOK' /\ DB' = DB /\ Synced' = Synced
<1>1. DB' = DB /\ Synced' = Synced  BY DEF DB, Synced
<1>2. MediaTypes'  BY DEF IInv, MediaOK, MediaTypes, Written
<1>3. ASSUME NEW i \in left' \union {journal'} PROVE Fits(i)'
  <2>1. Fits(i)  BY JournalIs
  <2> QED  BY <2>1, SameFits
<1> QED  BY <1>1, <1>2, <1>3 DEF IInv, MediaOK

LEMMA SyncHeaderKeeps ==
  ASSUME IInv, NEW c \in Conns, SyncHeader(c)
  PROVE  Mine(c)
<1>1. /\ state[c] = "valid" /\ Goto(c, "dbmod") /\ left' = {journal}
      /\ UNCHANGED <<file, disk, journal, tx>> /\ UNCHANGED <<cache, todo, tx, misled>>
  BY DEF SyncHeader, files, history
<1>2. ConnOK(c) /\ (state[c] \in Writing => c \notin misled)  BY DEF IInv, ConnOK, ConnIn
<1>3. /\ cache[c][1] = DB[1] + 1 /\ DB[1] < tx /\ journal.valid /\ Changed(c)
      /\ file = DB
  BY <1>1, <1>2 DEF ConnOK, ConnIn, Writing, CacheModified
<1>4. MediaOK' /\ DB' = DB  BY <1>1, JournalSynced
<1>5. Only(c) /\ state'[c] = "dbmod"  BY <1>1, Moves DEF States, CacheModified
<1>6. Changed(c)'  BY <1>1, <1>3 DEF Changed, Recorded
<1>7. Unread(c)'  BY <1>1, <1>3, <1>4 DEF Unread
<1>8. ConnOK(c)'
  BY <1>1, <1>2, <1>3, <1>4, <1>5, <1>6, <1>7 DEF ConnOK, ConnIn, Outside, Busy, Writing, CacheModified
<1>9. state[c] \in Alone  BY <1>1 DEF Alone
<1> QED  BY <1>4, <1>5, <1>9, <1>8, AloneStep DEF Mine

LEMMA SyncHotJournalKeeps ==
  ASSUME IInv, NEW c \in Conns, SyncHotJournal(c)
  PROVE  Mine(c)
<1>1. /\ state[c] = "alone" /\ Goto(c, "replay") /\ left' = {journal}
      /\ UNCHANGED <<file, disk, journal, tx>> /\ UNCHANGED <<cache, todo, tx, misled>>
  BY DEF SyncHotJournal, files, history
<1>2. ConnOK(c)  BY DEF IInv
<1>3. /\ Remembers(c) /\ todo[c] = {}
  BY <1>1, <1>2 DEF ConnOK, ConnIn, Writing, CacheModified, Outside, Busy
<1>4. MediaOK' /\ DB' = DB  BY <1>1, JournalSynced
<1>5. Only(c) /\ state'[c] = "replay"  BY <1>1, Moves DEF States, CacheModified
<1>6. Remembers(c)'  BY <1>1, <1>3, <1>4 DEF Remembers, Matches
<1>7. ConnOK(c)'
  BY <1>1, <1>3, <1>4, <1>5, <1>6 DEF ConnOK, ConnIn, Outside, Busy, Writing, CacheModified
<1>8. state[c] \in Alone  BY <1>1 DEF Alone
<1> QED  BY <1>4, <1>5, <1>7, <1>8, AloneStep DEF Mine

LEMMA WriteBackKeeps ==
  ASSUME IInv, NEW c \in Conns, WriteBack(c)
  PROVE  Mine(c)
<1> DEFINE p == First(todo[c])
           v == cache[c][p]
           s == todo[c] \ {p}
<1>1. /\ state[c] = "dbmod" /\ todo[c] # {} /\ Put(p, v)
      /\ todo' = [todo EXCEPT ![c] = s]
      /\ UNCHANGED <<journal, left, tx>> /\ UNCHANGED <<state, cache, misled>>
  BY DEF WriteBack, journals, history
<1>2. /\ ConnOK(c) /\ todo[c] \in SUBSET Pages /\ state \in [Conns -> States]
      /\ cache \in [Conns -> [Pages -> Written \union {NotCached}]]
  BY DEF IInv, CacheTypes, PagerInv, StatesHaveLocks
<1>3. /\ cache[c][1] = DB[1] + 1 /\ DB[1] < tx /\ journal.valid /\ Changed(c) /\ left = {journal}
      /\ Unread(c) /\ c \notin misled
  BY <1>1, <1>2 DEF ConnOK, ConnIn, Writing, CacheModified
<1>4. p \in todo[c] /\ p \in Pages
  <2>1. todo[c] \in SUBSET Nat  BY <1>2, Numeric
  <2> QED  BY <1>1, <1>2, <2>1, FirstIs
<1> HIDE DEF p
<1>5. /\ p > journal.orig \/ p \in Recorded(journal)
      /\ v \in 1..tx
  BY <1>3, <1>4 DEF Changed
<1>6. v \in Written /\ v # Empty  BY <1>5, Numeric DEF Written
<1>7. s \in SUBSET Pages  BY <1>2
<1>8. cache[c] \in [Pages -> Written \union {NotCached}] /\ cache' = [cache EXCEPT ![c] = cache[c]]
  BY <1>1, <1>2
<1> HIDE DEF s
<1>9. Only(c) /\ state'[c] = "dbmod" /\ cache'[c] = cache[c] /\ todo'[c] = s
  <2>1. UNCHANGED state /\ "dbmod" = state[c] /\ "dbmod" \in States /\ UNCHANGED <<tx, misled>>
    BY <1>1 DEF States
  <2>2. todo' = [todo EXCEPT ![c] = s]  BY <1>1
  <2> QED  BY <1>7, <1>8, <2>1, <2>2, Caches
<1> HIDE DEF v
<1>10. /\ MediaOK' /\ DB' = DB /\ file'[p] = v
       /\ \A q \in Pages \ {p} : file'[q] = file[q]
  <2>1. journal.valid /\ left = {journal} /\ UNCHANGED <<journal, left, tx>> /\ Put(p, v)
    BY <1>1, <1>3
  <2> QED  BY <1>4, <1>5, <1>6, <2>1, PutKeeps
<1>11. Changed(c)'
  <2>1. ASSUME NEW q \in todo'[c] PROVE /\ q > journal'.orig \/ q \in Recorded(journal')
                                        /\ cache'[c][q] \in 1..tx'
    BY <1>1, <1>3, <1>9 DEF Changed, s, Recorded
  <2>2. ASSUME NEW q \in Pages \ todo'[c] PROVE cache'[c][q] \in {NotCached, file'[q]}
    <3>1. CASE q = p  BY <1>9, <1>10, <3>1 DEF v
    <3>2. CASE q # p
      <4>1. q \in Pages \ todo[c]  BY <1>9, <3>2 DEF s
      <4> QED  BY <1>3, <1>9, <1>10, <3>2, <4>1 DEF Changed
    <3> QED  BY <3>1, <3>2
  <2> QED  BY <2>1, <2>2 DEF Changed
<1>12. Unread(c)'
  <2>1. v # NotCached  BY <1>5, Numeric
  <2> QED  BY <1>3, <1>9, <1>10, <2>1 DEF Unread, v
<1>13. ConnOK(c)'
  BY <1>1, <1>3, <1>9, <1>10, <1>11, <1>12 DEF ConnOK, ConnIn, Outside, Busy, Writing, CacheModified
<1>14. state[c] \in Alone  BY <1>1 DEF Alone
<1> QED  BY <1>9, <1>10, <1>14, <1>13, AloneStep DEF Mine

LEMMA SyncPagesKeeps ==
  ASSUME IInv, NEW c \in Conns, SyncPages(c)
  PROVE  Mine(c)
<1>1. /\ state[c] = "dbmod" /\ todo[c] = {} /\ Goto(c, "finished") /\ SyncFile
      /\ UNCHANGED <<journal, left, tx>> /\ UNCHANGED <<cache, todo, tx, misled>> /\ file' = file
  BY DEF SyncPages, journals, SyncFile, history
<1>2. ConnOK(c) /\ (state[c] \in Writing => c \notin misled)  BY DEF IInv, ConnOK, ConnIn
<1>3. /\ cache[c][1] = DB[1] + 1 /\ DB[1] < tx /\ journal.valid /\ Changed(c) /\ left = {journal}
      /\ Unread(c)
  BY <1>1, <1>2 DEF ConnOK, ConnIn, Writing, CacheModified
<1>4. MediaOK' /\ DB' = DB /\ Synced'  BY <1>1, <1>3, SyncKeeps
<1>5. Only(c) /\ state'[c] = "finished"  BY <1>1, Moves DEF States, CacheModified
<1>6. Changed(c)' /\ Unread(c)'  BY <1>1, <1>3, <1>4 DEF Changed, Unread, Recorded
<1>7. ConnOK(c)'
  BY <1>1, <1>2, <1>3, <1>4, <1>5, <1>6 DEF ConnOK, ConnIn, Outside, Busy, Writing, CacheModified
<1>8. state[c] \in Alone  BY <1>1 DEF Alone
<1> QED  BY <1>4, <1>5, <1>7, <1>8, AloneStep DEF Mine

LEMMA DeleteKeeps ==
  ASSUME IInv, Delete, UNCHANGED <<file, disk, tx>>, file = NoDatabase \/ Synced
  PROVE  MediaOK' /\ DB' = file /\ ~journal'.valid
<1>1. NoJournal \in Journals /\ NoJournal.recs = <<>> /\ ~NoJournal.valid  BY BlanksAre
<1>2. journal' = NoJournal /\ left' = left \union {NoJournal}  BY DEF Delete
<1> QED  BY <1>1, <1>2, Dropped

LEMMA CommitKeeps ==
  ASSUME IInv, NEW c \in Conns, Commit(c)
  PROVE  Kept /\ Only(c) /\ DB' = file
<1>1. /\ state[c] = "finished" /\ Goto(c, "reader") /\ Delete
      /\ UNCHANGED <<file, disk, tx>> /\ UNCHANGED <<cache, todo, tx, misled>>
  BY DEF Commit, files, history
<1>2. ConnOK(c) /\ (state[c] \in Writing => c \notin misled)  BY DEF IInv, ConnOK, ConnIn
<1>3. /\ cache[c][1] = DB[1] + 1 /\ DB[1] < tx /\ Changed(c) /\ todo[c] = {} /\ Synced
  BY <1>1, <1>2 DEF ConnOK, ConnIn, Writing, CacheModified, Busy
<1>4. MediaOK' /\ DB' = file /\ ~journal'.valid  BY <1>1, <1>3, DeleteKeeps
<1>5. Only(c) /\ state'[c] = "reader"  BY <1>1, Moves DEF States, CacheModified
<1>6. \A p \in Pages : cache[c][p] \in {NotCached, file[p]}  BY <1>3 DEF Changed
<1>7. /\ DB[1] \in Nat /\ tx \in 0..MaxTx /\ MaxTx \in Nat /\ NotCached = MaxTx + 2
      /\ Garbage = MaxTx + 1 /\ 1 \in Pages
  BY DBType, Numeric
<1>8. file[1] = DB[1] + 1 /\ file[1] # Garbage  BY <1>3, <1>6, <1>7
<1>9. Matches(c)' /\ Knows(c)'
  BY <1>1, <1>4, <1>3, <1>6, <1>7, <1>8 DEF Matches, Knows, Recovered
<1>10. ConnOK(c)'
  BY <1>1, <1>2, <1>3, <1>4, <1>5, <1>8, <1>9 DEF ConnOK, ConnIn, Outside, Busy, Writing, CacheModified, Recovered
<1>11. state[c] \in Alone /\ DB'[1] = DB[1] + 1  BY <1>1, <1>4, <1>8 DEF Alone
<1> QED  BY <1>4, <1>5, <1>10, <1>11, AloneStep

LEMMA EndPlaybackKeeps ==
  ASSUME IInv, NEW c \in Conns, EndPlayback(c)
  PROVE  Mine(c)
<1>1. /\ state[c] \in {"replayed", "undone"} /\ Delete
      /\ Goto(c, IF state[c] = "undone" THEN "reader" ELSE "clean")
      /\ UNCHANGED <<file, disk, tx>> /\ UNCHANGED <<cache, todo, tx, misled>>
  BY DEF EndPlayback, files, history
<1>2. ConnOK(c) /\ (state[c] \in Writing => c \notin misled)  BY DEF IInv, ConnOK, ConnIn
<1>3. /\ file = DB /\ todo[c] = {} /\ Synced
  BY <1>1, <1>2 DEF ConnOK, ConnIn, Writing, CacheModified, Busy
<1>4. MediaOK' /\ DB' = file /\ ~journal'.valid  BY <1>1, <1>3, DeleteKeeps
<1>5. DB' = DB /\ file' = DB' BY <1>1, <1>3, <1>4
<1>6. PICK t \in {"reader", "clean"} : Goto(c, t) /\ (t = "reader" <=> state[c] = "undone")
  BY <1>1
<1>7. Only(c) /\ state'[c] = t  BY <1>1, <1>6, Moves DEF States, CacheModified
<1>8. /\ Remembers(c)' = Remembers(c) /\ Recovered'
      /\ state[c] = "undone" => Knows(c)'
  BY <1>1, <1>2, <1>4, <1>5 DEF Matches, Remembers, Knows, Recovered, ConnOK, ConnIn
<1>9. ConnOK(c)'
  BY <1>1, <1>2, <1>3, <1>4, <1>5, <1>6, <1>7, <1>8
  DEF ConnOK, ConnIn, Outside, Busy, Writing, CacheModified, Recovered
<1>10. state[c] \in Alone  BY <1>1 DEF Alone
<1> QED  BY <1>4, <1>5, <1>7, <1>9, <1>10, AloneStep DEF Mine

LEMMA SyncRestoredKeeps ==
  ASSUME IInv, NEW c \in Conns, SyncRestored(c)
  PROVE  Mine(c)
<1>1. /\ state[c] \in {"replaying", "undoing"} /\ todo[c] = {} /\ SyncFile
      /\ Goto(c, IF state[c] = "undoing" THEN "undone" ELSE "replayed")
      /\ UNCHANGED <<journal, left, tx>> /\ UNCHANGED <<cache, todo, tx, misled>> /\ file' = file
  BY DEF SyncRestored, journals, SyncFile, history
<1>2. ConnOK(c)  BY DEF IInv
<1>3. Restoring(c) /\ left = {journal}  BY <1>1, <1>2 DEF ConnOK, ConnIn
<1>4. MediaOK' /\ DB' = DB /\ Synced'  BY <1>1, <1>3, SyncKeeps
<1>5. file = DB
  <2>1. file \in [Pages -> Written] /\ DB \in [Pages -> Written]  BY JournalIs, DBType
  <2>2. \A p \in Pages : file[p] = DB[p]  BY <1>1, <1>3 DEF Restoring
  <2> QED  BY <2>1, <2>2
<1>6. PICK t \in {"undone", "replayed"} : Goto(c, t) /\ (t = "undone" <=> state[c] = "undoing")
  BY <1>1
<1>7. Only(c) /\ state'[c] = t  BY <1>1, <1>6, Moves DEF States, CacheModified
<1>8. Matches(c)' = Matches(c) /\ Remembers(c)' = Remembers(c)
  BY <1>1, <1>4 DEF Matches, Remembers
<1>9. ConnOK(c)'
  BY <1>1, <1>2, <1>4, <1>5, <1>6, <1>7, <1>8
  DEF ConnOK, ConnIn, Outside, Busy, Writing, CacheModified
<1>10. state[c] \in Alone  BY <1>1 DEF Alone
<1> QED  BY <1>4, <1>7, <1>9, <1>10, AloneStep DEF Mine

LEMMA RestoreKeeps ==
  ASSUME IInv, NEW c \in Conns, Restore(c)
  PROVE  Mine(c)
<1> DEFINE S == {i \in DOMAIN journal.recs : journal.recs[i].page \in todo[c]}
           p == journal.recs[First(S)].page
           v == Original(journal, p)
           s == todo[c] \ {p}
<1>1. /\ state[c] \in {"replaying", "undoing"} /\ todo[c] # {} /\ Put(p, v)
      /\ todo' = [todo EXCEPT ![c] = s]
      /\ UNCHANGED <<journal, left, tx>> /\ UNCHANGED <<state, cache, misled>>
  BY DEF Restore, journals, history
<1>2. /\ ConnOK(c) /\ todo[c] \in SUBSET Pages /\ state \in [Conns -> States]
      /\ cache \in [Conns -> [Pages -> Written \union {NotCached}]]
      /\ journal \in Journals /\ Fits(journal)
  BY JournalIs DEF IInv, CacheTypes, PagerInv, StatesHaveLocks
<1>3. Restoring(c) /\ journal.valid /\ left = {journal}
  BY <1>1, <1>2 DEF ConnOK, ConnIn, Restoring
<1>4. First(S) \in S
  <2>1. S \subseteq Nat
    <3>1. journal.recs \in Seq([page : Pages, val : Values])  BY <1>2 DEF Journals
    <3> QED  BY <3>1
  <2>2. S # {}  BY <1>1, <1>3 DEF Restoring, Recorded
  <2> HIDE DEF S
  <2> QED  BY <2>1, <2>2, FirstIs
<1>5. p \in todo[c] /\ p \in Recorded(journal) /\ p \in Pages
  BY <1>2, <1>4 DEF Recorded
<1> HIDE DEF p
<1>6. /\ v \in Written /\ (p = journal.orig => v # Empty)
      /\ v = DB[p]
  <2>1. PICK i \in DOMAIN journal.recs :
          journal.recs[i].page = p /\ Original(journal, p) = journal.recs[i].val
    BY <1>5, OriginalIs
  <2>2. p <= journal.orig  BY <1>2, <1>5, Numeric DEF Fits, Journals
  <2>3. DB[p] = Undone(journal, p, file[p])  BY <1>3, <1>5, JournalIs
  <2>4. DB[p] = v  BY <1>2, <1>5, <2>2, <2>3, UndoneIs
  <2> QED  BY <1>2, <2>1, <2>4 DEF Fits
<1> HIDE DEF v
<1>7. s \in SUBSET Pages  BY <1>2
<1>8. cache[c] \in [Pages -> Written \union {NotCached}] /\ cache' = [cache EXCEPT ![c] = cache[c]]
  BY <1>1, <1>2
<1> HIDE DEF s
<1>9. Only(c) /\ state'[c] = state[c] /\ cache'[c] = cache[c] /\ todo'[c] = s
  <2>1. UNCHANGED state /\ state[c] \in States /\ UNCHANGED <<tx, misled>>
    BY <1>1 DEF States
  <2>2. todo' = [todo EXCEPT ![c] = s]  BY <1>1
  <2>3. PICK t \in States : t = state[c]  BY <2>1
  <2>4. UNCHANGED state /\ t = state[c]  BY <2>1, <2>3
  <2>5. Only(c) /\ state'[c] = t /\ cache'[c] = cache[c] /\ todo'[c] = s
    BY <1>7, <1>8, <2>1, <2>2, <2>4, Caches
  <2> QED  BY <2>3, <2>5
<1>10. /\ MediaOK' /\ DB' = DB /\ file'[p] = v
       /\ \A q \in Pages \ {p} : file'[q] = file[q]
  <2>1. journal.valid /\ left = {journal} /\ UNCHANGED <<journal, left, tx>> /\ Put(p, v)
    BY <1>1, <1>3
  <2>2. p > journal.orig \/ p \in Recorded(journal)  BY <1>5
  <2> QED  BY <1>5, <1>6, <2>1, <2>2, PutKeeps
<1>11. Restoring(c)'
  <2>1. Recorded(journal') = Recorded(journal)  BY <1>1 DEF Recorded
  <2>2. todo'[c] \subseteq Recorded(journal') /\ journal'.valid
    BY <1>1, <1>3, <1>9, <2>1 DEF Restoring, s
  <2>3. ASSUME NEW q \in Pages \ todo'[c] PROVE file'[q] = DB'[q]
    <3>1. CASE q = p  BY <1>6, <1>10, <3>1
    <3>2. CASE q # p
      <4>1. q \in Pages \ todo[c]  BY <1>9, <3>2 DEF s
      <4> QED  BY <1>3, <1>10, <3>2, <4>1 DEF Restoring
    <3> QED  BY <3>1, <3>2
  <2> QED  BY <2>2, <2>3 DEF Restoring
<1>12. Matches(c)' = Matches(c) /\ Remembers(c)' = Remembers(c)
  BY <1>1, <1>9, <1>10 DEF Matches, Remembers
<1>13. ConnOK(c)'
  BY <1>1, <1>2, <1>3, <1>9, <1>10, <1>11, <1>12
  DEF ConnOK, ConnIn, Outside, Busy, Writing, CacheModified
<1>14. state[c] \in Alone  BY <1>1 DEF Alone
<1> QED  BY <1>9, <1>10, <1>13, <1>14, AloneStep DEF Mine

\* Beside an empty file no journal makes a database.
LEMMA EmptyFile ==
  ASSUME IInv, FileSize = 0
  PROVE  file = NoDatabase /\ DB = NoDatabase
<1>1. /\ journal \in Journals /\ Fits(journal)
      /\ file \in [Pages -> Written] /\ disk \in [Pages -> SUBSET Written]
  BY JournalIs
<1>2. file = NoDatabase
  <2>1. \A p \in Pages : p > 0 => file[p] = Empty  BY FileSizeIs
  <2>2. \A p \in Pages : file[p] = Empty  BY <2>1 DEF Pages
  <2> QED  BY <1>1, <2>2 DEF NoDatabase
<1>3. DB = NoDatabase
  <2>1. CASE ~journal.valid  BY <1>2, <2>1, JournalIs
  <2>2. CASE journal.valid
    <3>1. ASSUME journal.orig # 0 PROVE FALSE
      <4>1. journal.orig \in Pages  BY <1>1, <3>1, Numeric DEF Journals, Pages
      <4>2. Empty \in disk[journal.orig]  BY <1>2, <4>1 DEF IInv, MediaOK, NoDatabase
      <4> QED  BY <1>1, <2>2, <3>1, <4>2 DEF Fits
    <3>2. ASSUME NEW p \in Pages PROVE DB[p] = Empty
      <4>1. p > journal.orig  BY <3>1 DEF Pages
      <4> QED  BY <1>1, <2>2, <4>1, JournalIs, UndoneIs
    <3>3. DB \in [Pages -> Written]  BY DBType
    <3> QED  BY <3>2, <3>3 DEF NoDatabase
  <2> QED  BY <2>1, <2>2
<1> QED  BY <1>2, <1>3

LEMMA DropRemnantKeeps ==
  ASSUME IInv, NEW c \in Conns, DropRemnant(c)
  PROVE  Mine(c)
<1>1. /\ state[c] = "orphan" /\ FileSize = 0 /\ Goto(c, "clean")
      /\ IF Granted(c, Reserved) THEN Delete ELSE UNCHANGED journals
      /\ UNCHANGED <<file, disk, tx>> /\ UNCHANGED <<cache, todo, tx, misled>>
  BY DEF DropRemnant, files, history
<1>2. /\ ConnOK(c) /\ journal \in Journals /\ Fits(journal)
      /\ file \in [Pages -> Written] /\ disk \in [Pages -> SUBSET Written]
  BY JournalIs DEF IInv
<1>3. Remembers(c) /\ todo[c] = {}
  BY <1>1, <1>2 DEF ConnOK, ConnIn, Outside, Busy, Writing, CacheModified
<1>4. file = NoDatabase /\ DB = NoDatabase  BY <1>1, EmptyFile
<1>5. DB = NoDatabase  BY <1>4
<1>6. Only(c) /\ state'[c] = "clean"  BY <1>1, Moves DEF States, CacheModified
<1>7. CASE Granted(c, Reserved)
  <2>1. MediaOK' /\ DB' = file /\ ~journal'.valid  BY <1>1, <1>4, <1>7, DeleteKeeps
  <2>2. ASSUME NEW d \in Conns PROVE state[d] \in Modest
    <3>1. /\ lock \in [Conns -> Levels] /\ inode.eFileLock \in Levels
          /\ LockInState(state[c], lock[c]) /\ LockInState(state[d], lock[d])
          /\ state[d] \in States /\ lock[d] <= inode.eFileLock
      BY DEF IInv, PagerInv, LocksInv, LocksTypeOK, StatesHaveLocks, Highest
    <3>2. lock[c] = Shared  BY <1>1, <3>1 DEF LockInState
    <3>3. lock[c] = inode.eFileLock  BY <1>7, NumbersAre DEF Granted, Precluded, Numbers
    <3>4. lock[d] <= Shared  BY <3>1, <3>2, <3>3
    <3> QED
      BY <3>1, <3>4, NumbersAre
      DEF LockInState, Numbers, Alone, States, CacheModified, Modest
  <2>3. DB' = DB /\ file' = file  BY <1>1, <1>4, <1>5, <2>1
  <2>4. ASSUME NEW d \in Conns \ {c} PROVE ConnOK(d)'
    <3>1. /\ state'[d] = state[d] /\ cache'[d] = cache[d] /\ todo'[d] = todo[d]
          /\ d \in misled' <=> d \in misled
      BY <1>6 DEF Only
    <3>2. journal'.valid => journal.valid  BY <2>1
    <3> QED  BY <2>2, <2>3, <3>1, <3>2, ModestKeeps
  <2>5. Remembers(c)'  BY <1>1, <1>3, <2>3 DEF Remembers, Matches
  <2>6. ConnOK(c)'
    BY <1>1, <1>3, <1>4, <1>5, <1>6, <2>1, <2>3, <2>5
    DEF ConnOK, ConnIn, Outside, Busy, Writing, CacheModified, Recovered
  <2> QED  BY <1>6, <2>1, <2>3, <2>4, <2>6 DEF Kept, Mine, Only
<1>8. CASE ~Granted(c, Reserved)
  <2>1. UNCHANGED <<file, disk, journal, left>>  BY <1>1, <1>8 DEF journals
  <2>2. DB' = DB  BY <2>1 DEF DB
  <2>3. Remembers(c)'  BY <1>1, <1>3, <2>2 DEF Remembers, Matches
  <2>4. Recovered'  BY <1>4, <1>5, <2>1, <2>2 DEF Recovered
  <2>5. ConnOK(c)'
    BY <1>1, <1>3, <1>6, <2>3, <2>4 DEF ConnOK, ConnIn, Outside, Busy, Writing, CacheModified
  <2>6. tx' \in {tx, tx + 1}  BY <1>1
  <2> QED  BY <1>6, <2>1, <2>5, <2>6, QuietKeeps DEF Kept, Mine
<1> QED  BY <1>7, <1>8

\* The cache after a rollback holds committed pages, the first of them included.
LEMMA RevertedIs ==
  ASSUME IInv, NEW c \in Conns, cache[c][1] # NotCached,
         \A p \in Pages : p > journal.orig => DB[p] = Empty,
         \A p \in Pages : p \in Recorded(journal) => Original(journal, p) = DB[p],
         Abandoned(c)
  PROVE  /\ Reverted(c) \in [Pages -> Written \union {NotCached}]
         /\ \A p \in Pages : Reverted(c)[p] \in {NotCached, DB[p]}
         /\ Reverted(c)[1] = DB[1]
<1> DEFINE r == Reverted(c)
<1>1. /\ journal \in Journals /\ DB \in [Pages -> Written] /\ 1 \in Pages
  BY JournalIs, DBType, Numeric
<1>2. ASSUME NEW p \in Pages
      PROVE  /\ r[p] \in {NotCached, DB[p]}
             /\ p = 1 => r[p] = DB[p]
  <2>0. r[p] = CASE p > journal.orig -> IF p = 1 THEN Empty ELSE NotCached
                 [] p <= journal.orig /\ cache[c][p] # NotCached
                      -> Undone(journal, p, cache[c][p])
                 [] OTHER -> NotCached
    BY DEF Reverted
  <2> HIDE DEF r
  <2>1. p > journal.orig <=> ~(p <= journal.orig)  BY <1>1, Numeric DEF Journals
  <2>2. CASE p > journal.orig
    <3>1. ~(p <= journal.orig)  BY <2>1, <2>2
    <3>2. r[p] = IF p = 1 THEN Empty ELSE NotCached  BY <2>0, <2>2, <3>1, Zenon
    <3>3. DB[p] = Empty  BY <2>2
    <3> QED  BY <3>2, <3>3
  <2>3. CASE p <= journal.orig /\ cache[c][p] # NotCached
    <3>1. ~(p > journal.orig)  BY <2>1, <2>3
    <3>2. r[p] = Undone(journal, p, cache[c][p])  BY <2>0, <2>3, <3>1, Zenon
    <3>3. CASE p \in Recorded(journal)
      <4>1. Undone(journal, p, cache[c][p]) = Original(journal, p)  BY <1>1, <2>3, <3>3, UndoneIs
      <4> QED  BY <3>2, <3>3, <4>1
    <3>4. CASE p \notin Recorded(journal)
      <4>1. Undone(journal, p, cache[c][p]) = cache[c][p]  BY <1>1, <2>3, <3>4, UndoneIs
      <4> QED  BY <2>3, <3>2, <3>4, <4>1 DEF Abandoned
    <3> QED  BY <3>3, <3>4
  <2>4. CASE p <= journal.orig /\ cache[c][p] = NotCached
    <3>1. ~(p > journal.orig) /\ ~(cache[c][p] # NotCached)  BY <2>1, <2>4
    <3>2. r[p] = NotCached  BY <2>0, <3>1, Zenon
    <3> QED  BY <2>4, <3>2
  <2> QED  BY <2>1, <2>2, <2>3, <2>4
<1>3. r = [p \in Pages |-> r[p]]  BY DEF Reverted
<1> HIDE DEF r
<1>4. r \in [Pages -> Written \union {NotCached}]  BY <1>1, <1>2, <1>3
<1> QED  BY <1>1, <1>2, <1>4 DEF r

LEMMA RollbackKeeps ==
  ASSUME IInv, NEW c \in Conns, Rollback(c)
  PROVE  Mine(c)
<1>1. /\ state[c] \in {"reserved"} \union CacheModified
      /\ IF state[c] = "reserved" THEN UNCHANGED <<journals, cache>>
         ELSE Delete /\ cache' = [cache EXCEPT ![c] = Reverted(c)]
      /\ todo' = [todo EXCEPT ![c] = {}] /\ Goto(c, "reader")
      /\ UNCHANGED <<file, disk, tx, misled>>
  BY DEF Rollback, files, history
<1>2. /\ ConnOK(c) /\ journal \in Journals /\ Fits(journal)
      /\ file \in [Pages -> Written] /\ DB \in [Pages -> Written]
  BY JournalIs, DBType DEF IInv
<1>3. DB[1] < tx  BY <1>1, <1>2 DEF ConnOK, ConnIn
<1>4. DB[1] # Garbage
  <2>1. tx <= MaxTx /\ Garbage = MaxTx + 1 /\ tx \in Nat /\ MaxTx \in Nat  BY Numeric
  <2> QED  BY <1>3, <2>1
<1>5. "reader" \in States /\ {} \in SUBSET Pages  BY DEF States
<1>6. CASE state[c] = "reserved"
  <2>1. UNCHANGED <<file, disk, journal, left>> /\ UNCHANGED cache /\ UNCHANGED <<tx, misled>>
    BY <1>1, <1>6 DEF journals
  <2>2. Only(c) /\ state'[c] = "reader" /\ cache'[c] = cache[c] /\ todo'[c] = {}
    <3>1. /\ cache[c] \in [Pages -> Written \union {NotCached}]
          /\ cache' = [cache EXCEPT ![c] = cache[c]]
      BY <2>1 DEF IInv, CacheTypes
    <3>2. Goto(c, "reader") /\ todo' = [todo EXCEPT ![c] = {}]  BY <1>1
    <3> QED  BY <1>5, <2>1, <3>1, <3>2, Caches
  <2>3. DB' = DB  BY <2>1 DEF DB
  <2>4. Recovered /\ Matches(c) /\ cache[c][1] = DB[1]  BY <1>2, <1>6 DEF ConnOK, ConnIn
  <2>5. Knows(c)'  BY <1>4, <2>1, <2>2, <2>3, <2>4 DEF Recovered, Matches, Knows
  <2>6. ConnOK(c)'
    BY <1>4, <2>2, <2>3, <2>4, <2>5 DEF ConnOK, ConnIn, Outside, Busy, Writing, CacheModified
  <2>7. tx' \in {tx, tx + 1}  BY <1>1
  <2> QED  BY <2>1, <2>2, <2>6, <2>7, QuietKeeps DEF Kept, Mine
<1>7. CASE state[c] \in CacheModified
  <2>1. Delete /\ cache' = [cache EXCEPT ![c] = Reverted(c)]
    BY <1>1, <1>7 DEF CacheModified
  <2>2. /\ file = DB /\ Prepared /\ Changed(c) /\ (file = NoDatabase \/ Synced)
    <3>1. file = DB /\ Prepared /\ Changed(c)  BY <1>2, <1>7 DEF ConnOK, ConnIn
    <3>2. file = NoDatabase \/ Synced
      BY <1>2, <1>7 DEF ConnOK, ConnIn, Writing, CacheModified, IInv, MediaOK
    <3> QED  BY <3>1, <3>2
  <2>3. cache[c][1] # NotCached
    <3>1. cache[c][1] = DB[1] \/ cache[c][1] = DB[1] + 1
      BY <1>2, <1>7 DEF ConnOK, ConnIn, Writing, CacheModified
    <3>2. DB[1] \in Nat /\ tx \in 0..MaxTx /\ MaxTx \in Nat /\ NotCached = MaxTx + 2
      BY DBType, Numeric
    <3> QED  BY <1>3, <3>1, <3>2
  <2>4. \A p \in Pages : p > journal.orig => DB[p] = Empty  BY <2>2 DEF Prepared
  <2>5. ASSUME NEW p \in Pages, p \in Recorded(journal) PROVE Original(journal, p) = DB[p]
    <3>1. PICK i \in DOMAIN journal.recs :
            journal.recs[i].page = p /\ Original(journal, p) = journal.recs[i].val
      BY <2>5, OriginalIs
    <3> QED  BY <2>2, <3>1 DEF Prepared
  <2>6. Abandoned(c)
    <3> SUFFICES ASSUME NEW p \in Pages, p <= journal.orig, p \notin Recorded(journal)
                 PROVE  cache[c][p] \in {NotCached, DB[p]}
      BY DEF Abandoned
    <3>1. ~(p > journal.orig)  BY <1>2, Numeric DEF Journals
    <3> QED  BY <2>2, <3>1 DEF Changed
  <2> DEFINE k == Reverted(c)
  <2>7. /\ k \in [Pages -> Written \union {NotCached}] /\ k[1] = DB[1]
        /\ \A p \in Pages : k[p] \in {NotCached, DB[p]}
    BY <2>3, <2>4, <2>5, <2>6, RevertedIs
  <2>8. cache' = [cache EXCEPT ![c] = k] /\ todo' = [todo EXCEPT ![c] = {}]
        /\ Goto(c, "reader") /\ UNCHANGED <<tx, misled>>
    BY <1>1, <2>1
  <2> HIDE DEF k
  <2>9. Only(c) /\ state'[c] = "reader" /\ cache'[c] = k /\ todo'[c] = {}
    BY <1>5, <2>7, <2>8, Caches
  <2>10. MediaOK' /\ DB' = file /\ ~journal'.valid  BY <1>1, <2>1, <2>2, DeleteKeeps
  <2>11. DB' = DB /\ file' = file /\ (journal'.valid => journal.valid)
    BY <1>1, <2>2, <2>10
  <2>12. Knows(c)'
    BY <1>4, <2>2, <2>7, <2>9, <2>10, <2>11 DEF Recovered, Matches, Knows
  <2>13. ConnOK(c)'
    BY <1>4, <2>7, <2>9, <2>11, <2>12 DEF ConnOK, ConnIn, Outside, Busy, Writing, CacheModified
  <2>14. CASE state[c] = "cachemod"
    BY <2>9, <2>10, <2>11, <2>13, <2>14, WriterStep DEF Mine
  <2>15. CASE state[c] # "cachemod"
    <3>1. state[c] \in Alone  BY <1>7, <2>15 DEF CacheModified, Alone
    <3> QED  BY <2>9, <2>10, <2>11, <2>13, <3>1, AloneStep DEF Mine
  <2> QED  BY <2>14, <2>15
<1> QED  BY <1>1, <1>6, <1>7

\* The file as CutBack leaves it.
LEMMA CutBackFiles ==
  ASSUME IInv, UNCHANGED <<journal, left, tx>>, left = {journal},
         IF journal.valid
           THEN /\ file' = [p \in Pages |-> IF p > journal.orig THEN Empty ELSE file[p]]
                /\ disk' = [p \in Pages |-> disk[p] \union {file'[p]}]
           ELSE UNCHANGED files
  PROVE  /\ MediaOK' /\ DB' = DB
         /\ \A p \in Pages : journal.valid /\ p > journal.orig => file'[p] = Empty /\ DB[p] = Empty
         /\ \A p \in Pages : ~journal.valid \/ p <= journal.orig => file'[p] = file[p]
<1>1. /\ journal \in Journals /\ Fits(journal)
      /\ file \in [Pages -> Written] /\ disk \in [Pages -> SUBSET Written]
      /\ DB \in [Pages -> Written] /\ Empty \in Written /\ Written' = Written
  BY JournalIs, DBType, Numeric DEF Written
<1>2. CASE ~journal.valid
  <2>1. UNCHANGED <<file, disk, journal, tx>> /\ left' = {journal}  BY <1>2 DEF files
  <2>2. MediaOK' /\ DB' = DB  BY <2>1, JournalSynced
  <2> QED  BY <1>2, <2>1, <2>2
<1>3. CASE journal.valid
  <2>1. /\ file' = [p \in Pages |-> IF p > journal.orig THEN Empty ELSE file[p]]
        /\ disk' = [p \in Pages |-> disk[p] \union {file'[p]}]
    BY <1>3
  <2>2. file' \in [Pages -> Written]  BY <1>1, <2>1
  <2>3. disk' \in [Pages -> SUBSET Written]  BY <1>1, <2>1, <2>2
  <2>4. \A p \in Pages : p > journal.orig <=> ~(p <= journal.orig)
    BY <1>1, Numeric DEF Journals
  <2>5. ASSUME NEW p \in Pages
        PROVE  /\ p > journal.orig => file'[p] = Empty
               /\ p <= journal.orig => file'[p] = file[p]
               /\ disk'[p] = disk[p] \union {file'[p]}
    BY <2>1, <2>4
  <2>6. ASSUME NEW p \in Pages PROVE /\ p > journal.orig => DB[p] = Empty
                                     /\ Undone(journal, p, file'[p]) = DB[p]
    <3>1. DB[p] = Undone(journal, p, file[p])  BY <1>3, JournalIs
    <3>2. CASE p > journal.orig  BY <1>1, <3>1, <3>2, UndoneIs
    <3>3. CASE p <= journal.orig  BY <2>4, <2>5, <3>1, <3>3
    <3> QED  BY <2>4, <3>2, <3>3
  <2>7. DB' = DB
    <3>1. DB' = [p \in Pages |-> Undone(journal, p, file'[p])]  BY <1>3 DEF DB, Committed
    <3> QED  BY <1>1, <2>6, <3>1
  <2>8. Fits(journal)'
    <3>1. ASSUME journal.orig # 0, Empty \in disk'[journal.orig] PROVE FALSE
      <4>1. journal.orig \in Pages  BY <1>1, <3>1, Numeric DEF Journals, Pages
      <4>2. journal.orig <= journal.orig  BY <4>1, Numeric
      <4>3. disk'[journal.orig] = disk[journal.orig] \union {file[journal.orig]}
        BY <2>5, <4>1, <4>2
      <4>4. file[journal.orig] \in disk[journal.orig]  BY <4>1 DEF IInv, MediaOK
      <4> QED  BY <1>1, <1>3, <3>1, <4>3, <4>4 DEF Fits
    <3> QED  BY <1>1, <3>1 DEF Fits
  <2>9. MediaTypes'  BY <1>1, <2>2, <2>3 DEF IInv, MediaOK, MediaTypes
  <2>10. \A p \in Pages : file'[p] \in disk'[p]  BY <2>5
  <2>11. ASSUME NEW p \in Pages, NEW v \in disk'[p] PROVE Undone(journal, p, v) = DB[p]
    <3>1. v \in disk[p] \/ v = file'[p]  BY <2>5
    <3> QED  BY <1>3, <2>6, <3>1 DEF IInv, MediaOK
  <2>12. MediaOK'  BY <1>3, <2>7, <2>8, <2>9, <2>10, <2>11 DEF MediaOK
  <2> QED  BY <1>3, <2>5, <2>6, <2>7, <2>12
<1> QED  BY <1>2, <1>3

LEMMA CutBackKeeps ==
  ASSUME IInv, NEW c \in Conns, CutBack(c)
  PROVE  Mine(c)
<1> DEFINE s == IF journal.valid THEN Recorded(journal) ELSE {}
           k == IF state[c] = "undo" THEN Reverted(c)
                ELSE IF journal.valid /\ journal.recs # <<>> THEN Nothing ELSE cache[c]
           t == IF state[c] = "undo" THEN "undoing" ELSE "replaying"
<1>1. /\ state[c] \in {"replay", "undo"}
      /\ cache' = [cache EXCEPT ![c] = k]
      /\ todo' = [todo EXCEPT ![c] = s]
      /\ Goto(c, t)
      /\ UNCHANGED <<journal, left, tx, misled>>
      /\ IF journal.valid
           THEN /\ file' = [p \in Pages |-> IF p > journal.orig THEN Empty ELSE file[p]]
                /\ disk' = [p \in Pages |-> disk[p] \union {file'[p]}]
           ELSE UNCHANGED files
  BY DEF CutBack, journals, history
<1>2. /\ ConnOK(c) /\ journal \in Journals /\ Fits(journal) /\ DB \in [Pages -> Written]
      /\ file \in [Pages -> Written]
      /\ cache[c] \in [Pages -> Written \union {NotCached}]
  BY JournalIs, DBType DEF IInv, CacheTypes
<1>3. left = {journal}  BY <1>1, <1>2 DEF ConnOK, ConnIn
<1>4. /\ MediaOK' /\ DB' = DB
      /\ \A p \in Pages : journal.valid /\ p > journal.orig => file'[p] = Empty /\ DB[p] = Empty
      /\ \A p \in Pages : ~journal.valid \/ p <= journal.orig => file'[p] = file[p]
  BY <1>1, <1>3, CutBackFiles
<1>5. ASSUME state[c] = "undo"
      PROVE  /\ k \in [Pages -> Written \union {NotCached}] /\ k[1] = DB[1]
             /\ \A p \in Pages : k[p] \in {NotCached, DB[p]}
             /\ DB[1] # Garbage /\ DB[1] < tx
  <2>1. journal.valid /\ Abandoned(c) /\ cache[c][1] = DB[1] + 1 /\ DB[1] < tx
    BY <1>2, <1>5 DEF ConnOK, ConnIn
  <2>2. cache[c][1] # NotCached /\ DB[1] # Garbage
    <3>1. /\ DB[1] \in Nat /\ tx \in 0..MaxTx /\ MaxTx \in Nat
          /\ NotCached = MaxTx + 2 /\ Garbage = MaxTx + 1
      BY DBType, Numeric
    <3> QED  BY <2>1, <3>1
  <2>3. \A p \in Pages : p > journal.orig => DB[p] = Empty  BY <1>4, <2>1
  <2>4. ASSUME NEW p \in Pages, p \in Recorded(journal) PROVE Original(journal, p) = DB[p]
    <3>1. DB[p] = Undone(journal, p, file[p])  BY <2>1, JournalIs
    <3>2. p <= journal.orig  BY <1>2, <2>4, Numeric DEF Fits, Journals
    <3> QED  BY <1>2, <2>4, <3>1, <3>2, UndoneIs
  <2>5. k = Reverted(c)  BY <1>5
  <2> HIDE DEF k
  <2> QED  BY <2>1, <2>2, <2>3, <2>4, <2>5, RevertedIs
<1>6. k \in [Pages -> Written \union {NotCached}]
  BY <1>2, <1>5, NothingIs
<1>7. s \in SUBSET Pages
  <2>1. Recorded(journal) \subseteq Pages
    BY <1>2, Numeric DEF Fits, Pages, Journals
  <2> QED  BY <2>1
<1>8. Restoring(c)'
  <2>1. todo'[c] = s  BY <1>1 DEF IInv, CacheTypes
  <2>2. Recorded(journal') = Recorded(journal)  BY <1>1 DEF Recorded
  <2>3. ASSUME NEW p \in Pages \ s PROVE file'[p] = DB'[p]
    <3>1. CASE ~journal.valid  BY <1>4, <3>1, JournalIs
    <3>2. CASE journal.valid
      <4>1. p \notin Recorded(journal)  BY <3>2
      <4>2. CASE p > journal.orig  BY <1>4, <3>2, <4>2
      <4>3. CASE p <= journal.orig
        <5>1. DB[p] = Undone(journal, p, file[p])  BY <3>2, JournalIs
        <5> QED  BY <1>2, <1>4, <4>1, <4>3, <5>1, UndoneIs
      <4>4. p > journal.orig \/ p <= journal.orig  BY <1>2, Numeric DEF Journals
      <4> QED  BY <4>2, <4>3, <4>4
    <3> QED  BY <3>1, <3>2
  <2>4. todo'[c] \subseteq Recorded(journal') /\ (todo'[c] # {} => journal'.valid)
    BY <1>1, <2>1, <2>2
  <2> QED  BY <2>1, <2>3, <2>4 DEF Restoring
<1>9. ASSUME state[c] = "replay" PROVE Remembers(c)'
  <2>1. Remembers(c)  BY <1>2, <1>9 DEF ConnOK, ConnIn, Outside
  <2>2. cache'[c] = k  BY <1>1 DEF IInv, CacheTypes
  <2>3. k = Nothing \/ k = cache[c]  BY <1>9
  <2> HIDE DEF k
  <2>4. CASE k = Nothing  BY <2>2, <2>4, NothingIs DEF Remembers
  <2>5. CASE k = cache[c]  BY <1>1, <1>4, <2>1, <2>2, <2>5 DEF Remembers, Matches
  <2> QED  BY <2>3, <2>4, <2>5
<1>10. t \in States /\ (state[c] = "undo" <=> t = "undoing") /\ (state[c] = "replay" <=> t = "replaying")
  BY <1>1 DEF States
<1> HIDE DEF k, s
<1>11. Only(c) /\ state'[c] = t /\ cache'[c] = k /\ todo'[c] = s
  <2>1. PICK u \in States : u = t  BY <1>10
  <2>2. Goto(c, u) /\ UNCHANGED <<tx, misled>> /\ cache' = [cache EXCEPT ![c] = k]
        /\ todo' = [todo EXCEPT ![c] = s]
    BY <1>1, <2>1
  <2>3. Only(c) /\ state'[c] = u /\ cache'[c] = k /\ todo'[c] = s
    BY <1>6, <1>7, <2>2, Caches
  <2> QED  BY <2>1, <2>3
<1> HIDE DEF t
<1>12. ASSUME state[c] = "undo" PROVE Matches(c)'
  BY <1>4, <1>5, <1>11, <1>12 DEF Matches
<1>13. ConnOK(c)'
  BY <1>1, <1>2, <1>3, <1>4, <1>5, <1>8, <1>9, <1>10, <1>11, <1>12
  DEF ConnOK, ConnIn, Outside, Busy, Writing, CacheModified
<1>14. state[c] \in Alone  BY <1>1 DEF Alone
<1> QED  BY <1>4, <1>11, <1>13, <1>14, AloneStep DEF Mine

\* After a crash no connection remembers anything.
LEMMA AllGone ==
  ASSUME IInv, ProcessGone
  PROVE  CacheTypes' /\ \A d \in Conns : ConnOK(d)'
<1>1. /\ state' = [c \in Conns |-> "open"] /\ cache' = [c \in Conns |-> Nothing]
      /\ todo' = [c \in Conns |-> {}] /\ tx' = tx /\ Written' = Written
  BY DEF ProcessGone, Written
<1>2. CacheTypes'  BY <1>1, NothingIs DEF IInv, CacheTypes
<1>3. ASSUME NEW d \in Conns PROVE ConnOK(d)'
  <2>1. state'[d] = "open" /\ cache'[d] = Nothing /\ todo'[d] = {}  BY <1>1
  <2>2. Remembers(d)'  BY <2>1, NothingIs DEF Remembers
  <2> QED  BY <2>1, <2>2 DEF ConnOK, ConnIn, Outside, Busy, Writing, CacheModified
<1> QED  BY <1>2, <1>3

LEMMA KilledKeeps ==
  ASSUME IInv, Killed
  PROVE  Kept
<1>1. UNCHANGED <<file, disk, journal, left, tx>>
  BY DEF Killed, ProcessGone, files, journals
<1>2. MediaOK'
  <2>1. DB' = DB /\ Synced' = Synced  BY <1>1 DEF DB, Synced
  <2>2. MediaTypes'  BY <1>1 DEF IInv, MediaOK, MediaTypes, Written
  <2>3. \A j \in left' \union {journal'} : Fits(j)'  BY <1>1, SameFits DEF IInv, MediaOK
  <2> QED  BY <1>1, <2>1, <2>2, <2>3 DEF IInv, MediaOK
<1> QED  BY <1>2, AllGone DEF Kept, Killed

LEMMA PowerFailsKeeps ==
  ASSUME IInv, PowerFails
  PROVE  Kept
<1>1. /\ file' \in Surviving /\ disk' = [p \in Pages |-> {file'[p]}]
      /\ journal' \in left /\ left' = {journal'} /\ tx' = tx /\ Written' = Written
  BY DEF PowerFails, ProcessGone, Written
<1>2. disk \in [Pages -> SUBSET Written] /\ left \subseteq Journals
  BY DEF IInv, MediaOK, MediaTypes
<1>3. file' \in [Pages -> Written] /\ \A p \in Pages : file'[p] \in disk[p]
  <2>1. UNION {disk[p] : p \in Pages} \subseteq Written  BY <1>2
  <2> QED  BY <1>1, <2>1 DEF Surviving
<1>4. disk' \in [Pages -> SUBSET Written] /\ \A p \in Pages : disk'[p] = {file'[p]}
  BY <1>1, <1>3
<1>5. MediaTypes'  BY <1>1, <1>2, <1>3, <1>4 DEF MediaTypes
<1>6. Fits(journal)'
  <2>1. Fits(journal') /\ journal' \in Journals  BY <1>1, <1>2 DEF IInv, MediaOK
  <2>2. ASSUME journal'.valid, journal'.orig # 0 PROVE Empty \notin disk'[journal'.orig]
    <3>1. journal'.orig \in Pages  BY <2>1, <2>2, Numeric DEF Journals, Pages
    <3> QED  BY <1>3, <1>4, <2>1, <2>2, <3>1 DEF Fits
  <2> QED  BY <1>1, <2>1, <2>2 DEF Fits
<1>7. Synced'  BY <1>4 DEF Synced
<1>8. ASSUME journal'.valid, NEW p \in Pages, NEW v \in disk'[p]
      PROVE  Undone(journal', p, v) = DB'[p]
  <2>1. DB' = [q \in Pages |-> Undone(journal', q, file'[q])]
    BY <1>8 DEF DB, Committed
  <2> QED  BY <1>4, <1>8, <2>1
<1>9. MediaOK'  BY <1>1, <1>4, <1>5, <1>6, <1>7, <1>8 DEF MediaOK
<1> QED  BY <1>9, AllGone DEF Kept, PowerFails

\* There is no database at first.
LEMMA IInvInitially == Init => IInv
<1> SUFFICES ASSUME Init PROVE IInv  OBVIOUS
<1>1. PagerInv  BY PagerInitially
<1>2. /\ file = NoDatabase /\ disk = [p \in Pages |-> {Empty}] /\ journal = NoJournal
      /\ left = {NoJournal} /\ state = [c \in Conns |-> "open"]
      /\ cache = [c \in Conns |-> Nothing] /\ todo = [c \in Conns |-> {}] /\ tx = 0
  BY DEF Init, NoDatabase
<1>3. NoJournal \in Journals /\ NoJournal.recs = <<>> /\ ~NoJournal.valid  BY BlanksAre
<1>4. Empty \in Written  BY <1>2 DEF Written, Empty
<1>5. CacheTypes
  <2>1. tx \in 0..MaxTx  BY <1>2, PagerAssumption
  <2> QED  BY <1>2, <2>1, NothingIs DEF CacheTypes
<1>6. MediaOK
  <2>1. MediaTypes  BY <1>2, <1>3, <1>4 DEF MediaTypes, NoDatabase
  <2>2. Fits(NoJournal)  BY <1>3 DEF Fits, Recorded
  <2>3. \A p \in Pages : file[p] \in disk[p]  BY <1>2 DEF NoDatabase
  <2> QED  BY <1>2, <1>3, <2>1, <2>2, <2>3 DEF MediaOK
<1>7. ASSUME NEW d \in Conns PROVE ConnOK(d)
  <2>1. state[d] = "open" /\ cache[d] = Nothing /\ todo[d] = {}  BY <1>2
  <2>2. Remembers(d)  BY <2>1, NothingIs DEF Remembers
  <2> QED  BY <2>1, <2>2 DEF ConnOK, ConnIn, Outside, Busy, Writing, CacheModified
<1> QED  BY <1>1, <1>5, <1>6, <1>7 DEF IInv

\* Every step keeps the invariant, but for a misled connection's that begins to write.
LEMMA IInvKeeps == IInv /\ [Next]_vars /\ ~spoiled' => IInv'
<1> SUFFICES ASSUME IInv, [Next]_vars, ~spoiled' PROVE IInv'  OBVIOUS
<1>1. PagerInv'  BY PagerKeeps DEF IInv
<1>2. Kept
  <2>1. CASE UNCHANGED vars
    <3>1. /\ UNCHANGED <<file, disk, journal, left, tx>>
          /\ UNCHANGED <<state, cache, todo, misled>>
      BY <2>1 DEF vars
    <3>2. DB' = DB /\ Synced' = Synced  BY <3>1 DEF DB, Synced
    <3>3. MediaTypes' /\ CacheTypes'
      BY <3>1 DEF IInv, MediaOK, MediaTypes, CacheTypes, Written
    <3>4. \A j \in left' \union {journal'} : Fits(j)'  BY <3>1, SameFits DEF IInv, MediaOK
    <3>5. MediaOK'  BY <3>1, <3>2, <3>3, <3>4 DEF IInv, MediaOK
    <3>6. ASSUME NEW d \in Conns PROVE ConnOK(d)'
      <4>1. /\ Remembers(d)' = Remembers(d) /\ Matches(d)' = Matches(d) /\ Knows(d)' = Knows(d)
            /\ Restoring(d)' = Restoring(d) /\ Abandoned(d)' = Abandoned(d) /\ Unread(d)' = Unread(d)
            /\ Prepared' = Prepared /\ Changed(d)' = Changed(d) /\ Recovered' = Recovered
        BY <3>1, SameSaid
      <4>2. ConnOK(d)  BY DEF IInv
      <4> QED  BY <3>1, <3>2, <4>1, <4>2 DEF ConnOK, ConnIn
    <3> QED  BY <3>3, <3>5, <3>6 DEF Kept
  <2>2. ASSUME NEW c \in Conns, Read(c) PROVE Kept
    BY <2>2, TakeSharedKeeps, LookForJournalKeeps, LookForWriterKeeps, DropRemnantKeeps,
       LookIntoJournalKeeps, LockForRecoveryKeeps, NothingToRecoverKeeps, SyncHotJournalKeeps,
       ReadHeaderKeeps, EndReadKeeps, ReadPageKeeps
    DEF Read, Mine
  <2>3. ASSUME NEW c \in Conns, WriteTx(c) PROVE Kept
    BY <2>3, BeginWriteKeeps, OpenForWritingKeeps, LockForCommitKeeps, CountChangeKeeps,
       SyncRecordsKeeps, WriteHeaderKeeps, SyncHeaderKeeps, WriteBackKeeps, SyncPagesKeeps,
       CommitKeeps, WritePageKeeps
    DEF WriteTx, Mine
  <2>4. ASSUME NEW c \in Conns, Undo(c) PROVE Kept
    BY <2>4, RollbackKeeps, RollbackFailsKeeps, CommitFailsKeeps, WriteFailsKeeps, CutBackKeeps,
       RestoreKeeps, SyncRestoredKeeps, EndPlaybackKeeps, EndPlaybackFailsKeeps,
       PlaybackFailsKeeps, ClearErrorKeeps
    DEF Undo, Mine
  <2> QED
    BY <2>1, <2>2, <2>3, <2>4, KilledKeeps, PowerFailsKeeps DEF Next
<1> QED  BY <1>1, <1>2 DEF IInv, Kept

\* The two history variables: misled connections are connections, and what is
\* spoiled was so before or is so since a misled connection has begun to write.
Histories == misled \subseteq Conns /\ spoiled \in BOOLEAN

LEMMA HistoriesKeep ==
  Histories /\ [Next]_vars => Histories' /\ (spoiled' => spoiled \/ misled # {})
                             /\ (spoiled => spoiled')
<1> SUFFICES ASSUME Histories, [Next]_vars
             PROVE  Histories' /\ (spoiled' => spoiled \/ misled # {}) /\ (spoiled => spoiled')
  OBVIOUS
<1> DEFINE Good == Histories' /\ (spoiled' => spoiled \/ misled # {}) /\ (spoiled => spoiled')
<1>0. UNCHANGED history => Good  BY DEF Histories, history
<1>1. ProcessGone => Good  BY DEF Histories, ProcessGone
<1> HIDE DEF Good
<1>2. CASE UNCHANGED vars
  <2>1. UNCHANGED history  BY <1>2 DEF vars, history
  <2> QED  BY <1>0, <2>1 DEF Good
<1>3. ASSUME NEW c \in Conns, Read(c) PROVE Good
  <2>1. CASE LookForWriter(c)  BY <2>1 DEF LookForWriter, Histories, Good
  <2>2. CASE ~LookForWriter(c)
    BY <1>0, <1>3, <2>2
    DEF Read, TakeShared, LookForJournal, DropRemnant, LookIntoJournal,
        LockForRecovery, NothingToRecover, SyncHotJournal, ReadHeader, EndRead, ReadPage
  <2> QED  BY <2>1, <2>2
<1>4. ASSUME NEW c \in Conns, WriteTx(c) PROVE Good
  <2>1. CASE BeginWrite(c)  BY <2>1 DEF BeginWrite, Histories, Good
  <2>2. CASE ~BeginWrite(c)
    BY <1>0, <1>4, <2>2
    DEF WriteTx, OpenForWriting, LockForCommit, CountChange, SyncRecords,
        WriteHeader, SyncHeader, WriteBack, SyncPages, Commit, WritePage
  <2> QED  BY <2>1, <2>2
<1>5. ASSUME NEW c \in Conns, Undo(c) PROVE Good
  BY <1>0, <1>5
  DEF Undo, Rollback, RollbackFails, CommitFails, WriteFails, CutBack, Restore,
      SyncRestored, EndPlayback, EndPlaybackFails, PlaybackFails, ClearError
<1> QED  BY <1>1, <1>2, <1>3, <1>4, <1>5 DEF Next, Killed, PowerFails, Good

LEMMA HistoriesHold == Spec => []Histories
<1>1. Init => Histories  BY DEF Init, Histories
<1> QED  BY <1>1, HistoriesKeep, PTL DEF Spec

\* The invariant holds until a misled connection has begun to write.
LEMMA IInvHolds == Spec => [](spoiled \/ IInv)
<1>1. Histories /\ (spoiled \/ IInv) /\ [Next]_vars => (spoiled \/ IInv)'
  BY IInvKeeps, HistoriesKeep
<1> QED  BY <1>1, IInvInitially, HistoriesHold, PTL DEF Spec

\* What the pager keeps in its caches, its file and its journal are pages and
\* versions of them, whatever is written, rolled back, torn or recovered, as long
\* as no misled connection writes.
THEOREM TypeCorrect == Spec => []TypeOK
<1>1. ASSUME PagerInv, Histories, spoiled \/ IInv PROVE TypeOK
  <2>1. LocksTypeOK /\ state \in [Conns -> States]
    BY <1>1 DEF PagerInv, LocksInv, StatesHaveLocks
  <2>2. ASSUME IInv
        PROVE  /\ file \in [Pages -> Values] /\ disk \in [Pages -> SUBSET Values]
               /\ journal \in Journals /\ left \subseteq Journals
               /\ cache \in [Conns -> [Pages -> Values]] /\ todo \in [Conns -> SUBSET Pages]
               /\ tx \in 0..MaxTx
    <3>1. Written \subseteq Values /\ NotCached \in Values  BY <2>2, Numeric DEF Values
    <3>2. /\ file \in [Pages -> Values] /\ disk \in [Pages -> SUBSET Values]
          /\ journal \in Journals /\ left \subseteq Journals
      BY <2>2, <3>1 DEF IInv, MediaOK, MediaTypes
    <3>3. /\ cache \in [Conns -> [Pages -> Values]] /\ todo \in [Conns -> SUBSET Pages]
          /\ tx \in 0..MaxTx
      BY <2>2, <3>1 DEF IInv, CacheTypes
    <3> QED  BY <3>2, <3>3
  <2> QED  BY <1>1, <2>1, <2>2 DEF TypeOK, Histories
<1>2. Spec => []PagerInv  BY PagerInitially, PagerKeeps, PTL DEF Spec
<1> QED  BY <1>1, <1>2, IInvHolds, HistoriesHold, PTL

\* To undo a page that has been undone changes nothing (pager_playback can be interrupted).
LEMMA UndoneTwice ==
  ASSUME NEW j \in Journals, NEW p \in Pages, NEW v
  PROVE  Undone(j, p, Undone(j, p, v)) = Undone(j, p, v)
<1>1. p > j.orig \/ p <= j.orig  BY PagerAssumption DEF Journals, Pages
<1>2. CASE p > j.orig  BY <1>2, UndoneIs
<1>3. CASE p <= j.orig /\ p \in Recorded(j)  BY <1>3, UndoneIs
<1>4. CASE p <= j.orig /\ p \notin Recorded(j)  BY <1>4, UndoneIs
<1> QED  BY <1>1, <1>2, <1>3, <1>4

\* Whatever has reached the disk of a transaction that is under way, and whichever
\* of its journals a power failure leaves, rolling back gives the committed state:
\* the journal is synced before the file is written and kept until the file is
\* synced (sqlite3PagerCommitPhaseOne, sqlite3.c:45947). Whoever may be misled, this
\* holds until such a connection writes.
THEOREM RollbackIsPossible == Spec => []WriteAhead
<1>1. ASSUME spoiled \/ IInv PROVE WriteAhead
  <2> SUFFICES ASSUME IInv, DB # NoDatabase, NEW j \in left, NEW p \in Pages, NEW v \in disk[p]
               PROVE  /\ ~j.valid => v = DB[p]
                      /\ j.valid => Undone(j, p, v) = Undone(j, p, DB[p])
                      /\ j.valid /\ journal.valid => Undone(j, p, v) = DB[p]
    BY <1>1 DEF WriteAhead, DB
  <2>1. CASE ~journal.valid
    <3>1. DB = file  BY <2>1, JournalIs
    <3>2. v = DB[p]  BY <2>1, <3>1 DEF IInv, MediaOK, Synced
    <3> QED  BY <2>1, <3>2
  <2>2. CASE journal.valid /\ j = journal
    <3>1. Undone(journal, p, v) = DB[p]  BY <2>2 DEF IInv, MediaOK
    <3>2. DB[p] = Undone(journal, p, file[p])  BY <2>2, JournalIs
    <3>3. Undone(journal, p, DB[p]) = DB[p]  BY <3>2, JournalIs, UndoneTwice
    <3> QED  BY <2>2, <3>1, <3>3
  <2>3. CASE journal.valid /\ j # journal
    <3>1. ~j.valid /\ Synced /\ file = DB  BY <2>3 DEF IInv, MediaOK
    <3> QED  BY <3>1 DEF Synced
  <2> QED  BY <2>1, <2>2, <2>3
<1> QED  BY <1>1, IInvHolds, PTL

\* A connection that reads pages reads committed ones: a hot journal is played
\* back before the first page is read (sqlite3PagerSharedLock, sqlite3.c:44848),
\* however often the process is killed or the power fails on the way. Those that
\* have taken a refused recovery for a writer (sqlite3.c:25298) are the only ones of
\* which this is not said, and their first write the only end to it.
THEOREM ReadersHaveRecovered == Spec => []RecoveredBeforeRead
<1>1. ASSUME spoiled \/ IInv PROVE RecoveredBeforeRead
  <2>1. ASSUME IInv, NEW c \in Conns \ misled, state[c] = "reader"
        PROVE  file = Committed(file, journal)
    BY <2>1 DEF IInv, ConnOK, ConnIn, Knows, Recovered, DB
  <2> QED  BY <1>1, <2>1 DEF RecoveredBeforeRead
<1> QED  BY <1>1, IInvHolds, PTL

-----------------------------------------------------------------------------
(* The pager implements Database.                                           *)

\* A power failure may leave a journal that is as valid as the one there is.
Represented == \E j \in left : j.valid <=> journal.valid

\* Every step keeps it.
LEMMA RepresentedKeeps ==
  ASSUME IInv, Represented, [Next]_vars
  PROVE  Represented'
<1>1. journal \in Journals  BY JournalIs
<1>2. ASSUME UNCHANGED left, journal'.valid = journal.valid PROVE Represented'
  BY <1>2 DEF Represented
<1>3. ASSUME Delete PROVE Represented'
  BY <1>3, BlanksAre DEF Delete, Represented
<1>4. ASSUME left' = {journal'} PROVE Represented'
  BY <1>4 DEF Represented
<1>5. ASSUME UNCHANGED <<journal, left>> PROVE Represented'
  BY <1>2, <1>5
<1>6. ASSUME NEW c \in Conns, NEW p, NEW v, Change(c, p, v), UNCHANGED left PROVE Represented'
  <2>1. journal' = Recording(journal, c, p)  BY <1>6 DEF Change
  <2>2. journal'.valid = journal.valid  BY <1>1, <2>1 DEF Recording, Journals
  <2> QED  BY <1>2, <1>6, <2>2
<1>7. CASE UNCHANGED vars  BY <1>5, <1>7 DEF vars
<1>8. CASE Killed  BY <1>5, <1>8 DEF Killed, journals
<1>9. CASE PowerFails  BY <1>4, <1>9 DEF PowerFails
<1>10. ASSUME NEW c \in Conns, Read(c) PROVE Represented'
  <2>1. CASE SyncHotJournal(c)  BY <1>4, <2>1 DEF SyncHotJournal
  <2>2. CASE DropRemnant(c)  BY <1>3, <1>5, <2>2 DEF DropRemnant, journals
  <2>3. CASE ~SyncHotJournal(c) /\ ~DropRemnant(c)
    <3>1. UNCHANGED <<journal, left>>
      BY <1>10, <2>3
      DEF Read, journals, TakeShared, LookForJournal, LookForWriter, LookIntoJournal,
          LockForRecovery, NothingToRecover, ReadHeader, EndRead, ReadPage
    <3> QED  BY <1>5, <3>1
  <2> QED  BY <2>1, <2>2, <2>3
<1>11. ASSUME NEW c \in Conns, WriteTx(c) PROVE Represented'
  <2>0. ConnOK(c)  BY DEF IInv
  <2>1. CASE OpenForWriting(c)
    <3>1. journal' = [Blank EXCEPT !.orig = FileSize] /\ left' = left \union {Blank}
      BY <2>1 DEF OpenForWriting, OpenJournal
    <3>2. ~journal'.valid  BY <3>1, BlanksAre DEF Journals
    <3> QED  BY <3>1, <3>2, BlanksAre DEF Represented
  <2>2. CASE CountChange(c)  BY <1>6, <2>2 DEF CountChange
  <2>3. ASSUME NEW p \in Pages, WritePage(c, p) PROVE Represented'
    BY <1>6, <2>3 DEF WritePage
  <2>4. CASE SyncRecords(c)
    <3>1. left' = {Blank} /\ journal'.valid = journal.valid /\ ~journal.valid
      BY <1>1, <2>0, <2>4 DEF SyncRecords, Journals, ConnOK, ConnIn
    <3> QED  BY <3>1, BlanksAre DEF Represented
  <2>5. CASE WriteHeader(c)
    <3>1. journal'.synced /\ left' = left \union Remains(journal')
      BY <1>1, <2>0, <2>5 DEF WriteHeader, Journals, ConnOK, ConnIn
    <3>2. journal' \in left'  BY <3>1 DEF Remains
    <3> QED  BY <3>2 DEF Represented
  <2>6. CASE SyncHeader(c)  BY <1>4, <2>6 DEF SyncHeader
  <2>7. CASE Commit(c)  BY <1>3, <2>7 DEF Commit
  <2>8. CASE BeginWrite(c) \/ LockForCommit(c) \/ WriteBack(c) \/ SyncPages(c)
    BY <1>5, <2>8 DEF BeginWrite, LockForCommit, WriteBack, SyncPages, journals
  <2> QED
    BY <1>11, <2>1, <2>2, <2>3, <2>4, <2>5, <2>6, <2>7, <2>8 DEF WriteTx
<1>12. ASSUME NEW c \in Conns, Undo(c) PROVE Represented'
  <2>1. CASE Rollback(c)  BY <1>3, <1>5, <2>1 DEF Rollback, journals
  <2>2. CASE EndPlayback(c)  BY <1>3, <2>2 DEF EndPlayback
  <2>3. CASE ~Rollback(c) /\ ~EndPlayback(c)
    <3>1. UNCHANGED <<journal, left>>
      BY <1>12, <2>3
      DEF Undo, journals, RollbackFails, CommitFails, WriteFails, CutBack, Restore, SyncRestored,
          EndPlaybackFails, PlaybackFails, ClearError
    <3> QED  BY <1>5, <3>1
  <2> QED  BY <2>1, <2>2, <2>3
<1> QED  BY <1>7, <1>8, <1>9, <1>10, <1>11, <1>12 DEF Next

\* It holds at first.
LEMMA RepresentedInitially == Init => Represented
  BY DEF Init, Represented

\* What the refinement rests on.
RInv == IInv /\ Represented

\* It holds as long as the invariant does.
LEMMA RInvHolds == Spec => [](spoiled \/ RInv)
<1>1. Init => RInv  BY IInvInitially, RepresentedInitially DEF RInv
<1>2. Histories /\ (spoiled \/ RInv) /\ [Next]_vars => (spoiled \/ RInv)'
  BY IInvKeeps, RepresentedKeeps, HistoriesKeep DEF RInv
<1> QED  BY <1>1, <1>2, HistoriesHold, PTL DEF Spec

\* What a power failure may leave, as far as the committed state goes.
DurableOK ==
  /\ DB \in Durable
  /\ journal.valid /\ DB # NoDatabase => Durable = {DB}
  /\ Synced => Durable = {Committed(file, j) : j \in left}

\* What a power failure may leave is what the invariant of the files says.
LEMMA DurableIs == RInv => DurableOK
<1> SUFFICES ASSUME RInv PROVE DurableOK  OBVIOUS
<1>1. IInv /\ Represented /\ MediaOK  BY DEF RInv, IInv
<1>2. /\ journal \in Journals /\ file \in [Pages -> Written]
      /\ disk \in [Pages -> SUBSET Written] /\ DB \in [Pages -> Written]
  BY <1>1, JournalIs, DBType
<1>3. file \in Surviving
  <2>1. \A p \in Pages : file[p] \in disk[p]  BY <1>1 DEF MediaOK
  <2>2. file \in [Pages -> UNION {disk[p] : p \in Pages}]  BY <1>2, <2>1
  <2> QED  BY <2>1, <2>2 DEF Surviving
<1>4. ASSUME NEW f \in Surviving
      PROVE  (\A p \in Pages : f[p] \in disk[p]) /\ f = [p \in Pages |-> f[p]]
  BY DEF Surviving
<1>5. ASSUME NEW j \in left
      PROVE  /\ journal.valid /\ j.valid => j = journal
             /\ journal.valid /\ ~j.valid => DB = NoDatabase \/ (Synced /\ file = DB)
  BY <1>1 DEF MediaOK
<1>6. DB \in Durable
  <2>1. PICK j \in left : j.valid <=> journal.valid  BY <1>1 DEF Represented
  <2>2. Committed(file, j) = DB
    <3>1. CASE journal.valid  BY <1>5, <2>1, <3>1 DEF DB
    <3>2. CASE ~journal.valid  BY <2>1, <3>2 DEF DB, Committed
    <3> QED  BY <3>1, <3>2
  <2> QED  BY <1>3, <2>2 DEF Durable
<1>7. Synced => Surviving = {file}
  <2>1. ASSUME Synced, NEW f \in Surviving PROVE f = file
    <3>1. \A p \in Pages : f[p] = file[p]  BY <1>4, <2>1 DEF Synced
    <3> QED  BY <1>2, <1>4, <3>1
  <2> QED  BY <1>3, <2>1
<1>8. Synced => Durable = {Committed(file, j) : j \in left}  BY <1>7 DEF Durable
<1>9. ASSUME journal.valid, DB # NoDatabase, NEW f \in Surviving, NEW j \in left
      PROVE  Committed(f, j) = DB
  <2>1. CASE j.valid
    <3>1. j = journal  BY <1>5, <1>9, <2>1
    <3>2. Committed(f, j) = [p \in Pages |-> Undone(journal, p, f[p])]
      BY <2>1, <3>1 DEF Committed
    <3>3. \A p \in Pages : Undone(journal, p, f[p]) = DB[p]
      BY <1>1, <1>4, <1>9 DEF MediaOK
    <3> QED  BY <1>2, <3>2, <3>3
  <2>2. CASE ~j.valid
    <3>1. Synced /\ file = DB  BY <1>5, <1>9, <2>2
    <3>2. f = file  BY <1>7, <1>9, <3>1
    <3> QED  BY <2>2, <3>1, <3>2 DEF Committed
  <2> QED  BY <2>1, <2>2
<1>10. journal.valid /\ DB # NoDatabase => Durable = {DB}
  BY <1>6, <1>9 DEF Durable
<1> QED  BY <1>6, <1>8, <1>10 DEF DurableOK

\* The same of the next state.
LEMMA DurableNext == RInv' => DurableOK'
  BY DurableIs, PTL

\* The view of a connection, by where it is.
LEMMA ViewIs ==
  ASSUME NEW c \in Conns
  PROVE  /\ state[c] \notin InTransaction => View[c] = Nothing
         /\ state[c] \in InTransaction =>
              View[c] = [p \in Pages |-> IF cache[c][p] = NotCached THEN DB[p] ELSE cache[c][p]]
BY DEF View, DB

\* Who has changed nothing sees the committed state.
LEMMA ViewMatches ==
  ASSUME IInv, NEW c \in Conns, state[c] \in InTransaction, Matches(c)
  PROVE  View[c] = DB
<1>1. View[c] = [p \in Pages |-> IF cache[c][p] = NotCached THEN DB[p] ELSE cache[c][p]]
  BY ViewIs
<1>2. DB \in [Pages -> Written]  BY DBType
<1> QED  BY <1>1, <1>2 DEF Matches

\* Who is in a transaction sees a database.
LEMMA ViewNotIdle ==
  ASSUME IInv, NEW c \in Conns, state[c] \in InTransaction
  PROVE  View[c] # Nothing
<1>1. View[c] = [p \in Pages |-> IF cache[c][p] = NotCached THEN DB[p] ELSE cache[c][p]]
  BY ViewIs
<1>2. DB[1] # NotCached /\ 1 \in Pages  BY DBType, Numeric
<1>3. View[c][1] # NotCached  BY <1>1, <1>2
<1> QED  BY <1>3, NothingIs

\* The view of c after a step of it, by where it is then.
LEMMA NewView ==
  ASSUME NEW c \in Conns
  PROVE  /\ state'[c] \notin InTransaction => View'[c] = Nothing
         /\ state'[c] \in InTransaction =>
              View'[c] = [p \in Pages |-> IF cache'[c][p] = NotCached THEN DB'[p]
                                          ELSE cache'[c][p]]
BY DEF View, DB

\* A step of c leaves what the others see.
LEMMA OthersSee ==
  ASSUME NEW c \in Conns, Only(c), DB' = DB
  PROVE  View' = [View EXCEPT ![c] = View'[c]]
<1>1. View = [d \in Conns |-> View[d]] /\ View' = [d \in Conns |-> View'[d]]  BY DEF View
<1>2. ASSUME NEW d \in Conns \ {c} PROVE View'[d] = View[d]
  <2>1. state'[d] = state[d] /\ cache'[d] = cache[d]  BY DEF Only
  <2>2. Committed(file, journal)' = Committed(file, journal)  BY DEF DB
  <2> QED  BY <2>1, <2>2 DEF View
<1> QED  BY <1>1, <1>2

\* A step that changes nothing of what c sees.
LEMMA SameView ==
  ASSUME NEW c \in Conns, Only(c), DB' = DB,
         \/ state[c] \notin InTransaction /\ state'[c] \notin InTransaction
         \/ /\ state[c] \in InTransaction /\ state'[c] \in InTransaction
            /\ cache'[c] = cache[c]
  PROVE  View' = View
<1>1. View'[c] = View[c]
  <2>1. Committed(file, journal)' = Committed(file, journal)  BY DEF DB
  <2> QED  BY <2>1 DEF View
<1>2. View' = [View EXCEPT ![c] = View'[c]]  BY OthersSee
<1>3. View = [d \in Conns |-> View[d]]  BY DEF View
<1> QED  BY <1>1, <1>2, <1>3

-----------------------------------------------------------------------------
(* The steps of Database.                                                   *)

\* A step of Database or one that changes nothing of it.
DatabaseStep == [Abstract!Next]_(Abstract!vars)

\* The exceptions of Database stay as they are.
SameExceptions == UNCHANGED <<misled, spoiled>>

\* A connection stays among the writers, or away from them ...
LEMMA SameWriters ==
  ASSUME NEW c \in Conns, Only(c), c \in Writers' <=> c \in Writers
  PROVE  Writers' = Writers
BY DEF Writers, Only

\* ... or leaves them.
LEMMA NotWriting ==
  ASSUME NEW c \in Conns, Only(c), c \notin Writers'
  PROVE  Writers' = Writers \ {c}
BY DEF Writers, Only

\* Who is in a transaction and no longer a reader is among the writers.
LEMMA WritersAre ==
  ASSUME NEW c \in Conns
  PROVE  /\ c \in Writers <=> state[c] \in InTransaction \ {"reader"}
         /\ c \in Writers' <=> state'[c] \in InTransaction \ {"reader"}
BY DEF Writers

\* A step of c outside of a transaction, or as a writer that changes no page.
LEMMA SameSight ==
  ASSUME NEW c \in Conns, Only(c), DB' = DB,
         \/ state[c] \notin InTransaction /\ state'[c] \notin InTransaction
         \/ /\ {state[c], state'[c]} \subseteq InTransaction \ {"reader"}
            /\ cache'[c] = cache[c]
  PROVE  View' = View /\ Writers' = Writers
<1>1. View' = View  BY SameView
<1>2. Writers' = Writers  BY WritersAre, SameWriters
<1> QED  BY <1>1, <1>2

\* The conditions under which a step is each of the steps of Database.
LEMMA Stutters ==
  ASSUME DB' = DB, Durable' = Durable, View' = View, Writers' = Writers, SameExceptions
  PROVE  DatabaseStep
BY DEF DatabaseStep, Abstract!vars, DB, SameExceptions

\* A transaction begins with the committed state.
LEMMA Begins ==
  ASSUME NEW c \in Conns, DB' = DB, Durable' = Durable, View[c] = Nothing,
         View' = [View EXCEPT ![c] = DB], Writers' = Writers, SameExceptions
  PROVE  DatabaseStep
<1>1. Abstract!Begin(c)  BY DEF Abstract!Begin, Abstract!exceptions, DB, SameExceptions
<1> QED  BY <1>1 DEF DatabaseStep, Abstract!Next

\* It goes on to write if nobody else does.
LEMMA BeginsWriting ==
  ASSUME NEW c \in Conns, DB' = DB, Durable' = Durable, View[c] = DB, View' = View,
         c \notin misled, Writers = {}, Writers' = {c}, SameExceptions
  PROVE  DatabaseStep
<1>1. Abstract!BeginWrite(c)
  BY DEF Abstract!BeginWrite, Abstract!exceptions, DB, SameExceptions
<1> QED  BY <1>1 DEF DatabaseStep, Abstract!Next

\* A writer changes a page for itself.
LEMMA Writes ==
  ASSUME NEW c \in Conns, DB' = DB, Durable' = Durable, c \in Writers,
         NEW p \in Pages, NEW v \in Values, View' = [View EXCEPT ![c][p] = v],
         Writers' = Writers, SameExceptions
  PROVE  DatabaseStep
<1>1. Abstract!Write(c)  BY DEF Abstract!Write, Abstract!exceptions, DB, SameExceptions
<1> QED  BY <1>1 DEF DatabaseStep, Abstract!Next

\* A transaction ends or starts over.
LEMMA Abandons ==
  ASSUME NEW c \in Conns, DB' = DB, Durable' = Durable, View[c] # Nothing,
         NEW v \in {Nothing, DB}, View' = [View EXCEPT ![c] = v],
         Writers' = Writers \ {c}, SameExceptions
  PROVE  DatabaseStep
<1>1. Abstract!Abandon(c)  BY DEF Abstract!Abandon, Abstract!exceptions, DB, SameExceptions
<1> QED  BY <1>1 DEF DatabaseStep, Abstract!Next

\* What one transaction sees becomes what is committed.
LEMMA Commits ==
  ASSUME NEW c \in Conns, c \in Writers, \A d \in Conns \ {c} : View[d] = Nothing,
         DB' = View[c], Durable' = {DB, DB'}, View' = View, Writers' = {}, SameExceptions
  PROVE  DatabaseStep
<1>1. Abstract!Commit(c)  BY DEF Abstract!Commit, Abstract!exceptions, DB, SameExceptions
<1> QED  BY <1>1 DEF DatabaseStep, Abstract!Next

\* A connection is misled outside of a transaction ...
LEMMA GoesAstray ==
  ASSUME NEW c \in Conns, DB' = DB, Durable' = Durable, View[c] = Nothing, View' = View,
         Writers' = Writers, misled' = misled \union {c}, UNCHANGED spoiled
  PROVE  DatabaseStep
<1>1. Abstract!GoAstray(c)  BY DEF Abstract!GoAstray, DB
<1> QED  BY <1>1 DEF DatabaseStep, Abstract!Next

\* ... and may see anything from then on.
LEMMA Strays ==
  ASSUME NEW c \in misled, c \in Conns, DB' = DB, Durable' = Durable,
         NEW v \in [Pages -> Values] \union {Nothing}, View' = [View EXCEPT ![c] = v],
         Writers' = Writers, SameExceptions
  PROVE  DatabaseStep
<1>1. Abstract!Stray(c)
  BY DEF Abstract!Stray, Abstract!States, Abstract!exceptions, DB, SameExceptions
<1> QED  BY <1>1 DEF DatabaseStep, Abstract!Next

\* The committed state is as it was and a power failure may leave it.
LEMMA Settles ==
  ASSUME RInv, RInv', DB' = DB, View' = View, Writers' = Writers, SameExceptions,
         \/ DB = NoDatabase
         \/ Durable' = {DB}
         \/ Durable' = Durable
         \/ journal'.valid
  PROVE  DatabaseStep
<1>1. DurableOK'  BY DurableNext
<1>2. CASE DB = NoDatabase
  <2>1. DB \in Durable'  BY <1>1 DEF DurableOK
  <2>2. Abstract!Remnant
    BY <1>2, <2>1 DEF Abstract!Remnant, Abstract!exceptions, DB, NoDatabase, SameExceptions
  <2> QED  BY <2>2 DEF DatabaseStep, Abstract!Next
<1>3. CASE Durable' = {DB}
  <2>1. Abstract!Settle
    BY <1>3 DEF Abstract!Settle, Abstract!exceptions, DB, SameExceptions
  <2> QED  BY <2>1 DEF DatabaseStep, Abstract!Next
<1>4. CASE Durable' = Durable  BY <1>4, Stutters
<1>5. CASE journal'.valid /\ DB # NoDatabase
  <2>1. Durable' = {DB}  BY <1>1, <1>5 DEF DurableOK
  <2> QED  BY <1>3, <2>1
<1> QED  BY <1>2, <1>3, <1>4, <1>5

\* What is left depends on the files alone.
LEMMA SameDurable ==
  ASSUME UNCHANGED <<disk, left>>
  PROVE  Durable' = Durable
BY DEF Durable, Surviving

\* A journal that does not count makes no difference where one is left already.
LEMMA OneMoreLeft ==
  ASSUME RInv, UNCHANGED disk, NEW k, ~k.valid, left' = left \union {k},
         (\E j \in left : ~j.valid) \/ (Synced /\ file = DB)
  PROVE  Durable' = Durable
<1>1. Surviving' = Surviving  BY DEF Surviving
<1>2. Durable' = Durable \union {Committed(f, k) : f \in Surviving}
  BY <1>1 DEF Durable
<1>3. \A f \in Surviving : Committed(f, k) = f  BY DEF Committed
<1>4. CASE \E j \in left : ~j.valid
  <2>1. PICK j \in left : ~j.valid  BY <1>4
  <2>2. \A f \in Surviving : Committed(f, j) = f  BY <2>1 DEF Committed
  <2>3. \A f \in Surviving : f \in Durable  BY <2>1, <2>2 DEF Durable
  <2> QED  BY <1>2, <1>3, <2>3
<1>5. CASE Synced /\ file = DB
  <2>1. DurableOK  BY DurableIs
  <2>2. ASSUME NEW f \in Surviving PROVE f = file
    <3>1. /\ \A p \in Pages : f[p] = file[p]
          /\ f = [p \in Pages |-> f[p]]
      BY <1>5 DEF Surviving, Synced
    <3>2. file = [p \in Pages |-> file[p]]  BY JournalIs DEF RInv
    <3> QED  BY <3>1, <3>2
  <2>3. \A f \in Surviving : f \in Durable  BY <1>5, <2>1, <2>2 DEF DurableOK
  <2> QED  BY <1>2, <1>3, <2>3
<1> QED  BY <1>4, <1>5

\* The deletion of a journal that does not count makes no difference.
LEMMA DeleteLeaves ==
  ASSUME RInv, UNCHANGED disk, Delete, (\E j \in left : ~j.valid) \/ (Synced /\ file = DB)
  PROVE  Durable' = Durable
BY OneMoreLeft, BlanksAre DEF Delete

\* Beside a writer that has not yet EXCLUSIVE the others hold no more than SHARED.
OthersModest ==
  \A c \in Conns : state[c] \in {"reserved", "cachemod"} =>
    \A d \in Conns \ {c} : state[d] \in Modest

LEMMA OthersAreModest == IInv => OthersModest
  BY OneWriter DEF OthersModest

\* The same of the next state.
LEMMA OneWriterNext == IInv' => OthersModest'
  BY OthersAreModest, PTL

\* Where a connection is after a step.
LEMMA Went ==
  ASSUME IInv, NEW c \in Conns, NEW t, Goto(c, t)
  PROVE  state'[c] = t
BY DEF IInv, PagerInv, StatesHaveLocks, Goto

\* A step that neither a transaction nor a power failure notices.
LEMMA QuietStep ==
  ASSUME NEW c \in Conns, Mine(c), UNCHANGED <<disk, left>>, SameExceptions,
         \/ state[c] \notin InTransaction /\ state'[c] \notin InTransaction
         \/ /\ {state[c], state'[c]} \subseteq InTransaction \ {"reader"}
            /\ cache'[c] = cache[c]
  PROVE  DatabaseStep
<1>1. Only(c) /\ DB' = DB  BY DEF Mine
<1>2. View' = View /\ Writers' = Writers  BY <1>1, SameSight
<1>3. Durable' = Durable  BY SameDurable
<1> QED  BY <1>1, <1>2, <1>3, Stutters

\* Who has compared its cache sees the committed state.
LEMMA NewMatches ==
  ASSUME IInv, NEW c \in Conns, DB' = DB, state'[c] \in InTransaction, Matches(c)'
  PROVE  View'[c] = DB
<1>1. View'[c] = [p \in Pages |-> IF cache'[c][p] = NotCached THEN DB'[p] ELSE cache'[c][p]]
  BY NewView
<1>2. DB \in [Pages -> Written]  BY DBType
<1> QED  BY <1>1, <1>2 DEF Matches

\* Whatever a connection in a transaction sees, its pages hold values.
LEMMA SeesPages ==
  ASSUME IInv, NEW c \in Conns, Only(c), DB' = DB, state'[c] \in InTransaction
  PROVE  View'[c] \in [Pages -> Values]
<1>1. View'[c] = [p \in Pages |-> IF cache'[c][p] = NotCached THEN DB'[p] ELSE cache'[c][p]]
  BY NewView
<1>2. DB' \in [Pages -> Values]  BY DBType, Numeric
<1>3. cache'[c] \in [Pages -> Values]
  <2>1. tx' \in 0..MaxTx /\ cache'[c] \in [Pages -> Written' \union {NotCached}]
    BY DEF Only, CacheTypes
  <2>2. Written' \union {NotCached} \subseteq Values
    BY <2>1, PagerAssumption DEF Written, Values, NotCached, Garbage
  <2> QED  BY <2>1, <2>2
<1> QED  BY <1>1, <1>2, <1>3

\* Who leaves a transaction leaves no trace of it.
LEMMA Ends ==
  ASSUME IInv, NEW c \in Conns, Mine(c), UNCHANGED <<disk, left>>, SameExceptions,
         state'[c] \notin InTransaction
  PROVE  DatabaseStep
<1>1. Only(c) /\ DB' = DB  BY DEF Mine
<1>2. CASE state[c] \notin InTransaction  BY <1>2, QuietStep
<1>3. CASE state[c] \in InTransaction
  <2>1. View'[c] = Nothing  BY NewView
  <2>2. View' = [View EXCEPT ![c] = View'[c]]  BY <1>1, OthersSee
  <2>3. Durable' = Durable  BY SameDurable
  <2>4. View[c] # Nothing  BY <1>3, ViewNotIdle
  <2>5. Writers' = Writers \ {c}  BY <1>1, WritersAre, NotWriting
  <2> QED  BY <1>1, <2>1, <2>2, <2>3, <2>4, <2>5, Abandons
<1> QED  BY <1>2, <1>3

\* Every step of a reader is one of Database.
LEMMA ReadImplements ==
  ASSUME RInv, RInv', NEW c \in Conns, Read(c)
  PROVE  DatabaseStep
<1>0. IInv /\ IInv' /\ ConnOK(c) /\ ConnOK(c)'  BY DEF RInv, IInv
<1>1. CASE TakeShared(c)
  <2>1. Mine(c)  BY <1>0, <1>1, TakeSharedKeeps
  <2>2. state[c] = "open" /\ state'[c] = "locked" /\ UNCHANGED <<disk, left>> /\ SameExceptions
    BY <1>0, <1>1, Went DEF TakeShared, files, journals, history, SameExceptions
  <2> QED  BY <2>1, <2>2, QuietStep DEF InTransaction, CacheModified
<1>2. CASE LookForJournal(c)
  <2>1. Mine(c)  BY <1>0, <1>2, LookForJournalKeeps
  <2>2. state[c] = "locked" /\ UNCHANGED <<disk, left>> /\ SameExceptions
    BY <1>2 DEF LookForJournal, files, journals, history, SameExceptions
  <2>3. PICK t \in {"found", "clean"} : Goto(c, t)  BY <1>2 DEF LookForJournal
  <2>4. state'[c] = t  BY <1>0, <2>3, Went
  <2> QED  BY <2>1, <2>2, <2>4, QuietStep DEF InTransaction, CacheModified
<1>3. CASE LookForWriter(c)
  <2>1. Mine(c)  BY <1>0, <1>3, LookForWriterKeeps
  <2>2. /\ state[c] = "found" /\ UNCHANGED <<disk, left>>
        /\ UNCHANGED spoiled /\ misled' \in {misled, misled \union {c}}
    BY <1>3 DEF LookForWriter, files, journals
  <2>3. PICK t \in {"orphan", "clean"} : Goto(c, t)  BY <1>3 DEF LookForWriter
  <2>4. state'[c] = t  BY <1>0, <2>3, Went
  <2>5. Only(c) /\ DB' = DB  BY <2>1 DEF Mine
  <2>6. View' = View /\ Writers' = Writers
    BY <2>2, <2>4, <2>5, SameSight DEF InTransaction, CacheModified
  <2>7. View[c] = Nothing  BY <2>2, ViewIs DEF InTransaction, CacheModified
  <2>8. Durable' = Durable  BY <2>2, SameDurable
  <2> QED  BY <2>2, <2>5, <2>6, <2>7, <2>8, Stutters, GoesAstray DEF SameExceptions
<1>4. CASE DropRemnant(c)
  <2>1. Mine(c)  BY <1>0, <1>4, DropRemnantKeeps
  <2>2. state[c] = "orphan" /\ state'[c] = "clean" /\ FileSize = 0 /\ SameExceptions
    BY <1>0, <1>4, Went DEF DropRemnant, history, SameExceptions
  <2>3. DB = NoDatabase  BY <1>0, <2>2, EmptyFile
  <2>4. Only(c) /\ DB' = DB  BY <2>1 DEF Mine
  <2>5. View' = View /\ Writers' = Writers  BY <2>2, <2>4, SameSight DEF InTransaction, CacheModified
  <2> QED  BY <2>2, <2>3, <2>4, <2>5, Settles
<1>5. CASE LookIntoJournal(c)
  <2>1. Mine(c)  BY <1>0, <1>5, LookIntoJournalKeeps
  <2>2. state[c] = "orphan" /\ UNCHANGED <<disk, left>> /\ SameExceptions
    BY <1>5 DEF LookIntoJournal, files, journals, history, SameExceptions
  <2>3. PICK t \in {"hot", "clean"} : Goto(c, t)  BY <1>5 DEF LookIntoJournal
  <2>4. state'[c] = t  BY <1>0, <2>3, Went
  <2> QED  BY <2>1, <2>2, <2>4, QuietStep DEF InTransaction, CacheModified
<1>6. CASE LockForRecovery(c)
  <2>1. Mine(c)  BY <1>0, <1>6, LockForRecoveryKeeps
  <2>2. state[c] = "hot" /\ UNCHANGED <<disk, left>> /\ SameExceptions
    BY <1>6 DEF LockForRecovery, files, journals, history, SameExceptions
  <2>3. PICK t \in {"alone", "failed"} : Goto(c, t)  BY <1>6 DEF LockForRecovery
  <2>4. state'[c] = t  BY <1>0, <2>3, Went
  <2> QED  BY <2>1, <2>2, <2>4, QuietStep DEF InTransaction, CacheModified
<1>7. CASE NothingToRecover(c)
  <2>1. Mine(c)  BY <1>0, <1>7, NothingToRecoverKeeps
  <2>2. state[c] = "alone" /\ state'[c] = "clean" /\ UNCHANGED <<disk, left>> /\ SameExceptions
    BY <1>0, <1>7, Went DEF NothingToRecover, files, journals, history, SameExceptions
  <2> QED  BY <2>1, <2>2, QuietStep DEF InTransaction, CacheModified
<1>8. CASE SyncHotJournal(c)
  <2>1. Mine(c)  BY <1>0, <1>8, SyncHotJournalKeeps
  <2>2. /\ state[c] = "alone" /\ state'[c] = "replay" /\ left' = {journal}
        /\ UNCHANGED <<file, disk, journal>> /\ SameExceptions
    BY <1>0, <1>8, Went DEF SyncHotJournal, files, history, SameExceptions
  <2>3. Only(c) /\ DB' = DB  BY <2>1 DEF Mine
  <2>4. View' = View /\ Writers' = Writers  BY <2>2, <2>3, SameSight DEF InTransaction, CacheModified
  <2>5. CASE journal.valid  BY <2>2, <2>3, <2>4, <2>5, Settles
  <2>6. CASE ~journal.valid
    <3>1. file = DB /\ (file = NoDatabase \/ Synced)
      BY <1>0, <2>6, JournalIs DEF IInv, MediaOK
    <3>2. CASE DB = NoDatabase  BY <2>2, <2>3, <2>4, <3>2, Settles
    <3>3. CASE Synced
      <4>1. Synced'  BY <2>2, <3>3 DEF Synced
      <4>2. Durable' = {Committed(file', j) : j \in left'}  BY <4>1, DurableNext DEF DurableOK
      <4>3. Durable' = {DB}  BY <2>2, <4>2 DEF DB
      <4> QED  BY <2>2, <2>3, <2>4, <4>3, Settles
    <3> QED  BY <3>1, <3>2, <3>3
  <2> QED  BY <2>5, <2>6
<1>9. CASE ReadHeader(c)
  <2>1. Mine(c)  BY <1>0, <1>9, ReadHeaderKeeps
  <2>2. state[c] = "clean" /\ UNCHANGED <<disk, left>> /\ SameExceptions
    BY <1>9 DEF ReadHeader, files, journals, history, SameExceptions
  <2>3. PICK t \in {"reader", "failed"} : Goto(c, t)  BY <1>9 DEF ReadHeader
  <2>4. state'[c] = t  BY <1>0, <2>3, Went
  <2>5. CASE t = "failed"
    BY <2>1, <2>2, <2>4, <2>5, QuietStep DEF InTransaction, CacheModified
  <2>6. CASE t = "reader"
    <3>1. Only(c) /\ DB' = DB  BY <2>1 DEF Mine
    <3>2. View' = [View EXCEPT ![c] = View'[c]]  BY <3>1, OthersSee
    <3>3. View[c] = Nothing  BY <2>2, ViewIs DEF InTransaction, CacheModified
    <3>4. Durable' = Durable  BY <2>2, SameDurable
    <3>5. Writers' = Writers
      BY <2>2, <2>4, <2>6, <3>1, WritersAre, SameWriters DEF InTransaction, CacheModified
    <3>6. CASE c \in misled
      <4>1. View'[c] \in [Pages -> Values]
        BY <1>0, <2>4, <2>6, <3>1, SeesPages DEF InTransaction
      <4> QED  BY <2>2, <3>1, <3>2, <3>4, <3>5, <3>6, <4>1, Strays
    <3>7. CASE c \notin misled
      <4>1. c \notin misled'  BY <2>2, <3>7 DEF SameExceptions
      <4>2. Matches(c)'  BY <1>0, <2>4, <2>6, <4>1 DEF ConnOK, ConnIn, Knows
      <4>3. View'[c] = DB  BY <1>0, <2>4, <2>6, <3>1, <4>2, NewMatches DEF InTransaction
      <4> QED  BY <2>2, <3>1, <3>2, <3>3, <3>4, <3>5, <4>3, Begins
    <3> QED  BY <3>6, <3>7
  <2> QED  BY <2>5, <2>6
<1>10. CASE EndRead(c)
  <2>1. Mine(c)  BY <1>0, <1>10, EndReadKeeps
  <2>2. /\ state[c] \in {"reader", "failed"} /\ state'[c] = "open"
        /\ UNCHANGED <<disk, left>> /\ SameExceptions
    BY <1>0, <1>10, Went DEF EndRead, files, journals, history, SameExceptions
  <2> QED  BY <1>0, <2>1, <2>2, Ends DEF InTransaction, CacheModified
<1>11. ASSUME NEW p \in Pages, ReadPage(c, p) PROVE DatabaseStep
  <2>1. Mine(c)  BY <1>0, <1>11, ReadPageKeeps
  <2>2. /\ state[c] \in {"reader", "reserved", "cachemod"} /\ state'[c] = state[c]
        /\ cache[c][p] = NotCached /\ cache'[c] = [cache[c] EXCEPT ![p] = file[p]]
        /\ UNCHANGED <<disk, left>> /\ SameExceptions
    BY <1>0, <1>11
    DEF ReadPage, files, journals, history, SameExceptions, IInv, CacheTypes
  <2>3. Only(c) /\ DB' = DB  BY <2>1 DEF Mine
  <2>4. Durable' = Durable  BY <2>2, SameDurable
  <2>5. Writers' = Writers  BY <2>2, <2>3, WritersAre, SameWriters
  <2>6. View' = [View EXCEPT ![c] = View'[c]]  BY <2>3, OthersSee
  <2>7. CASE c \in misled
    <3>1. View'[c] \in [Pages -> Values]
      BY <1>0, <2>2, <2>3, SeesPages DEF InTransaction, CacheModified
    <3> QED  BY <2>2, <2>3, <2>4, <2>5, <2>6, <2>7, <3>1, Strays
  <2>8. CASE c \notin misled
    <3>1. file = DB /\ cache[c] \in [Pages -> Written \union {NotCached}]
      BY <1>0, <2>2, <2>8
      DEF ConnOK, ConnIn, CacheModified, Knows, Recovered, IInv, CacheTypes
    <3>2. state[c] \in InTransaction /\ state'[c] \in InTransaction
      BY <2>2 DEF InTransaction, CacheModified
    <3>3. View[c] = [q \in Pages |-> IF cache[c][q] = NotCached THEN DB[q] ELSE cache[c][q]]
      BY <3>2, ViewIs
    <3>4. View'[c] = [q \in Pages |-> IF cache'[c][q] = NotCached THEN DB'[q] ELSE cache'[c][q]]
      BY <3>2, NewView
    <3>5. cache'[c][p] = DB[p] /\ \A q \in Pages \ {p} : cache'[c][q] = cache[c][q]
      BY <2>2, <3>1
    <3>6. \A q \in Pages : (IF cache'[c][q] = NotCached THEN DB'[q] ELSE cache'[c][q])
                         = (IF cache[c][q] = NotCached THEN DB[q] ELSE cache[c][q])
      BY <2>2, <2>3, <3>5
    <3>7. View'[c] = View[c]  BY <3>3, <3>4, <3>6
    <3>8. View' = View  BY <2>6, <3>7 DEF View
    <3> QED  BY <2>2, <2>3, <2>4, <2>5, <3>8, Stutters
  <2> QED  BY <2>7, <2>8
<1> QED
  BY <1>1, <1>2, <1>3, <1>4, <1>5, <1>6, <1>7, <1>8, <1>9, <1>10, <1>11 DEF Read

\* A page of its own is what a writer sees from now on.
LEMMA ChangeImplements ==
  ASSUME RInv, NEW c \in Conns, Mine(c), NEW p \in Pages, NEW v \in 1..tx, Change(c, p, v),
         UNCHANGED <<disk, left>>, SameExceptions,
         {state[c], state'[c]} \subseteq InTransaction \ {"reader"}
  PROVE  DatabaseStep
<1>0. IInv  BY DEF RInv
<1>1. Only(c) /\ DB' = DB  BY DEF Mine
<1>2. /\ cache'[c] = [cache[c] EXCEPT ![p] = v]
      /\ cache[c] \in [Pages -> Written \union {NotCached}]
  BY <1>0 DEF Change, IInv, CacheTypes
<1>3. v \in Values /\ v # NotCached  BY <1>0, Numeric DEF Values
<1>4. View[c] = [q \in Pages |-> IF cache[c][q] = NotCached THEN DB[q] ELSE cache[c][q]]
  BY ViewIs
<1>5. View'[c] = [q \in Pages |-> IF cache'[c][q] = NotCached THEN DB'[q] ELSE cache'[c][q]]
  BY NewView
<1>6. View'[c] = [View[c] EXCEPT ![p] = v]
  <2>1. cache'[c][p] = v /\ \A q \in Pages \ {p} : cache'[c][q] = cache[c][q]  BY <1>2
  <2>2. \A q \in Pages : View'[c][q] = IF q = p THEN v ELSE View[c][q]
    BY <1>1, <1>3, <1>4, <1>5, <2>1
  <2> QED  BY <1>4, <1>5, <2>2
<1>7. View' = [View EXCEPT ![c] = View'[c]]  BY <1>1, OthersSee
<1>8. View' = [View EXCEPT ![c][p] = v]  BY <1>6, <1>7
<1>9. c \in Writers /\ Writers' = Writers  BY <1>1, WritersAre, SameWriters
<1>10. Durable' = Durable  BY SameDurable
<1> QED  BY <1>1, <1>3, <1>8, <1>9, <1>10, Writes

\* A step of a writer that changes nothing it sees while its journal is valid.
LEMMA ValidStep ==
  ASSUME RInv, RInv', NEW c \in Conns, Mine(c), journal'.valid, UNCHANGED cache,
         SameExceptions, {state[c], state'[c]} \subseteq InTransaction \ {"reader"}
  PROVE  DatabaseStep
<1>1. Only(c) /\ DB' = DB  BY DEF Mine
<1>2. View' = View /\ Writers' = Writers  BY <1>1, SameSight
<1> QED  BY <1>1, <1>2, Settles

\* The commit, the deletion of the journal, is that of Database.
LEMMA CommitImplements ==
  ASSUME RInv, RInv', NEW c \in Conns, Commit(c)
  PROVE  DatabaseStep
<1>0. IInv /\ IInv' /\ ConnOK(c)  BY DEF RInv, IInv
<1>1. Only(c) /\ DB' = file  BY <1>0, CommitKeeps
<1>2. /\ state[c] = "finished" /\ state'[c] = "reader" /\ Delete
      /\ UNCHANGED <<file, disk, cache>> /\ SameExceptions
  BY <1>0, Went DEF Commit, files, history, SameExceptions
<1>3. Changed(c) /\ Unread(c) /\ Synced /\ left = {journal} /\ todo[c] = {}
  BY <1>0, <1>2 DEF ConnOK, ConnIn, Busy, Writing, CacheModified
<1>4. file \in [Pages -> Written] /\ DB \in [Pages -> Written]
  BY <1>0, JournalIs, DBType
<1>5. View[c] = file
  <2>1. View[c] = [p \in Pages |-> IF cache[c][p] = NotCached THEN DB[p] ELSE cache[c][p]]
    BY <1>2, ViewIs DEF InTransaction
  <2>2. \A p \in Pages : cache[c][p] \in {NotCached, file[p]}  BY <1>3 DEF Changed
  <2>3. \A p \in Pages : cache[c][p] = NotCached => file[p] = DB[p]  BY <1>3 DEF Unread
  <2>4. \A p \in Pages : View[c][p] = file[p]  BY <2>1, <2>2, <2>3
  <2> QED  BY <1>4, <2>1, <2>4
<1>6. View'[c] = file
  <2>1. View'[c] = [p \in Pages |-> IF cache[c][p] = NotCached THEN file[p] ELSE cache[c][p]]
    BY <1>1, <1>2, NewView DEF InTransaction
  <2>2. \A p \in Pages : cache[c][p] \in {NotCached, file[p]}  BY <1>3 DEF Changed
  <2>3. \A p \in Pages : View'[c][p] = file[p]  BY <2>1, <2>2
  <2> QED  BY <1>4, <2>1, <2>3
<1>7. ASSUME NEW d \in Conns \ {c} PROVE View[d] = Nothing /\ View'[d] = Nothing
  <2>1. state[d] = "open"  BY <1>0, <1>2, AloneMeansAlone DEF Alone
  <2>2. state'[d] = "open"  BY <1>1, <2>1 DEF Only
  <2> QED  BY <2>1, <2>2, ViewIs, NewView DEF InTransaction, CacheModified
<1>8. View' = View
  <2>1. View = [d \in Conns |-> View[d]] /\ View' = [d \in Conns |-> View'[d]]  BY DEF View
  <2>2. \A d \in Conns : View'[d] = View[d]  BY <1>5, <1>6, <1>7
  <2> QED  BY <2>1, <2>2
<1>9. Durable' = {DB, DB'}
  <2>1. Synced' /\ file' = file  BY <1>2, <1>3 DEF Synced
  <2>2. Durable' = {Committed(file', j) : j \in left'}  BY <2>1, DurableNext DEF DurableOK
  <2>3. left' = {journal, NoJournal}  BY <1>2, <1>3 DEF Delete
  <2>4. Committed(file, journal) = DB /\ Committed(file, NoJournal) = file
    BY BlanksAre DEF DB, Committed
  <2> QED  BY <1>1, <2>1, <2>2, <2>3, <2>4
<1>10. c \in Writers /\ Writers' = {}
  <2>1. c \in Writers  BY <1>2, WritersAre DEF InTransaction
  <2>2. ASSUME NEW d \in Conns PROVE d \notin Writers'
    <3>1. state'[d] \in {"open", "reader"}
      BY <1>0, <1>1, <1>2, AloneMeansAlone DEF Alone, Only
    <3> QED  BY <3>1, WritersAre DEF InTransaction, CacheModified
  <2> QED  BY <2>1, <2>2 DEF Writers
<1>11. DB' = View[c]  BY <1>1, <1>5
<1> QED  BY <1>2, <1>7, <1>8, <1>9, <1>10, <1>11, Commits

\* Every step of a writer is one of Database.
LEMMA WriteImplements ==
  ASSUME RInv, RInv', Histories, ~spoiled', NEW c \in Conns, WriteTx(c)
  PROVE  DatabaseStep
<1>0. IInv /\ IInv' /\ ConnOK(c) /\ ConnOK(c)'  BY DEF RInv, IInv
<1>1. CASE BeginWrite(c)
  <2>1. Mine(c)  BY <1>0, <1>1, BeginWriteKeeps
  <2>2. /\ state[c] = "reader" /\ state'[c] = "reserved" /\ UNCHANGED <<disk, left>>
        /\ cache'[c] = cache[c] /\ c \notin misled /\ UNCHANGED misled
        /\ spoiled' = (spoiled \/ c \in misled)
    BY <1>0, <1>1, Went DEF BeginWrite, files, journals
  <2>3. Only(c) /\ DB' = DB  BY <2>1 DEF Mine
  <2>4. View' = View  BY <2>2, <2>3, SameView DEF InTransaction
  <2>5. View[c] = DB
    BY <1>0, <2>2, ViewMatches DEF InTransaction, ConnOK, ConnIn, Knows
  <2>6. ASSUME NEW d \in Conns \ {c} PROVE d \notin Writers /\ d \notin Writers'
    <3>1. state'[d] = state[d]  BY <2>3 DEF Only
    <3>2. state'[d] \in Modest  BY <1>0, <2>2, OneWriterNext DEF OthersModest
    <3> QED  BY <3>1, <3>2, WritersAre DEF Modest, InTransaction, CacheModified
  <2>7. c \notin Writers /\ c \in Writers'
    BY <2>2, WritersAre DEF InTransaction
  <2>8. Writers = {} /\ Writers' = {c}  BY <2>6, <2>7 DEF Writers
  <2>9. Durable' = Durable  BY <2>2, SameDurable
  <2>10. SameExceptions
    <3>1. spoiled \in BOOLEAN /\ spoiled' \in BOOLEAN  BY <2>2 DEF Histories
    <3>2. ~spoiled  BY <2>2, <3>1
    <3> QED  BY <2>2, <3>1, <3>2 DEF SameExceptions
  <2> QED  BY <2>2, <2>3, <2>4, <2>5, <2>8, <2>9, <2>10, BeginsWriting
<1>2. CASE OpenForWriting(c)
  <2>1. Mine(c)  BY <1>0, <1>2, OpenForWritingKeeps
  <2>2. /\ state[c] = "reserved" /\ state'[c] = "cachemod" /\ cache'[c] = cache[c]
        /\ UNCHANGED disk /\ left' = left \union {Blank} /\ SameExceptions
    BY <1>0, <1>2, Went DEF OpenForWriting, OpenJournal, files, history, SameExceptions
  <2>3. Only(c) /\ DB' = DB  BY <2>1 DEF Mine
  <2>4. View' = View /\ Writers' = Writers  BY <2>2, <2>3, SameSight DEF InTransaction, CacheModified
  <2>5. CASE journal.valid
    <3>1. DB = NoDatabase  BY <1>0, <2>2, <2>5 DEF ConnOK, ConnIn, Recovered
    <3> QED  BY <2>2, <2>3, <2>4, <3>1, Settles
  <2>6. CASE ~journal.valid
    <3>1. \E j \in left : ~j.valid  BY <2>6 DEF RInv, Represented
    <3>2. Durable' = Durable  BY <2>2, <3>1, BlanksAre, OneMoreLeft
    <3> QED  BY <2>2, <2>3, <2>4, <3>2, Stutters
  <2> QED  BY <2>5, <2>6
<1>3. CASE LockForCommit(c)
  <2>1. Mine(c)  BY <1>0, <1>3, LockForCommitKeeps
  <2>2. state[c] = "cachemod" /\ cache'[c] = cache[c] /\ UNCHANGED <<disk, left>> /\ SameExceptions
    BY <1>3 DEF LockForCommit, files, journals, history, SameExceptions
  <2>3. state'[c] \in {"cachemod", "exclusive"}
    BY <1>0, <1>3, <2>2, Went DEF LockForCommit
  <2> QED  BY <2>1, <2>2, <2>3, QuietStep DEF InTransaction, CacheModified
<1>4. CASE CountChange(c)
  <2> DEFINE v == cache[c][1] + 1
  <2>1. Mine(c)  BY <1>0, <1>4, CountChangeKeeps
  <2>2. /\ state[c] = "exclusive" /\ state'[c] = "counted" /\ UNCHANGED <<disk, left>>
        /\ Change(c, 1, v) /\ SameExceptions
    BY <1>0, <1>4, Went DEF CountChange, files, history, SameExceptions
  <2>3. v \in 1..tx /\ 1 \in Pages
    <3>1. cache[c][1] = DB[1] /\ DB[1] < tx  BY <1>0, <2>2 DEF ConnOK, ConnIn, Writing, CacheModified
    <3>2. DB[1] \in Nat /\ tx \in Nat /\ 1 \in Pages  BY <1>0, DBType, Numeric
    <3> QED  BY <3>1, <3>2
  <2> HIDE DEF v
  <2> QED  BY <2>1, <2>2, <2>3, ChangeImplements DEF InTransaction, CacheModified
<1>5. CASE SyncRecords(c)
  <2>1. Mine(c)  BY <1>0, <1>5, SyncRecordsKeeps
  <2>2. /\ state[c] = "counted" /\ state'[c] = "synced" /\ cache'[c] = cache[c]
        /\ UNCHANGED <<file, disk>> /\ left' = {Blank} /\ SameExceptions
    BY <1>0, <1>5, Went DEF SyncRecords, files, history, SameExceptions
  <2>3. Only(c) /\ DB' = DB  BY <2>1 DEF Mine
  <2>4. View' = View /\ Writers' = Writers  BY <2>2, <2>3, SameSight DEF InTransaction, CacheModified
  <2>5. file = DB /\ (file = NoDatabase \/ Synced)
    BY <1>0, <2>2 DEF ConnOK, ConnIn, Writing, CacheModified, IInv, MediaOK
  <2>6. CASE DB = NoDatabase  BY <2>2, <2>3, <2>4, <2>6, Settles
  <2>7. CASE Synced
    <3>1. Synced'  BY <2>2, <2>7 DEF Synced
    <3>2. Durable' = {Committed(file', j) : j \in left'}  BY <3>1, DurableNext DEF DurableOK
    <3>3. Committed(file', Blank) = file'  BY BlanksAre DEF Committed
    <3>4. Durable' = {DB}  BY <2>2, <2>5, <3>2, <3>3
    <3> QED  BY <2>2, <2>3, <2>4, <3>4, Settles
  <2> QED  BY <2>5, <2>6, <2>7
<1>6. CASE WriteHeader(c)
  <2>1. Mine(c)  BY <1>0, <1>6, WriteHeaderKeeps
  <2>2. state[c] = "synced" /\ state'[c] = "valid" /\ UNCHANGED cache /\ SameExceptions
    BY <1>0, <1>6, Went DEF WriteHeader, history, SameExceptions
  <2>3. journal'.valid  BY <1>0, <2>2 DEF ConnOK, ConnIn
  <2> QED  BY <2>1, <2>2, <2>3, ValidStep DEF InTransaction, CacheModified
<1>7. CASE SyncHeader(c)
  <2>1. Mine(c)  BY <1>0, <1>7, SyncHeaderKeeps
  <2>2. state[c] = "valid" /\ state'[c] = "dbmod" /\ UNCHANGED cache /\ SameExceptions
    BY <1>0, <1>7, Went DEF SyncHeader, history, SameExceptions
  <2>3. journal'.valid  BY <1>0, <2>2 DEF ConnOK, ConnIn
  <2> QED  BY <2>1, <2>2, <2>3, ValidStep DEF InTransaction, CacheModified
<1>8. CASE WriteBack(c)
  <2>1. Mine(c)  BY <1>0, <1>8, WriteBackKeeps
  <2>2. state[c] = "dbmod" /\ UNCHANGED state /\ UNCHANGED cache /\ SameExceptions
    BY <1>8 DEF WriteBack, history, SameExceptions
  <2>3. journal'.valid  BY <1>0, <2>2 DEF ConnOK, ConnIn
  <2> QED  BY <2>1, <2>2, <2>3, ValidStep DEF InTransaction, CacheModified
<1>9. CASE SyncPages(c)
  <2>1. Mine(c)  BY <1>0, <1>9, SyncPagesKeeps
  <2>2. state[c] = "dbmod" /\ state'[c] = "finished" /\ UNCHANGED cache /\ SameExceptions
    BY <1>0, <1>9, Went DEF SyncPages, history, SameExceptions
  <2>3. journal'.valid  BY <1>0, <2>2 DEF ConnOK, ConnIn
  <2> QED  BY <2>1, <2>2, <2>3, ValidStep DEF InTransaction, CacheModified
<1>10. CASE Commit(c)  BY <1>10, CommitImplements
<1>11. ASSUME NEW p \in Pages, WritePage(c, p) PROVE DatabaseStep
  <2>1. Mine(c)  BY <1>0, <1>11, WritePageKeeps
  <2>2. /\ state[c] = "cachemod" /\ UNCHANGED state /\ UNCHANGED <<disk, left>>
        /\ Change(c, p, tx) /\ SameExceptions
    BY <1>11 DEF WritePage, files, history, SameExceptions
  <2>3. tx \in 1..tx
    <3>1. DB[1] < tx  BY <1>0, <2>2 DEF ConnOK, ConnIn, Writing, CacheModified
    <3>2. DB[1] \in Nat /\ tx \in Nat  BY <1>0, DBType, Numeric
    <3> QED  BY <3>1, <3>2
  <2> QED  BY <2>1, <2>2, <2>3, ChangeImplements DEF InTransaction, CacheModified
<1> QED
  BY <1>1, <1>2, <1>3, <1>4, <1>5, <1>6, <1>7, <1>8, <1>9, <1>10, <1>11 DEF WriteTx

\* Every step of a rollback is one of Database.
LEMMA UndoImplements ==
  ASSUME RInv, RInv', NEW c \in Conns, Undo(c)
  PROVE  DatabaseStep
<1>0. IInv /\ IInv' /\ ConnOK(c) /\ ConnOK(c)'  BY DEF RInv, IInv
<1>1. CASE Rollback(c)
  <2>1. Mine(c)  BY <1>0, <1>1, RollbackKeeps
  <2>2. /\ state[c] \in {"reserved"} \union CacheModified /\ state'[c] = "reader"
        /\ UNCHANGED <<file, disk>> /\ SameExceptions
        /\ state[c] = "reserved" => UNCHANGED <<journal, left, cache>>
        /\ state[c] # "reserved" => Delete
    BY <1>0, <1>1, Went DEF Rollback, files, journals, history, SameExceptions
  <2>3. Only(c) /\ DB' = DB  BY <2>1 DEF Mine
  <2>4. Durable' = Durable
    <3>1. CASE state[c] = "reserved"  BY <2>2, <3>1, SameDurable
    <3>2. CASE state[c] = "valid"
      <4>1. \E j \in left : ~j.valid  BY <1>0, <3>2 DEF ConnOK, ConnIn
      <4> QED  BY <2>2, <3>2, <4>1, DeleteLeaves
    <3>3. CASE state[c] \notin {"reserved", "valid"}
      <4>1. ~journal.valid  BY <1>0, <2>2, <3>3 DEF ConnOK, ConnIn, CacheModified
      <4>2. \E j \in left : ~j.valid  BY <4>1 DEF RInv, Represented
      <4> QED  BY <2>2, <3>3, <4>2, DeleteLeaves
    <3> QED  BY <3>1, <3>2, <3>3
  <2>5. Matches(c)'
    <3>1. c \notin misled'
      BY <1>0, <2>2 DEF ConnOK, ConnIn, Writing, CacheModified, SameExceptions
    <3> QED  BY <1>0, <2>2, <3>1 DEF ConnOK, ConnIn, Knows
  <2>6. View'[c] = DB  BY <1>0, <2>2, <2>3, <2>5, NewMatches DEF InTransaction
  <2>7. View' = [View EXCEPT ![c] = View'[c]]  BY <2>3, OthersSee
  <2>8. View[c] # Nothing  BY <1>0, <2>2, ViewNotIdle DEF InTransaction
  <2>9. Writers' = Writers \ {c}  BY <2>2, <2>3, WritersAre, NotWriting
  <2> QED  BY <2>2, <2>3, <2>4, <2>6, <2>7, <2>8, <2>9, Abandons
<1>2. CASE CommitFails(c)
  <2>1. Mine(c)  BY <1>0, <1>2, CommitFailsKeeps
  <2>2. state'[c] = "error" /\ UNCHANGED <<disk, left>> /\ SameExceptions
    BY <1>0, <1>2, Went DEF CommitFails, files, journals, history, SameExceptions
  <2> QED  BY <1>0, <2>1, <2>2, Ends DEF InTransaction, CacheModified
<1>3. CASE WriteFails(c)
  <2>1. Mine(c)  BY <1>0, <1>3, WriteFailsKeeps
  <2>2. state'[c] = "undo" /\ UNCHANGED <<disk, left>> /\ SameExceptions
    BY <1>0, <1>3, Went DEF WriteFails, files, journals, history, SameExceptions
  <2> QED  BY <1>0, <2>1, <2>2, Ends DEF InTransaction, CacheModified
<1>4. CASE CutBack(c)
  <2>1. Mine(c)  BY <1>0, <1>4, CutBackKeeps
  <2>2. /\ state[c] \in {"replay", "undo"} /\ UNCHANGED <<journal, left>>
        /\ ~journal.valid => UNCHANGED disk
        /\ SameExceptions
    BY <1>4 DEF CutBack, files, journals, history, SameExceptions
  <2>3. PICK t \in {"undoing", "replaying"} : Goto(c, t)  BY <1>4 DEF CutBack
  <2>4. state'[c] = t  BY <1>0, <2>3, Went
  <2>5. Only(c) /\ DB' = DB  BY <2>1 DEF Mine
  <2>6. View' = View /\ Writers' = Writers  BY <2>2, <2>4, <2>5, SameSight DEF InTransaction, CacheModified
  <2>7. CASE journal.valid
    <3>1. journal'.valid  BY <2>2, <2>7
    <3> QED  BY <2>2, <2>5, <2>6, <3>1, Settles
  <2>8. CASE ~journal.valid
    <3>1. Durable' = Durable  BY <2>2, <2>8, SameDurable
    <3> QED  BY <2>2, <2>5, <2>6, <3>1, Stutters
  <2> QED  BY <2>7, <2>8
<1>5. CASE Restore(c)
  <2>1. Mine(c)  BY <1>0, <1>5, RestoreKeeps
  <2>2. /\ state[c] \in {"replaying", "undoing"} /\ todo[c] # {} /\ UNCHANGED journal
        /\ UNCHANGED state /\ SameExceptions
    BY <1>5 DEF Restore, journals, history, SameExceptions
  <2>3. Only(c) /\ DB' = DB  BY <2>1 DEF Mine
  <2>4. View' = View /\ Writers' = Writers  BY <2>2, <2>3, SameSight DEF InTransaction, CacheModified
  <2>5. journal'.valid  BY <1>0, <2>2 DEF ConnOK, ConnIn, Restoring
  <2> QED  BY <2>2, <2>3, <2>4, <2>5, Settles
<1>6. CASE SyncRestored(c)
  <2>1. Mine(c)  BY <1>0, <1>6, SyncRestoredKeeps
  <2>2. state[c] \in {"replaying", "undoing"} /\ UNCHANGED <<journal, left>> /\ SameExceptions
    BY <1>6 DEF SyncRestored, journals, history, SameExceptions
  <2>3. PICK t \in {"undone", "replayed"} : Goto(c, t)  BY <1>6 DEF SyncRestored
  <2>4. state'[c] = t  BY <1>0, <2>3, Went
  <2>5. Only(c) /\ DB' = DB  BY <2>1 DEF Mine
  <2>6. View' = View /\ Writers' = Writers  BY <2>2, <2>4, <2>5, SameSight DEF InTransaction, CacheModified
  <2>7. Synced'  BY <1>0, <2>4 DEF ConnOK, ConnIn
  <2>8. left' = {journal'}  BY <1>0, <2>2 DEF ConnOK, ConnIn
  <2>9. Durable' = {Committed(file', j) : j \in left'}  BY <2>7, DurableNext DEF DurableOK
  <2>10. Durable' = {DB}  BY <2>5, <2>8, <2>9 DEF DB
  <2> QED  BY <2>2, <2>5, <2>6, <2>10, Settles
<1>7. CASE EndPlayback(c)
  <2>1. Mine(c)  BY <1>0, <1>7, EndPlaybackKeeps
  <2>2. /\ state[c] \in {"replayed", "undone"} /\ Delete /\ UNCHANGED disk
        /\ Goto(c, IF state[c] = "undone" THEN "reader" ELSE "clean") /\ SameExceptions
    BY <1>7 DEF EndPlayback, files, history, SameExceptions
  <2>3. Only(c) /\ DB' = DB  BY <2>1 DEF Mine
  <2>4. Synced /\ file = DB  BY <1>0, <2>2 DEF ConnOK, ConnIn
  <2>5. Durable' = Durable  BY <2>2, <2>4, DeleteLeaves
  <2>6. CASE state[c] = "undone"
    <3>1. state'[c] = "reader"  BY <1>0, <2>2, <2>6, Went
    <3>2. c \notin misled'
      BY <1>0, <2>2, <2>6 DEF ConnOK, ConnIn, Writing, SameExceptions
    <3>3. Matches(c)'  BY <1>0, <3>1, <3>2 DEF ConnOK, ConnIn, Knows
    <3>4. View'[c] = DB  BY <1>0, <2>3, <3>1, <3>3, NewMatches DEF InTransaction
    <3>5. View' = [View EXCEPT ![c] = View'[c]]  BY <2>3, OthersSee
    <3>6. View[c] = Nothing  BY <2>6, ViewIs DEF InTransaction, CacheModified
    <3>7. Writers' = Writers
      BY <2>3, <2>6, <3>1, WritersAre, SameWriters DEF InTransaction, CacheModified
    <3> QED  BY <2>2, <2>3, <2>5, <3>4, <3>5, <3>6, <3>7, Begins
  <2>7. CASE state[c] = "replayed"
    <3>1. state'[c] = "clean"  BY <1>0, <2>2, <2>7, Went
    <3>2. View' = View /\ Writers' = Writers  BY <2>3, <2>7, <3>1, SameSight DEF InTransaction, CacheModified
    <3> QED  BY <2>2, <2>3, <2>5, <3>2, Stutters
  <2> QED  BY <2>2, <2>6, <2>7
<1>8. CASE PlaybackFails(c)
  <2>1. Mine(c)  BY <1>0, <1>8, PlaybackFailsKeeps
  <2>2. state'[c] = "error" /\ UNCHANGED <<disk, left>> /\ SameExceptions
    BY <1>0, <1>8, Went DEF PlaybackFails, files, journals, history, SameExceptions
  <2> QED  BY <1>0, <2>1, <2>2, Ends DEF InTransaction, CacheModified
<1>9. CASE ClearError(c)
  <2>1. Mine(c)  BY <1>0, <1>9, ClearErrorKeeps
  <2>2. state'[c] = "open" /\ UNCHANGED <<disk, left>> /\ SameExceptions
    BY <1>0, <1>9, Went DEF ClearError, files, journals, history, SameExceptions
  <2> QED  BY <1>0, <2>1, <2>2, Ends DEF InTransaction, CacheModified
<1>10. CASE RollbackFails(c)
  <2>1. Mine(c)  BY <1>0, <1>10, RollbackFailsKeeps
  <2>2. state'[c] = "error" /\ UNCHANGED <<disk, left>> /\ SameExceptions
    BY <1>0, <1>10, Went DEF RollbackFails, files, journals, history, SameExceptions
  <2> QED  BY <1>0, <2>1, <2>2, Ends DEF InTransaction, CacheModified
<1>11. CASE EndPlaybackFails(c)
  <2>1. Mine(c)  BY <1>0, <1>11, EndPlaybackFailsKeeps
  <2>2. state'[c] = "error" /\ UNCHANGED <<disk, left>> /\ SameExceptions
    BY <1>0, <1>11, Went DEF EndPlaybackFails, files, journals, history, SameExceptions
  <2> QED  BY <1>0, <2>1, <2>2, Ends DEF InTransaction, CacheModified
<1> QED
  BY <1>1, <1>2, <1>3, <1>4, <1>5, <1>6, <1>7, <1>8, <1>9, <1>10, <1>11 DEF Undo

\* After a crash there is no transaction.
LEMMA NobodySees ==
  ASSUME ProcessGone
  PROVE  View' = [c \in Conns |-> Nothing] /\ Writers' = {} /\ misled' = {} /\ UNCHANGED spoiled
<1>1. \A c \in Conns : state'[c] \notin InTransaction
  BY DEF ProcessGone, InTransaction, CacheModified
<1>2. \A c \in Conns : View'[c] = Nothing  BY <1>1, NewView
<1>3. Writers' = {}  BY <1>1 DEF Writers
<1> QED  BY <1>2, <1>3 DEF View, ProcessGone

\* A crash of the process or of the machine is one of Database.
LEMMA CrashImplements ==
  ASSUME RInv, RInv', Killed \/ PowerFails
  PROVE  DatabaseStep
<1>1. CASE Killed
  <2>1. DB' = DB /\ Durable' = Durable
    BY <1>1, SameDurable DEF Killed, files, journals, DB
  <2>2. Abstract!Crash  BY <1>1, <2>1, NobodySees DEF Killed, Abstract!Crash, DB
  <2> QED  BY <2>2 DEF DatabaseStep, Abstract!Next
<1>2. CASE PowerFails
  <2>1. DB' \in Durable  BY <1>2 DEF PowerFails, DB, Durable
  <2>2. Synced'
    <3>1. \A p \in Pages : disk'[p] = {file'[p]}  BY <1>2 DEF PowerFails
    <3> QED  BY <3>1 DEF Synced
  <2>3. Durable' = {Committed(file', j) : j \in left'}  BY <2>2, DurableNext DEF DurableOK
  <2>4. Durable' = {DB'}  BY <1>2, <2>3 DEF PowerFails, DB
  <2>5. Abstract!PowerFails
    BY <1>2, <2>1, <2>4, NobodySees DEF PowerFails, Abstract!PowerFails, DB
  <2> QED  BY <2>5 DEF DatabaseStep, Abstract!Next
<1> QED  BY <1>1, <1>2

\* A misled connection that writes ends the promise.
LEMMA VoidImplements ==
  ASSUME Histories, [Next]_vars, spoiled'
  PROVE  DatabaseStep
<1>1. spoiled \/ misled # {}  BY HistoriesKeep
<1>2. spoiled' = TRUE  BY HistoriesKeep DEF Histories
<1>3. Abstract!Void  BY <1>1, <1>2 DEF Abstract!Void
<1> QED  BY <1>3 DEF DatabaseStep, Abstract!Next

\* Transactions are atomic, isolated and durable: each step of the pager, of a
\* recovery, of a crash or of a power failure is a step of Database or changes
\* nothing of what a transaction sees and of what a power failure would leave. What
\* a connection reads that has taken a refused recovery for a writer
\* (sqlite3.c:25298) is not promised to it, and nothing is to anyone once it writes.
THEOREM ImplementsTheDatabase == Spec => ImplementsDatabase
<1>1. Init => Abstract!Init
  <2> SUFFICES ASSUME Init PROVE Abstract!Init  OBVIOUS
  <2>1. RInv  BY IInvInitially, RepresentedInitially DEF RInv
  <2>2. DB = NoDatabase  BY BlanksAre DEF Init, DB, Committed, NoDatabase
  <2>3. Synced  BY DEF Init, Synced
  <2>4. Durable = {DB}
    <3>1. Durable = {Committed(file, j) : j \in left}  BY <2>1, <2>3, DurableIs DEF DurableOK
    <3> QED  BY <3>1 DEF Init, DB
  <2>5. View = [c \in Conns |-> Nothing] /\ Writers = {}
    BY DEF Init, View, Writers, InTransaction, CacheModified
  <2>6. misled = {} /\ spoiled = FALSE  BY DEF Init
  <2> QED  BY <2>2, <2>4, <2>5, <2>6 DEF Abstract!Init, DB, NoDatabase
<1>2. RInv /\ RInv' /\ Histories /\ ~spoiled' /\ [Next]_vars => DatabaseStep
  <2> SUFFICES ASSUME RInv, RInv', Histories, ~spoiled', [Next]_vars PROVE DatabaseStep  OBVIOUS
  <2>1. CASE UNCHANGED vars
    <3>1. DB' = DB /\ Durable' = Durable  BY <2>1, SameDurable DEF vars, DB
    <3>2. View' = View /\ Writers' = Writers /\ SameExceptions
      BY <2>1 DEF vars, View, Writers, SameExceptions
    <3> QED  BY <3>1, <3>2, Stutters
  <2>2. CASE Next
    BY <2>2, ReadImplements, WriteImplements, UndoImplements, CrashImplements DEF Next
  <2> QED  BY <2>1, <2>2
<1>3. /\ Histories /\ (spoiled \/ RInv) /\ (spoiled \/ RInv)' /\ [Next]_vars
      => DatabaseStep
  BY <1>2, HistoriesKeep, VoidImplements
<1> QED
  BY <1>1, <1>3, RInvHolds, HistoriesHold, PTL
  DEF Spec, ImplementsDatabase, Abstract!Spec, DatabaseStep
=============================================================================
