------------------------------- MODULE Pager -------------------------------
(***************************************************************************)
(* SQLite's pager with a rollback journal (journal_mode=DELETE,            *)
(* synchronous=FULL, one process, as go-sqlite3 builds and opens it): page *)
(* caches, locks, the journal, commits, rollbacks, recovery, and what a    *)
(* killed process and a power failure leave.                               *)
(*                                                                         *)
(* The file system keeps a written page from the moment it is synced. A    *)
(* page written since may be lost, survive, or be garbage after a power    *)
(* failure; so may a directory entry.                                      *)
(***************************************************************************)
EXTENDS FileLocks, Sequences

CONSTANTS
  Size,      \* pages of the largest database
  MaxTx      \* bound: write transactions

ASSUME PagerAssumption == Size \in Nat \ {0} /\ MaxTx \in Nat

Pages == 1..Size

Empty    == 0          \* a page beyond the end of the file; it reads as zeros
Garbage  == MaxTx + 1  \* half-written
NotCached == MaxTx + 2

VARIABLES
  file,      \* the database file as the processes see it; page 1 holds the change counter
  disk,      \* for every page, the contents a power failure may leave
  journal,   \* the rollback journal as the processes see it
  left,      \* the journals a power failure may leave
  state,     \* where every connection is
  cache,     \* its page cache
  todo,      \* pages it has still to write back
  tx,        \* write transactions so far; a transaction writes its number
  misled,    \* history: who in this process has taken a recovery for a writer
  spoiled    \* history: one of them has begun to write

vars == <<lock, inode, file, disk, journal, left, state, cache, todo, tx, misled, spoiled>>
files == <<file, disk>>
journals == <<journal, left>>
history == <<misled, spoiled>>

-----------------------------------------------------------------------------
(* The journal. Its header has neither magic number nor nRec until all of  *)
(* its records are on the disk: only then it is valid.                      *)

NoJournal == [exists |-> FALSE, valid |-> FALSE, synced |-> FALSE, orig |-> 0, recs |-> <<>>]
Blank == [NoJournal EXCEPT !.exists = TRUE]

\* What may be left of a journal that has just been declared valid.
Remains(j) == IF j.synced THEN {j}
              ELSE {[j EXCEPT !.recs = [i \in DOMAIN j.recs |-> [j.recs[i] EXCEPT !.val = Garbage]]],
                    [j EXCEPT !.recs = <<>>]}

Recorded(j) == {j.recs[i].page : i \in DOMAIN j.recs}
Original(j, p) == j.recs[CHOOSE i \in DOMAIN j.recs : j.recs[i].page = p].val

\* A page as the journal has it: cut off, recorded, or as it is.
Undone(j, p, now) == CASE p > j.orig -> Empty
                       [] p <= j.orig /\ p \in Recorded(j) -> Original(j, p)
                       [] OTHER -> now

FileSize == CHOOSE n \in 0..Size : /\ n # 0 => file[n] # Empty
                                   /\ \A p \in Pages : p > n => file[p] = Empty

First(S) == CHOOSE p \in S : \A q \in S : p <= q

-----------------------------------------------------------------------------
Nothing == [p \in Pages |-> NotCached]

Init ==
  /\ LocksInit
  /\ file = [p \in Pages |-> Empty]
  /\ disk = [p \in Pages |-> {Empty}]
  /\ journal = NoJournal
  /\ left = {NoJournal}
  /\ state = [c \in Conns |-> "open"]
  /\ cache = [c \in Conns |-> Nothing]
  /\ todo = [c \in Conns |-> {}]
  /\ tx = 0
  /\ misled = {}
  /\ spoiled = FALSE

Goto(c, s) == state' = [state EXCEPT ![c] = s]

Put(p, v) == /\ file' = [file EXCEPT ![p] = v]
             /\ disk' = [disk EXCEPT ![p] = @ \union {v, Garbage}]

SyncFile == /\ disk' = [p \in Pages |-> {file[p]}]
            /\ UNCHANGED file

Delete == /\ journal' = NoJournal
          /\ left' = left \union {NoJournal}

-----------------------------------------------------------------------------
(* sqlite3PagerSharedLock: a read transaction begins.                       *)

TakeShared(c) ==
  /\ state[c] = "open"
  /\ Lock(c, Shared)
  /\ Goto(c, "locked")
  /\ UNCHANGED <<files, journals, cache, todo, tx, history>>

\* hasHotJournal looks for the journal, then for a writer it may belong to,
\* then into it; another connection may act in between.
LookForJournal(c) ==
  /\ state[c] = "locked"
  /\ Goto(c, IF journal.exists THEN "found" ELSE "clean")
  /\ UNCHANGED <<lockVars, files, journals, cache, todo, tx, history>>

\* Who could not get EXCLUSIVE for a recovery holds PENDING until it has let go.
RecoveryRefused == \E d \in Conns : state[d] = "failed" /\ lock[d] = Pending

\* unixCheckReservedLock does not tell that PENDING from a writer's locks.
LookForWriter(c) ==
  /\ state[c] = "found"
  /\ Goto(c, IF ReservedHeld THEN "clean" ELSE "orphan")
  /\ misled' = IF RecoveryRefused /\ journal.valid THEN misled \union {c} ELSE misled
  /\ UNCHANGED <<lockVars, files, journals, cache, todo, tx, spoiled>>

\* A journal beside an empty database is of no use. The writes it was to undo are
\* not synced, though rule 5 wants that (sqlite3.c:39928).
DropRemnant(c) ==
  /\ state[c] = "orphan"
  /\ FileSize = 0
  /\ IF Granted(c, Reserved) THEN Delete ELSE UNCHANGED journals
  /\ Goto(c, "clean")
  /\ UNCHANGED <<lockVars, files, cache, todo, tx, history>>

\* A journal that has gone meanwhile counts as hot.
LookIntoJournal(c) ==
  /\ state[c] = "orphan"
  /\ FileSize # 0
  /\ Goto(c, IF journal.exists /\ ~journal.valid THEN "clean" ELSE "hot")
  /\ UNCHANGED <<lockVars, files, journals, cache, todo, tx, history>>

\* EXCLUSIVE at once, without RESERVED and without waiting.
LockForRecovery(c) ==
  /\ state[c] = "hot"
  /\ \/ Lock(c, Exclusive) /\ Goto(c, "alone")
     \/ Refused(c, Exclusive) /\ Goto(c, "failed")
  /\ UNCHANGED <<files, journals, cache, todo, tx, history>>

NothingToRecover(c) ==
  /\ state[c] = "alone"
  /\ ~journal.exists
  /\ Unlock(c, Shared)
  /\ Goto(c, "clean")
  /\ UNCHANGED <<files, journals, cache, todo, tx, history>>

SyncHotJournal(c) ==
  /\ state[c] = "alone"
  /\ journal.exists
  /\ left' = {journal}
  /\ Goto(c, "replay")
  /\ UNCHANGED <<lockVars, files, journal, cache, todo, tx, history>>

\* Mutant: the cache is always trusted.
Validated_never(c) == [cache[c] EXCEPT ![1] = IF @ = NotCached THEN file[1] ELSE @]

\* The change counter tells whether the pages in the cache are still good.
Validated(c) == IF cache[c][1] = file[1] THEN cache[c]
                ELSE [Nothing EXCEPT ![1] = file[1]]

\* A file that does not begin like a database is refused (lockBtree).
ReadHeader(c) ==
  /\ state[c] = "clean"
  /\ cache' = [cache EXCEPT ![c] = Validated(c)]
  /\ Goto(c, IF cache'[c][1] = Garbage THEN "failed" ELSE "reader")
  /\ UNCHANGED <<lockVars, files, journals, todo, tx, history>>

ReadPage(c, p) ==
  /\ state[c] \in {"reader", "reserved", "cachemod"}
  /\ cache[c][p] = NotCached
  /\ p <= FileSize
  /\ cache' = [cache EXCEPT ![c][p] = file[p]]
  /\ UNCHANGED <<lockVars, files, journals, state, todo, tx, history>>

\* pager_unlock: the end of a read transaction, or of an attempt at one.
EndRead(c) ==
  /\ state[c] \in {"reader", "failed"}
  /\ Unlock(c, NoLock)
  /\ Goto(c, "open")
  /\ UNCHANGED <<files, journals, cache, todo, tx, history>>

-----------------------------------------------------------------------------
(* sqlite3PagerBegin and pager_write: a write transaction in the cache.     *)

BeginWrite(c) ==
  /\ state[c] = "reader"
  /\ tx < MaxTx
  /\ Lock(c, Reserved)
  /\ tx' = tx + 1
  /\ Goto(c, "reserved")
  /\ spoiled' = (spoiled \/ c \in misled)
  /\ UNCHANGED <<files, journals, cache, todo, misled>>

OpenJournal == /\ journal' = [Blank EXCEPT !.orig = FileSize]
               /\ left' = left \union {Blank}

\* The journal with the original of page p, unless it is new or recorded.
Recording(j, c, p) ==
  IF p > j.orig \/ p \in Recorded(j) THEN j
  ELSE [j EXCEPT !.recs = Append(@, [page |-> p, val |-> cache[c][p]]), !.synced = FALSE]

\* The first change opens the journal.
OpenForWriting(c) ==
  /\ state[c] = "reserved"
  /\ OpenJournal
  /\ Goto(c, "cachemod")
  /\ UNCHANGED <<lockVars, files, cache, todo, tx, history>>

Change(c, p, v) ==
  /\ journal' = Recording(journal, c, p)
  /\ cache' = [cache EXCEPT ![c][p] = v]
  /\ todo' = [todo EXCEPT ![c] = @ \union {p}]

\* Page 1 is written by CountChange; a page is either known or the next new one.
WritePage(c, p) ==
  /\ state[c] = "cachemod"
  /\ p \notin todo[c] \union {1}
  /\ \/ cache[c][p] # NotCached
     \/ p > journal.orig /\ p - 1 \in todo[c] \union {1, journal.orig}
  /\ Change(c, p, tx)
  /\ UNCHANGED <<lockVars, files, left, state, tx, history>>

-----------------------------------------------------------------------------
(* vdbeCommit and sqlite3PagerCommitPhaseOne.                               *)

LockForCommit(c) ==
  /\ state[c] = "cachemod"
  /\ \/ Lock(c, Exclusive) /\ Goto(c, "exclusive")
     \/ Refused(c, Exclusive) /\ UNCHANGED state
  /\ UNCHANGED <<files, journals, cache, todo, tx, history>>

CountChange(c) ==
  /\ state[c] = "exclusive"
  /\ Change(c, 1, cache[c][1] + 1)
  /\ Goto(c, "counted")
  /\ UNCHANGED <<lockVars, files, left, tx, history>>

\* Mutant: the records are not synced before the header is.
SyncRecords_not(c) ==
  /\ state[c] = "counted"
  /\ Goto(c, "synced")
  /\ UNCHANGED <<lockVars, files, journals, cache, todo, tx, history>>

\* syncJournal: records and directory entry, the header, the journal again.
SyncRecords(c) ==
  /\ state[c] = "counted"
  /\ journal' = [journal EXCEPT !.synced = TRUE]
  /\ left' = {Blank}
  /\ Goto(c, "synced")
  /\ UNCHANGED <<lockVars, files, cache, todo, tx, history>>

WriteHeader(c) ==
  /\ state[c] = "synced"
  /\ journal' = [journal EXCEPT !.valid = TRUE]
  /\ left' = left \union Remains(journal')
  /\ Goto(c, "valid")
  /\ UNCHANGED <<lockVars, files, cache, todo, tx, history>>

\* Mutant: the header is not synced before the file is written.
SyncHeader_not(c) ==
  /\ state[c] = "valid"
  /\ Goto(c, "dbmod")
  /\ UNCHANGED <<lockVars, files, journals, cache, todo, tx, history>>

SyncHeader(c) ==
  /\ state[c] = "valid"
  /\ left' = {journal}
  /\ Goto(c, "dbmod")
  /\ UNCHANGED <<lockVars, files, journal, cache, todo, tx, history>>

WriteBack(c) ==
  /\ state[c] = "dbmod"
  /\ todo[c] # {}
  /\ LET p == First(todo[c])
     IN /\ Put(p, cache[c][p])
        /\ todo' = [todo EXCEPT ![c] = @ \ {p}]
  /\ UNCHANGED <<lockVars, journals, state, cache, tx, history>>

\* Mutant: the file is not synced before the journal is deleted.
SyncPages_not(c) ==
  /\ state[c] = "dbmod"
  /\ todo[c] = {}
  /\ Goto(c, "finished")
  /\ UNCHANGED <<lockVars, files, journals, cache, todo, tx, history>>

SyncPages(c) ==
  /\ state[c] = "dbmod"
  /\ todo[c] = {}
  /\ SyncFile
  /\ Goto(c, "finished")
  /\ UNCHANGED <<lockVars, journals, cache, todo, tx, history>>

\* sqlite3PagerCommitPhaseTwo: deleting the journal is the commit.
Commit(c) ==
  /\ state[c] = "finished"
  /\ Delete
  /\ Unlock(c, Shared)
  /\ Goto(c, "reader")
  /\ UNCHANGED <<files, cache, todo, tx, history>>

\* The journal cannot be deleted: the lock goes, the transaction with it.
CommitFails(c) ==
  /\ state[c] = "finished"
  /\ Unlock(c, Shared)
  /\ Goto(c, "error")
  /\ UNCHANGED <<files, journals, cache, todo, tx, history>>

-----------------------------------------------------------------------------
(* sqlite3PagerRollback and pager_playback.                                 *)

CacheModified == {"cachemod", "exclusive", "counted", "synced", "valid"}

\* The cache after a rollback: originals again, new pages dropped, page 1 blank
\* when it was new itself (sqlite3PcacheTruncate).
Reverted(c) == [p \in Pages |->
  CASE p > journal.orig -> IF p = 1 THEN Empty ELSE NotCached
    [] p <= journal.orig /\ cache[c][p] # NotCached -> Undone(journal, p, cache[c][p])
    [] OTHER -> NotCached]

\* Nothing has been written to the file: the program rolls back, or a write
\* to the journal has failed.
Rollback(c) ==
  /\ state[c] \in {"reserved"} \union CacheModified
  /\ IF state[c] = "reserved" THEN UNCHANGED <<journals, cache>>
     ELSE Delete /\ cache' = [cache EXCEPT ![c] = Reverted(c)]
  /\ todo' = [todo EXCEPT ![c] = {}]
  /\ Unlock(c, Shared)
  /\ Goto(c, "reader")
  /\ UNCHANGED <<files, tx, history>>

\* The rollback cannot delete the journal.
RollbackFails(c) ==
  /\ state[c] \in CacheModified
  /\ Unlock(c, Shared)
  /\ Goto(c, "error")
  /\ UNCHANGED <<files, journals, cache, todo, tx, history>>

\* Writing to the file, or syncing it, has failed.
WriteFails(c) ==
  /\ state[c] = "dbmod"
  /\ Goto(c, "undo")
  /\ UNCHANGED <<lockVars, files, journals, cache, todo, tx, history>>

\* pager_playback up to the first record: the file gets its old size back. A
\* hot journal's records make the cache worthless.
CutBack(c) ==
  /\ state[c] \in {"replay", "undo"}
  /\ IF journal.valid
       THEN /\ file' = [p \in Pages |-> IF p > journal.orig THEN Empty ELSE file[p]]
            /\ disk' = [p \in Pages |-> disk[p] \union {file'[p]}]
       ELSE UNCHANGED files
  /\ todo' = [todo EXCEPT ![c] = IF journal.valid THEN Recorded(journal) ELSE {}]
  /\ cache' = [cache EXCEPT ![c] =
                 IF state[c] = "undo" THEN Reverted(c)
                 ELSE IF journal.valid /\ journal.recs # <<>> THEN Nothing ELSE @]
  /\ Goto(c, IF state[c] = "undo" THEN "undoing" ELSE "replaying")
  /\ UNCHANGED <<lockVars, journals, tx, history>>

\* pager_playback_one_page.
Restore(c) ==
  /\ state[c] \in {"replaying", "undoing"}
  /\ todo[c] # {}
  /\ LET p == journal.recs[First({i \in DOMAIN journal.recs :
                                   journal.recs[i].page \in todo[c]})].page
     IN /\ Put(p, Original(journal, p))
        /\ todo' = [todo EXCEPT ![c] = @ \ {p}]
  /\ UNCHANGED <<lockVars, journals, state, cache, tx, history>>

\* Mutant: what has been restored is not synced.
SyncRestored_not(c) ==
  /\ state[c] \in {"replaying", "undoing"}
  /\ todo[c] = {}
  /\ Goto(c, IF state[c] = "undoing" THEN "undone" ELSE "replayed")
  /\ UNCHANGED <<lockVars, files, journals, cache, todo, tx, history>>

SyncRestored(c) ==
  /\ state[c] \in {"replaying", "undoing"}
  /\ todo[c] = {}
  /\ SyncFile
  /\ Goto(c, IF state[c] = "undoing" THEN "undone" ELSE "replayed")
  /\ UNCHANGED <<lockVars, journals, cache, todo, tx, history>>

EndPlayback(c) ==
  /\ state[c] \in {"replayed", "undone"}
  /\ Delete
  /\ Unlock(c, Shared)
  /\ Goto(c, IF state[c] = "undone" THEN "reader" ELSE "clean")
  /\ UNCHANGED <<files, cache, todo, tx, history>>

\* Once all is restored and synced, only the deletion of the journal can fail.
EndPlaybackFails(c) ==
  /\ state[c] \in {"replayed", "undone"}
  /\ Unlock(c, Shared)
  /\ Goto(c, "error")
  /\ UNCHANGED <<files, journals, cache, todo, tx, history>>

\* The playback fails as well.
PlaybackFails(c) ==
  /\ state[c] \in {"replay", "undo", "replaying", "undoing"}
  /\ Goto(c, "error")
  /\ UNCHANGED <<lockVars, files, journals, cache, todo, tx, history>>

\* pager_unlock in the error state: the journal stays, and is hot.
ClearError(c) ==
  /\ state[c] = "error"
  /\ Unlock(c, NoLock)
  /\ cache' = [cache EXCEPT ![c] = Nothing]
  /\ todo' = [todo EXCEPT ![c] = {}]
  /\ Goto(c, "open")
  /\ UNCHANGED <<files, journals, tx, history>>

-----------------------------------------------------------------------------
(* The process is killed, or the machine loses power.                       *)

ProcessGone ==
  /\ LocksGone
  /\ state' = [c \in Conns |-> "open"]
  /\ cache' = [c \in Conns |-> Nothing]
  /\ todo' = [c \in Conns |-> {}]
  /\ misled' = {}
  /\ UNCHANGED <<tx, spoiled>>

\* The files a power failure may leave.
Surviving == {f \in [Pages -> UNION {disk[p] : p \in Pages}] : \A p \in Pages : f[p] \in disk[p]}

Killed == ProcessGone /\ UNCHANGED <<files, journals>>

PowerFails ==
  /\ ProcessGone
  /\ file' \in Surviving
  /\ disk' = [p \in Pages |-> {file'[p]}]
  /\ journal' \in left
  /\ left' = {journal'}

Read(c) ==
  \/ TakeShared(c) \/ LookForJournal(c) \/ LookForWriter(c) \/ DropRemnant(c)
  \/ LookIntoJournal(c) \/ LockForRecovery(c) \/ NothingToRecover(c)
  \/ SyncHotJournal(c) \/ ReadHeader(c) \/ EndRead(c)
  \/ \E p \in Pages : ReadPage(c, p)

WriteTx(c) ==
  \/ BeginWrite(c) \/ OpenForWriting(c) \/ LockForCommit(c) \/ CountChange(c)
  \/ SyncRecords(c) \/ WriteHeader(c) \/ SyncHeader(c) \/ WriteBack(c)
  \/ SyncPages(c) \/ Commit(c)
  \/ \E p \in Pages : WritePage(c, p)

Undo(c) ==
  \/ Rollback(c) \/ RollbackFails(c) \/ CommitFails(c) \/ WriteFails(c) \/ CutBack(c)
  \/ Restore(c) \/ SyncRestored(c) \/ EndPlayback(c) \/ EndPlaybackFails(c)
  \/ PlaybackFails(c) \/ ClearError(c)

Next == \/ \E c \in Conns : Read(c) \/ WriteTx(c) \/ Undo(c)
        \/ Killed \/ PowerFails

Spec == Init /\ [][Next]_vars

-----------------------------------------------------------------------------
States == {"open", "locked", "found", "orphan", "hot", "alone", "clean", "failed", "reader",
           "reserved", "dbmod", "finished", "replay", "undo", "replaying", "undoing",
           "replayed", "undone", "error"} \union CacheModified

Values == 0..NotCached

Journals == [exists : BOOLEAN, valid : BOOLEAN, synced : BOOLEAN, orig : 0..Size,
             recs : Seq([page : Pages, val : Values])]

\* The types of the variables; a page counts the changes to the file, so the
\* bound on transactions is one on page 1 (struct Pager, sqlite3.c:40607).
TypeOK ==
  /\ LocksTypeOK
  /\ state \in [Conns -> States]
  /\ misled \subseteq Conns
  /\ spoiled \in BOOLEAN
  /\ spoiled \/ /\ file \in [Pages -> Values]
                /\ disk \in [Pages -> SUBSET Values]
                /\ journal \in Journals
                /\ left \subseteq Journals
                /\ cache \in [Conns -> [Pages -> Values]]
                /\ todo \in [Conns -> SUBSET Pages]
                /\ tx \in 0..MaxTx

\* The committed state: what the file is once a valid journal has been rolled back.
Committed(f, j) == IF j.valid THEN [p \in Pages |-> Undone(j, p, f[p])] ELSE f

NoDatabase == [p \in Pages |-> Empty]

\* Rules 1, 5 and 7 of the design (sqlite3.c:39909-39943), once there is a
\* database and until a connection that has been misled writes. Where a power
\* failure may leave no valid journal, the whole file is committed and synced;
\* where it may leave one, rolling that back gives one state whatever is lost of
\* the file, and during a transaction this is the committed state.
WriteAhead ==
  LET db == Committed(file, journal)
  IN ~spoiled /\ db # NoDatabase =>
       \A j \in left, p \in Pages : \A v \in disk[p] :
         /\ ~j.valid => v = db[p]
         /\ j.valid => Undone(j, p, v) = Undone(j, p, db[p])
         /\ j.valid /\ journal.valid => Undone(j, p, v) = db[p]

\* Who reads has either found nothing to recover or recovered it. The code says so
\* of everyone ("any other process attempting to access the database file will get
\* to this point in the code and fail to obtain its own EXCLUSIVE lock",
\* sqlite3.c:44894); it is not so of a connection that has looked for a writer
\* while another held the PENDING of a refused recovery (sqlite3.c:25298).
RecoveredBeforeRead ==
  \A c \in Conns \ misled :
    state[c] = "reader" /\ ~spoiled => file = Committed(file, journal)

InTransaction == {"reader", "reserved", "dbmod", "finished"} \union CacheModified

\* Pagers keep what Database promises: commits are atomic across crashes and
\* failing writes, and no transaction sees a part of another, or a stale page. The
\* promise leaves out what a misled connection reads, and ends when one writes.
Durable == {Committed(f, j) : f \in Surviving, j \in left}

View == [c \in Conns |->
  IF state[c] \in InTransaction
  THEN [p \in Pages |-> IF cache[c][p] = NotCached
                        THEN Committed(file, journal)[p] ELSE cache[c][p]]
  ELSE Nothing]

Writers == {c \in Conns : state[c] \in InTransaction \ {"reader"}}

Abstract == INSTANCE Database WITH
  Values <- Values,
  Idle <- Nothing,
  db <- Committed(file, journal),
  durable <- Durable,
  view <- View,
  writers <- Writers,
  astray <- misled,
  void <- spoiled

ImplementsDatabase == Abstract!Spec
=============================================================================
