------------------------------ MODULE SqlPool ------------------------------
(***************************************************************************)
(* The handlers' statements on database/sql's pool of go-sqlite3           *)
(* connections: which connection a request gets, how its statements take   *)
(* the locks of the database file, when they give up, and in what state    *)
(* the connection goes back to the pool.                                   *)
(*                                                                         *)
(* A change is a pair <<request, number of its statement>>.  What a commit *)
(* does to the file is the subject of Pager; here it succeeds or fails.    *)
(***************************************************************************)
EXTENDS FileLocks

CONSTANTS
  MaxRequests,  \* bound: requests that use the database, over the whole run
  NoConn,       \* no connection
  MaxIdle,      \* connections the pool keeps (2 in database/sql)
  MaxBusy       \* tries before the busy handler gives up (five, one per second)

\* A request has at most one connection, so Conns never runs out.
ASSUME PoolAssumption ==
  /\ MaxRequests \in Nat
  /\ MaxRequests <= Cardinality(Conns)
  /\ NoConn \notin Conns
  /\ MaxIdle \in Nat
  /\ MaxBusy \in Nat

Requests == 1..MaxRequests   \* numbered as they come

VARIABLES
  db,        \* the changes committed
  pending,   \* the changes in every connection's transaction
  explicit,  \* connections out of autocommit mode: BEGIN has been executed
  free,      \* the pool's idle connections
  req,       \* the handlers [kind, pc, conn, stmt, busy]
  joined,    \* history: changes made in a transaction somebody else began
  ignored    \* history: changes that failed and nobody has looked at the error

poolVars == <<lock, inode, db, pending, explicit, free, req, joined, ignored>>
data == <<db, pending, explicit, joined, ignored>>

Kinds == {"delete",  \* DeleteUser: two statements between BEGIN and COMMIT
          "write",   \* AddUser, Grant, Revoke, ...: one statement
          "forget",  \* DeleteContainer, the refresher: one, whose error is ignored
          "read"}    \* Users, authMidware, passwordCallback

Changes(r) == CASE req[r].kind = "delete" -> {<<r, 1>>, <<r, 2>>}
                [] req[r].kind \in {"write", "forget"} -> {<<r, 1>>}
                [] OTHER -> {}

PoolInit ==
  /\ LocksInit
  /\ db = {}
  /\ pending = [c \in Conns |-> {}]
  /\ explicit = {}
  /\ free = {}
  /\ req = [r \in Requests |-> [kind |-> "read", pc |-> "idle", conn |-> NoConn,
                                stmt |-> 1, busy |-> 0]]
  /\ joined = {}
  /\ ignored = {}

At(r, p) == req[r].pc = p
Goto(r, p) == req' = [req EXCEPT ![r].pc = p]

\* A statement has ended, but for its commit; the busy handler counts from 0 in
\* the next one.
Ended(r, p) ==
  req' = [req EXCEPT ![r].pc = p, ![r].stmt = 2,
                     ![r].busy = IF req[r].conn \in explicit THEN 0 ELSE @]

\* sqlite3RollbackAll with autocommit on again.
RollbackAll(c) ==
  /\ pending' = [pending EXCEPT ![c] = {}]
  /\ explicit' = explicit \ {c}
  /\ Unlock(c, NoLock)

-----------------------------------------------------------------------------
(* database/sql: an idle connection, a new one only if there is none.       *)

Fresh == CHOOSE c \in Conns : \A r \in Requests : req[r].conn # c

Acquire(r, k, c) ==
  /\ At(r, "idle")
  /\ \A q \in Requests : q < r => ~At(q, "idle")
  /\ c \in IF free = {} THEN {Fresh} ELSE free
  /\ free' = free \ {c}
  /\ req' = [req EXCEPT ![r].kind = k, ![r].conn = c,
                        ![r].pc = IF k = "delete" THEN "begin" ELSE "run"]
  /\ UNCHANGED <<lockVars, data>>

\* A request that is over has no use for the database any more.
Left(r, p) == [kind |-> req[r].kind, pc |-> p, conn |-> NoConn, stmt |-> 1, busy |-> 0]

\* The connection goes back whatever has happened, or is closed when the pool
\* has enough; the request is answered.
Release(r) ==
  LET c == req[r].conn
  IN /\ req[r].pc \in {"done", "failed"}
     /\ IF Cardinality(free) < MaxIdle
          THEN /\ free' = free \union {c}
               /\ UNCHANGED <<lockVars, pending, explicit>>
          ELSE /\ RollbackAll(c)
               /\ UNCHANGED free
     /\ req' = [req EXCEPT ![r] = Left(r, IF At(r, "done") THEN "ok" ELSE "error")]
     /\ UNCHANGED <<db, joined, ignored>>

-----------------------------------------------------------------------------
(* BEGIN takes no lock; it is an error inside a transaction.                *)

\* Mutant: a BEGIN inside a transaction is let pass.
Begin_nested(r) ==
  /\ At(r, "begin")
  /\ explicit' = explicit \union {req[r].conn}
  /\ Goto(r, "run")
  /\ UNCHANGED <<lockVars, db, pending, free, joined, ignored>>

\* Mutant: db.Exec where tx.Exec is meant, every statement commits for itself.
Begin_not(r) ==
  /\ At(r, "begin")
  /\ Goto(r, "run")
  /\ UNCHANGED <<lockVars, data, free>>

Begin(r) ==
  LET c == req[r].conn
  IN /\ At(r, "begin")
     /\ Goto(r, IF c \in explicit THEN "failed" ELSE "run")
     /\ explicit' = explicit \union {c}
     /\ UNCHANGED <<lockVars, db, pending, free, joined, ignored>>

(* A statement: SHARED, and RESERVED if it writes.                          *)

TakeShared(r) ==
  /\ At(r, "run")
  /\ Lock(req[r].conn, Shared)
  /\ Goto(r, IF req[r].kind = "read" THEN "reading" ELSE "reserve")
  /\ UNCHANGED <<data, free>>

\* Mutant: DeleteUser does not call tx.Commit.
AfterChange_noCommit(r) ==
  CASE req[r].conn \notin explicit -> "commit"
    [] req[r].kind = "delete" /\ req[r].stmt = 1 -> "run"
    [] OTHER -> "done"

\* After the statement: on to the next one, to the commit, or, in a transaction
\* that somebody else has begun, to the answer.
AfterChange(r) ==
  CASE req[r].conn \notin explicit -> "commit"
    [] req[r].kind = "delete" -> IF req[r].stmt = 1 THEN "run" ELSE "commit"
    [] OTHER -> "done"

Change(r) ==
  LET c == req[r].conn
  IN /\ At(r, "reserve")
     /\ Lock(c, Reserved)
     /\ pending' = [pending EXCEPT ![c] = @ \union {<<r, req[r].stmt>>}]
     /\ joined' = IF c \in explicit /\ req[r].kind # "delete" THEN joined \union {<<r, 1>>}
                  ELSE joined
     /\ Ended(r, AfterChange(r))
     /\ UNCHANGED <<db, explicit, free, ignored>>

\* A constraint fails: only the statement is undone.
Rejected(r) ==
  LET c == req[r].conn
  IN /\ At(r, "reserve")
     /\ req[r].kind = "write"
     /\ lock[c] >= Reserved \/ Granted(c, Reserved)
     /\ IF c \in explicit THEN UNCHANGED lockVars ELSE Unlock(c, NoLock)
     /\ Goto(r, "failed")
     /\ UNCHANGED <<data, free>>

EndRead(r) ==
  LET c == req[r].conn
  IN /\ At(r, "reading")
     /\ IF c \in explicit THEN UNCHANGED lockVars ELSE Unlock(c, NoLock)
     /\ Goto(r, "done")
     /\ UNCHANGED <<data, free>>

\* DeleteUser calls tx.Rollback after a statement that has failed.
AfterError(r) == IF req[r].kind = "delete" THEN "rollback" ELSE "failed"

\* An error on the way to p: DeleteContainer does not look at it and answers 204
\* (api.go:364-365).
Fails(r, p) ==
  IF req[r].kind = "forget"
  THEN Goto(r, "done") /\ ignored' = ignored \union {<<r, 1>>}
  ELSE Goto(r, p) /\ UNCHANGED ignored

\* The disk fails: whatever the transaction has done is undone.
StatementFails(r) ==
  /\ req[r].pc \in {"reserve", "reading"}
  /\ RollbackAll(req[r].conn)
  /\ Fails(r, AfterError(r))
  /\ UNCHANGED <<db, free, joined>>

-----------------------------------------------------------------------------
(* SQLITE_BUSY: the busy handler sleeps and lets the statement try again,   *)
(* up to the timeout.                                                       *)

\* Mutant: one try too many.
Again_oneMore(r) ==
  /\ req[r].busy <= MaxBusy
  /\ req' = [req EXCEPT ![r].busy = @ + 1,
                        ![r].pc = IF @ = "commit" THEN @ ELSE "run"]

Again(r) ==
  /\ req[r].busy < MaxBusy
  /\ req' = [req EXCEPT ![r].busy = @ + 1,
                        ![r].pc = IF @ = "commit" THEN @ ELSE "run"]

\* Mutant: a statement that cannot begin goes on trying.
Busy_forever(r) ==
  LET c == req[r].conn
      l == IF At(r, "run") THEN Shared ELSE Reserved
  IN /\ req[r].pc \in {"run", "reserve"}
     /\ lock[c] < l /\ ~Granted(c, l)
     /\ Unlock(c, NoLock)
     /\ Goto(r, "run")
     /\ UNCHANGED <<data, free>>

\* While it sleeps the statement holds no lock.
Busy(r) ==
  LET c == req[r].conn
      l == IF At(r, "run") THEN Shared ELSE Reserved
  IN /\ req[r].pc \in {"run", "reserve"}
     /\ lock[c] < l /\ ~Granted(c, l)
     /\ Unlock(c, NoLock)
     /\ \/ Again(r) /\ UNCHANGED ignored
        \/ req[r].busy = MaxBusy /\ Fails(r, AfterError(r))
     /\ UNCHANGED <<db, pending, explicit, joined, free>>

-----------------------------------------------------------------------------
(* The end of an autocommit statement, and COMMIT.                          *)

TakeExclusive(r) ==
  /\ At(r, "commit")
  /\ Lock(req[r].conn, Exclusive)
  /\ Goto(r, "write")
  /\ UNCHANGED <<data, free>>

EndCommit(r) ==
  LET c == req[r].conn
  IN /\ At(r, "write")
     /\ db' = db \union pending[c]
     /\ RollbackAll(c)    \* nothing is left to undo
     /\ Goto(r, "done")
     /\ UNCHANGED <<free, joined, ignored>>

CommitFails(r) ==
  /\ At(r, "write")
  /\ RollbackAll(req[r].conn)
  /\ Fails(r, "failed")
  /\ UNCHANGED <<db, free, joined>>

\* A reader is in the way: PENDING is kept, which lets no new reader in.
CommitBusy(r) ==
  /\ At(r, "commit")
  /\ Refused(req[r].conn, Exclusive)
  /\ Again(r)
  /\ UNCHANGED <<data, free>>

\* The reader has stayed too long. A single statement is rolled back; COMMIT
\* leaves the transaction open, its locks taken, and DeleteUser leaves it there.
CommitGivesUp(r) ==
  LET c == req[r].conn
  IN /\ At(r, "commit")
     /\ lock[c] < Exclusive /\ ~Granted(c, Exclusive)
     /\ req[r].busy = MaxBusy
     /\ IF c \in explicit
          THEN Refused(c, Exclusive) /\ UNCHANGED <<pending, explicit>>
          ELSE RollbackAll(c)
     /\ Fails(r, "failed")
     /\ UNCHANGED <<db, free, joined>>

Rollback(r) ==
  /\ At(r, "rollback")
  /\ RollbackAll(req[r].conn)
  /\ Goto(r, "failed")
  /\ UNCHANGED <<db, free, joined, ignored>>

-----------------------------------------------------------------------------
\* The process ends; the requests under way get no answer.
Killed ==
  /\ LocksGone
  /\ pending' = [c \in Conns |-> {}]
  /\ explicit' = {}
  /\ free' = {}
  /\ req' = [r \in Requests |->
               IF req[r].pc \in {"idle", "ok", "error", "gone"} THEN req[r]
               ELSE Left(r, "gone")]
  /\ UNCHANGED <<db, joined, ignored>>

Handler(r) ==
  \/ Release(r) \/ Begin(r) \/ TakeShared(r) \/ Change(r) \/ Rejected(r) \/ EndRead(r)
  \/ StatementFails(r) \/ Busy(r) \/ TakeExclusive(r) \/ EndCommit(r) \/ CommitFails(r)
  \/ CommitBusy(r) \/ CommitGivesUp(r) \/ Rollback(r)

PoolNext ==
  \/ \E r \in Requests : Handler(r) \/ \E k \in Kinds, c \in Conns : Acquire(r, k, c)
  \/ Killed

PoolSpec == PoolInit /\ [][PoolNext]_poolVars

\* Every handler is a goroutine the scheduler runs.
FairPoolSpec == PoolSpec /\ \A r \in Requests : WF_poolVars(Handler(r))

-----------------------------------------------------------------------------
Running == {"begin", "run", "reserve", "reading", "commit", "write", "rollback", "done", "failed"}

AllChanges == Requests \X {1, 2}

\* Types; a connection serves one request or none (sql.DB.conn).
TypeOK ==
  /\ LocksTypeOK
  /\ db \subseteq AllChanges
  /\ pending \in [Conns -> SUBSET AllChanges]
  /\ explicit \subseteq Conns
  /\ free \subseteq Conns
  /\ joined \subseteq AllChanges
  /\ ignored \subseteq AllChanges
  /\ req \in [Requests -> [kind : Kinds, pc : {"idle", "ok", "error", "gone"} \union Running,
                           conn : Conns \union {NoConn}, stmt : {1, 2}, busy : 0..MaxBusy]]

\* DeleteUser's two statements take effect together or not at all, whatever
\* connection it gets, whichever step fails or is busy, and wherever the process
\* is killed (api.go:261-275).
DeletedWhole ==
  \A r \in Requests :
    req[r].kind = "delete" => (<<r, 1>> \in db <=> <<r, 2>> \in db)

\* A request that is answered with an error has changed nothing, and nobody who
\* gets its connection later commits what it left there (api.go:273-277).
FailuresLeaveNothing ==
  \A r \in Requests : At(r, "error") => Changes(r) \cap db = {}

\* A change that is answered with success is in the database for good, with two
\* exceptions: it was made in a transaction that another request had left open on
\* the connection, or it is DeleteContainer's, which answers 204 whatever becomes
\* of its statement (api.go:364-365; the refresher makes up for that, see Fleet).
\* Then it is never committed, and no other request's change fails unheard.
LostOnlyInOpenTransaction ==
  /\ \A r \in Requests : At(r, "ok") => Changes(r) \subseteq db \union joined \union ignored
  /\ (joined \union ignored) \cap db = {}
  /\ \A r \in Requests : Changes(r) \cap ignored # {} => req[r].kind = "forget"

\* Every request is answered, though a transaction that was left open may keep its
\* locks for as long as the process lives; only the process' end prevents it.
RequestsEnd ==
  \A r \in Requests : req[r].pc \in Running ~> req[r].pc \in {"ok", "error", "gone"}
=============================================================================
