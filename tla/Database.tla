------------------------------ MODULE Database ------------------------------
(***************************************************************************)
(* What SQLite promises the connections of one database file: every        *)
(* transaction reads one committed state and no writer but itself changes  *)
(* what it sees, one transaction writes at a time, a commit replaces the   *)
(* committed state at once and while nobody reads, and a crash loses       *)
(* nothing that had been committed. A power failure may undo the last      *)
(* commit, and no more, since the deletion of the rollback journal is not  *)
(* synced (sqlite3.c:41845).                                               *)
(*                                                                         *)
(* The promise has an exception: a connection that goes astray may read    *)
(* anything, to the end of its process, and once one that has gone astray  *)
(* writes, nothing is promised any more.                                   *)
(***************************************************************************)
EXTENDS Naturals

CONSTANTS
  Conns,     \* connections
  Pages,     \* pages of the file
  Values,    \* contents of a page
  Empty,     \* the contents of a page that is not there
  Idle       \* the view of a connection outside of a transaction

VARIABLES
  db,        \* the committed state
  durable,   \* the states a power failure may leave
  view,      \* what a connection in a transaction sees
  writers,   \* whose transaction writes: nobody's or one connection's
  astray,    \* connections that are promised nothing
  void       \* whether nobody is

vars == <<db, durable, view, writers, astray, void>>
exceptions == <<astray, void>>

States == [Pages -> Values]

Init == /\ db = [p \in Pages |-> Empty]
        /\ durable = {db}
        /\ view = [c \in Conns |-> Idle]
        /\ writers = {}
        /\ astray = {}
        /\ void = FALSE

Begin(c) == /\ view[c] = Idle
            /\ view' = [view EXCEPT ![c] = db]
            /\ UNCHANGED <<db, durable, writers, exceptions>>

\* Who begins to write has read what is committed, and nothing has come between.
BeginWrite(c) == /\ c \notin astray
                 /\ writers = {}
                 /\ view[c] = db
                 /\ writers' = {c}
                 /\ UNCHANGED <<db, durable, view, exceptions>>

\* A change is the connection's own until it commits.
Write(c) == /\ c \in writers
            /\ \E p \in Pages, v \in Values : view' = [view EXCEPT ![c][p] = v]
            /\ UNCHANGED <<db, durable, writers, exceptions>>

\* The transaction ends without a trace, or begins anew.
Abandon(c) == /\ view[c] # Idle
              /\ \E v \in {Idle, db} : view' = [view EXCEPT ![c] = v]
              /\ writers' = writers \ {c}
              /\ UNCHANGED <<db, durable, exceptions>>

Commit(c) == /\ c \in writers
             /\ \A d \in Conns \ {c} : view[d] = Idle
             /\ db' = view[c]
             /\ durable' = {db, db'}
             /\ writers' = {}
             /\ UNCHANGED <<view, exceptions>>

\* A process that was killed during the first transaction of all may have left
\* writes behind that nobody syncs (hasHotJournal, sqlite3.c:44772).
Remnant == /\ db = [p \in Pages |-> Empty]
           /\ db \in durable'
           /\ UNCHANGED <<db, view, writers, exceptions>>

\* The disk catches up with the committed state.
Settle == /\ durable' = {db}
          /\ UNCHANGED <<db, view, writers, exceptions>>

Crash == /\ view' = [c \in Conns |-> Idle]
         /\ writers' = {}
         /\ astray' = {}
         /\ UNCHANGED <<db, durable, void>>

PowerFails == /\ db' \in durable
              /\ durable' = {db'}
              /\ view' = [c \in Conns |-> Idle]
              /\ writers' = {}
              /\ astray' = {}
              /\ UNCHANGED void

GoAstray(c) == /\ view[c] = Idle
               /\ astray' = astray \union {c}
               /\ UNCHANGED <<db, durable, view, writers, void>>

\* It sees anything, and disturbs nobody, as long as it only reads.
Stray(c) == /\ c \in astray
            /\ \E v \in States \union {Idle} : view' = [view EXCEPT ![c] = v]
            /\ UNCHANGED <<db, durable, writers, exceptions>>

\* One of them writes. Nothing is said of what follows.
Void == /\ void \/ astray # {}
        /\ void' = TRUE

Next == \/ \E c \in Conns : \/ Begin(c) \/ BeginWrite(c) \/ Write(c) \/ Abandon(c) \/ Commit(c)
                            \/ GoAstray(c) \/ Stray(c)
        \/ Remnant \/ Settle \/ Crash \/ PowerFails \/ Void

Spec == Init /\ [][Next]_vars
=============================================================================
