---------------------------- MODULE MetaStore ----------------------------
(* The two tables of the metadata database (SQLite) that logins and the
   dashboard share, as sets of records, and what the statements of the Go
   code do to them.  A row of `users' has at least the fields id, name and
   password; a row of `containers' at least id, cid and user_id.  Statements
   are atomic: each is one SQLite transaction, and DeleteUser runs its two in
   an explicit one. *)
EXTENDS Naturals, FiniteSets

\* Mutant: the number of rows plus one
IsNextRowid_count(T, i) == i = Cardinality(T) + 1

\* OP_NewRowid for `id integer primary key' without AUTOINCREMENT: one more
\* than the largest id in the table, 1 in an empty table.  The id of a deleted
\* last row is therefore given out again.
IsNextRowid(T, i) == /\ \A r \in T : r.id < i
                     /\ i = 1 \/ \E r \in T : r.id = i - 1

\* users.name is unique
NameTaken(T, n) == \E u \in T : u.name = n

\* unique index on containers(cid, user_id)
PairTaken(T, c, i) == \E r \in T : r.cid = c /\ r.user_id = i

\* delete from users where id = i, and delete from containers where id = i
DeleteById(T, i) == {r \in T : r.id # i}

\* Mutant: delete from containers where id = i
DeleteGrantsOf_rowid(T, i) == {r \in T : r.id # i}

\* delete from containers where user_id = i
DeleteGrantsOf(T, i) == {r \in T : r.user_id # i}

\* delete from containers where cid = c
DeleteByCid(T, c) == {r \in T : r.cid # c}

\* delete from containers [where cid not in ids]
PurgeExcept(T, ids) == {r \in T : r.cid \in ids}
=============================================================================
