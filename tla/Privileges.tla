---------------------------- MODULE Privileges ----------------------------
(* Who may log in to which container: the users and containers tables, the
   dashboard pages through which administrators change them, and the password
   callback of the SSH server that reads them in two separate queries.

   A page is a browser tab.  It shows the rows of GET /api/users as they were
   when it loaded them, and every request it sends names rows by the ids it
   shows, however old they are.  The two dashboard views (users, containers)
   load the same list, so one page stands for a tab of either.

   Every account is created with a password of its own, so that the password
   column also says which account a row of `users' is: ids and names are used
   again after a deletion, passwords are not.  Two things are not in the
   program and are never read by an action's guard: the field `for' of a
   containers row and `acct' of a page entry, both the account the
   administrator had in mind. *)
EXTENDS MetaStore

CONSTANTS Names,       \* user names
          Passwords,   \* one for every account ever created
          NoAccount,   \* `for' of the row CreateContainer inserts
          Cids,        \* container ids
          Targets,     \* what logins give for a container: any 12 characters
          Like,        \* pairs <<t, c>>: the id c is LIKE t with a % after it
          NoCid,       \* no container named yet
          Pages,       \* dashboard tabs
          Conns,       \* SSH connections
          MaxUserid,   \* bound: largest users.id
          MaxGrantid   \* bound: largest containers.id

ASSUME PrivilegesAssumption ==
  /\ NoAccount \notin Passwords
  /\ NoCid \notin Cids \cup Targets
  /\ MaxUserid \in Nat
  /\ MaxGrantid \in Nat

VARIABLES users,       \* rows [id, name, password]
          containers,  \* rows [id, cid, user_id, for]
          creds,       \* the credentials handed out so far [name, password]
          pages,       \* what each tab shows [users, privs]
          conns        \* state of passwordCallback [pc, acct, uid, target]

vars == <<users, containers, creds, pages, conns>>

NoUser == 0            \* user_id '' of the row CreateContainer inserts

Live(p) == \E u \in users : u.password = p
Issued(p) == \E d \in creds : d.password = p

Blank == [users |-> {}, privs |-> {}]
Idle == [pc |-> "idle", acct |-> NoAccount, uid |-> NoUser, target |-> NoCid]

\* initDB creates empty tables; no tab has loaded and nobody is connected.
Init == /\ users = {}
        /\ containers = {}
        /\ creds = {}
        /\ pages = [p \in Pages |-> Blank]
        /\ conns = [s \in Conns |-> Idle]

-----------------------------------------------------------------------------
(* The dashboard and the API handlers *)

\* Mutant: no look at `cid' (dashboard.js:130); the row of a user who has nothing
\* brings a link with the id 0.
Users_withLinks(p) ==
  /\ pages' = [pages EXCEPT ![p] =
       [users |-> {[id |-> u.id, acct |-> u.password] : u \in users},
        privs |-> {r.id : r \in {x \in containers :
                                   \E u \in users : u.id = x.user_id}}
                  \cup {0 : u \in {v \in users : \A r \in containers : r.user_id # v.id}}]]
  /\ UNCHANGED <<users, containers, creds, conns>>

\* GET /api/users: the left join lists every user, and the grants that have a
\* user; a grant whose user_id matches no user is not shown.
Users(p) ==
  /\ pages' = [pages EXCEPT ![p] =
       [users |-> {[id |-> u.id, acct |-> u.password] : u \in users},
        privs |-> {r.id : r \in {x \in containers :
                                   \E u \in users : u.id = x.user_id}}]]
  /\ UNCHANGED <<users, containers, creds, conns>>

\* POST /api/users; a name already taken is refused with nothing changed.
AddUser(n, p) ==
  /\ ~ NameTaken(users, n)
  /\ ~ Issued(p)
  /\ \E i \in 1 .. MaxUserid :
       /\ IsNextRowid(users, i)
       /\ users' = users \cup {[id |-> i, name |-> n, password |-> p]}
  /\ creds' = creds \cup {[name |-> n, password |-> p]}
  /\ UNCHANGED <<containers, pages, conns>>

\* Mutant: only the first of the two statements.
DeleteUserTx_keepsGrants(i) ==
  /\ users' = DeleteById(users, i)
  /\ UNCHANGED containers

\* The transaction of DELETE /api/users/:id
DeleteUserTx(i) ==
  /\ users' = DeleteById(users, i)
  /\ containers' = DeleteGrantsOf(containers, i)

\* The page takes the row out of one view, but a second click on it may be under
\* way already and window.users keeps it: the entry stays until the next load.
DeleteUser(p, e) ==
  /\ e \in pages[p].users
  /\ DeleteUserTx(e.id)
  /\ UNCHANGED <<creds, pages, conns>>

\* insert into containers (user_id, cid), refused when the pair is there
InsertGrant(c, i, a, j) ==
  /\ ~ PairTaken(containers, c, i)
  /\ IsNextRowid(containers, j)
  /\ containers' = containers \cup {[id |-> j, cid |-> c, user_id |-> i, for |-> a]}

\* POST /api/priv: the user's existence is not checked.  The page adds a revoke
\* link for the new row.
Grant(p, e, c) ==
  /\ e \in pages[p].users
  /\ \E j \in 1 .. MaxGrantid :
       /\ InsertGrant(c, e.id, e.acct, j)
       /\ pages' = [pages EXCEPT ![p].privs = @ \cup {j}]
  /\ UNCHANGED <<users, creds, conns>>

\* DELETE /api/priv/:id
Revoke(p, j) ==
  /\ j \in pages[p].privs
  /\ containers' = DeleteById(containers, j)
  /\ UNCHANGED <<users, creds, pages, conns>>

\* POST /api/containers: the dashboard sends no user_id, the row has ''.
CreateContainer(c) ==
  /\ \E j \in 1 .. MaxGrantid : InsertGrant(c, NoUser, NoAccount, j)
  /\ UNCHANGED <<users, creds, pages, conns>>

\* DELETE /api/containers/:id, once the daemon has removed it
DeleteContainer(c) ==
  /\ containers' = DeleteByCid(containers, c)
  /\ UNCHANGED <<users, creds, pages, conns>>

\* One tick of the refresher whose list of the daemon's containers was ids
refreshContainers(ids) ==
  /\ containers' = PurgeExcept(containers, ids)
  /\ UNCHANGED <<users, creds, pages, conns>>

-----------------------------------------------------------------------------
(* passwordCallback, for a client that was given the credential d *)

\* First query and bcrypt comparison; any other outcome is ErrInvalidPassword
\* and leaves the connection where it was, free to try again.
FindUser(s, d, t) ==
  /\ conns[s].pc = "idle"
  /\ \E u \in users :
       /\ u.name = d.name
       /\ u.password = d.password
       /\ conns' = [conns EXCEPT ![s] =
            [pc |-> "found", acct |-> d.password, uid |-> u.id, target |-> t]]
  /\ UNCHANGED <<users, containers, creds, pages>>

\* Mutant: `where cid like ?' without the user
Match_anyUser(r, uid, t) == <<t, r.cid>> \in Like

\* Mutant: the row's own id compared in place of its user_id
Match_rowid(r, uid, t) == r.id = uid /\ <<t, r.cid>> \in Like

\* A row the second query looks for: `cid like ?' with the target and a %.  The
\* target is a prefix of the id, and its own % and _ stand for other characters, so
\* that one target may match several containers.
Match(r, uid, t) == r.user_id = uid /\ <<t, r.cid>> \in Like

HasContainer(s) == \E r \in containers : Match(r, conns[s].uid, conns[s].target)

Admit(s) ==
  /\ conns[s].pc = "found"
  /\ HasContainer(s)
  /\ conns' = [conns EXCEPT ![s].pc = "open"]
  /\ UNCHANGED <<users, containers, creds, pages>>

\* ErrAccessDenied
Deny(s) ==
  /\ conns[s].pc = "found"
  /\ ~ HasContainer(s)
  /\ conns' = [conns EXCEPT ![s] = Idle]
  /\ UNCHANGED <<users, containers, creds, pages>>

\* The second query fails (database busy).  The answer is Prepare's error or, as
\* Scan's is ignored and hasContainer left at 0, ErrAccessDenied: the attempt is
\* refused whatever the user holds.
QueryFails(s) ==
  /\ conns[s].pc = "found"
  /\ conns' = [conns EXCEPT ![s] = Idle]
  /\ UNCHANGED <<users, containers, creds, pages>>

\* An open connection ends.
Close(s) ==
  /\ conns[s].pc = "open"
  /\ conns' = [conns EXCEPT ![s] = Idle]
  /\ UNCHANGED <<users, containers, creds, pages>>

\* The process is killed and started again: tables and open tabs survive.
Restart ==
  /\ conns' = [s \in Conns |-> Idle]
  /\ UNCHANGED <<users, containers, creds, pages>>

-----------------------------------------------------------------------------
Manage == \/ \E n \in Names, p \in Passwords : AddUser(n, p)
          \/ \E p \in Pages :
               \/ Users(p)
               \/ \E e \in pages[p].users : DeleteUser(p, e)
               \/ \E e \in pages[p].users, c \in Cids : Grant(p, e, c)
               \/ \E j \in pages[p].privs : Revoke(p, j)
          \/ \E c \in Cids : CreateContainer(c) \/ DeleteContainer(c)
          \/ \E ids \in SUBSET Cids : refreshContainers(ids)

Login == \E s \in Conns :
           \/ \E d \in creds, t \in Targets : FindUser(s, d, t)
           \/ Admit(s)
           \/ Deny(s)
           \/ QueryFails(s)
           \/ Close(s)

Next == Manage \/ Login \/ Restart

Spec == Init /\ [][Next]_vars

-----------------------------------------------------------------------------
(* Properties *)

User == [id : 1 .. MaxUserid, name : Names, password : Passwords]
Priv == [id : 1 .. MaxGrantid, cid : Cids, user_id : 0 .. MaxUserid,
         for : Passwords \cup {NoAccount}]
Credential == [name : Names, password : Passwords]
Page == [users : SUBSET [id : 1 .. MaxUserid, acct : Passwords],
         privs : SUBSET (1 .. MaxGrantid)]
Conn == [pc : {"idle", "found", "open"}, acct : Passwords \cup {NoAccount},
         uid : 0 .. MaxUserid, target : Targets \cup {NoCid}]

\* Type invariant: rows, pages and connections hold values of their columns.
TypeOK == /\ users \subseteq User
          /\ containers \subseteq Priv
          /\ creds \subseteq Credential
          /\ pages \in [Pages -> Page]
          /\ conns \in [Conns -> Conn]

\* A grant for an account that does not exist (the rows CreateContainer inserts
\* are for nobody)
Stray(r) == r.for # NoAccount /\ ~ Live(r.for)

\* A row whose user_id is a user's id was granted to that very user, or to an
\* account that had been deleted: however stale the pages and whatever ids have
\* been used again, no existing account ever gets what the administrator gave
\* to another existing one (Grant, AddUser and DeleteUser by id).
NoCrossedGrants ==
  \A r \in containers, u \in users :
    r.user_id = u.id => r.for = u.password \/ Stray(r)

\* No step turns a grant of an existing account into one of a deleted account:
\* DeleteUser takes every grant of the account along, also those another page
\* has inserted since the deleting page was loaded.
GrantsDieWithTheirAccount ==
  [][\A r \in containers \cap containers' : Live(r.for) => Live(r.for)']_vars

\* A login is admitted by a grant of the account that logs in, for a container
\* that is like the target it names, unless the account was deleted between the
\* two queries or the grant had reached the table after the deletion of the account
\* it was for (passwordCallback against every interleaving of the API handlers).
AdmittedByOwnGrant ==
  [][\A s \in Conns : Admit(s) =>
       \E r \in containers :
         /\ <<conns[s].target, r.cid>> \in Like
         /\ \/ r.for = conns[s].acct
            \/ ~ Live(conns[s].acct)
            \/ Stray(r)]_vars

\* Whatever has happened since the first query gave a login the user's id, the
\* second finds a row if the account holds a grant its target is like.  So a
\* holder can be denied only because that query fails, which passwordCallback
\* does not tell from an empty answer (QueryFails).
GrantedIsFound ==
  \A s \in Conns : conns[s].pc = "found" =>
    \A r \in containers :
      <<conns[s].target, r.cid>> \in Like /\ r.for = conns[s].acct /\ Live(r.for)
        => HasContainer(s)

\* What AccessControl's variables are here
Members == {u.password : u \in users}
Acl == {<<r.for, r.cid>> : r \in {x \in containers : Live(x.for)}}
Strays == {r.cid : r \in {x \in containers : Stray(x)}}
Inside == [s \in Conns |-> IF conns[s].pc = "open"
                           THEN <<conns[s].acct, conns[s].target>>
                           ELSE <<NoAccount, NoCid>>]

AC == INSTANCE AccessControl WITH
        Accounts <- Passwords, Sessions <- Conns,
        members <- Members, acl <- Acl, strays <- Strays, inside <- Inside

\* Tables with re-used ids, stale pages and two queries implement accounts that
\* have containers: every handler gives, takes or forgets exactly what it should,
\* and a login enters by what its account has (whole of Privileges).
ImplementsAccessControl == AC!Spec

\* README: "You can create a user and assign some containers to the user, then
\* the user can login": the containers a user can log in to were assigned to
\* a user of this name.  Violated: Grant does not check that the user exists, and the id
\* of a deleted user is given to the next one created.
UsersHoldOnlyWhatWasAssigned ==
  \A r \in containers, u \in users :
    r.user_id = u.id => \E d \in creds : d.password = r.for /\ d.name = u.name
=============================================================================
