------------------------------ MODULE Bastion ------------------------------
(* The manager, its refresher, the docker daemon and the SSH server's logins on
   one containers table: Privileges and Fleet joined.  A grant made in a stale
   tab, the row of a container that is just being created, a login between its
   two queries and a purge by an old list meet in it. *)
EXTENDS Privileges

CONSTANTS Containers, \* those of Cids that the daemon gives out
          Reqs        \* POST and DELETE /api/containers requests under way

ASSUME BastionAssumption == Containers \subseteq Cids

VARIABLES daemon, reqs, ticker, fresh     \* as in Fleet

fleetVars == <<daemon, reqs, ticker, fresh>>
bastionVars == <<users, containers, creds, pages, conns, daemon, reqs, ticker, fresh>>

\* The containers table without its ids, as Fleet has it
Rows == {[cid |-> r.cid, user_id |-> r.user_id] : r \in containers}

F == INSTANCE Fleet WITH
       Cids <- Containers, Uids <- 1 .. MaxUserid, OtherKeys <- Cids \ Containers,
       rows <- Rows

BastionInit ==
  /\ Init
  /\ daemon \in [Containers -> {"unborn", "stopped", "running"}]
  /\ reqs = [q \in Reqs |-> F!Done]
  /\ ticker = F!Waiting
  /\ fresh = {}

-----------------------------------------------------------------------------
(* Requests of the dashboard and logins *)

\* POST /api/priv: a page lists the containers the daemon has or has had.
GrantListed(p, e, c) ==
  /\ c \in Containers => F!Born(c)
  /\ Grant(p, e, c)

Dashboard ==
  /\ \/ \E n \in Names, a \in Passwords : AddUser(n, a)
     \/ \E p \in Pages :
          \/ Users(p)
          \/ \E e \in pages[p].users : DeleteUser(p, e)
          \/ \E e \in pages[p].users, c \in Cids : GrantListed(p, e, c)
          \/ \E j \in pages[p].privs : Revoke(p, j)
  /\ UNCHANGED fleetVars

LogIn == Login /\ UNCHANGED fleetVars

-----------------------------------------------------------------------------
(* What changes the table because of the daemon *)

\* CreateContainer's insert
InsertRow(q) ==
  /\ reqs[q].pc = "insert"
  /\ \/ CreateContainer(reqs[q].cid) /\ F!Step(q, "start")
     \/ F!Finish(q) /\ UNCHANGED vars
  /\ UNCHANGED <<daemon, ticker, fresh>>

\* DeleteContainer's delete, whose error is ignored
Unlist(q) ==
  /\ reqs[q].pc = "unlist"
  /\ DeleteContainer(reqs[q].cid) \/ UNCHANGED vars
  /\ F!Finish(q)
  /\ UNCHANGED <<daemon, ticker, fresh>>

\* Mutant: what a user has been given is not purged.
Purge_unassigned ==
  /\ ticker.pc = "listed"
  /\ containers' = {r \in containers : r.cid \in ticker.ids \/ r.user_id # NoUser}
  /\ ticker' = F!Waiting
  /\ UNCHANGED <<users, creds, pages, conns, daemon, reqs, fresh>>

\* The refresher's delete
Purge ==
  /\ ticker.pc = "listed"
  /\ refreshContainers(ticker.ids)
  /\ ticker' = F!Waiting
  /\ UNCHANGED <<daemon, reqs, fresh>>

\* What changes the daemon and the handlers only
Daemon ==
  /\ UNCHANGED vars
  /\ \/ \E c \in Containers : F!DockerCreate(c) \/ F!DockerRun(c)
     \/ \E q \in Reqs :
          \/ F!PostContainer(q)
          \/ F!Created(q)
          \/ F!ImageMissing(q)
          \/ F!Pulled(q)
          \/ F!CreateFails(q)
          \/ F!Start(q)
          \/ \E c \in Containers : F!DeleteContainer(q, c)
          \/ F!RemoveContainer(q)
     \/ F!List
     \/ F!PurgeFails

\* One process: a restart ends its requests, its ticker and its connections.
BastionRestart == Restart /\ F!Restart

BastionNext ==
  \/ Dashboard
  \/ LogIn
  \/ \E q \in Reqs : InsertRow(q) \/ Unlist(q)
  \/ Purge
  \/ Daemon
  \/ BastionRestart

BastionSpec == BastionInit /\ [][BastionNext]_bastionVars

-----------------------------------------------------------------------------
(* Properties *)

\* To the accounts, the dashboard and the logins all that the daemon and the
\* refresher do is CreateContainer, DeleteContainer and refreshContainers, so that
\* what Privileges and AccessControl promise holds of the whole program.
ImplementsPrivileges == Spec

\* To the containers all that pages and logins do, with ids used again and stale
\* tabs, is granting, revoking and deleting users, so that what Fleet promises
\* holds of the whole program.
ImplementsFleet == F!Spec

\* An account keeps its access to a container while both exist: it is lost only
\* by a revocation that names its row, or when the container is younger than the list
\* a purge goes by.  Neither the deletion of another account whose id was used
\* again, nor a stale tab, nor the failure of a request about another container,
\* nor a restart takes it.
AccessLostOnlyWhenTaken ==
  [][\A r \in containers \ containers' :
       r.cid \in Containers /\ F!Exists(r.cid) /\ Live(r.for) =>
         \/ ~ Live(r.for)'
         \/ \E p \in Pages : Revoke(p, r.id)
         \/ r.cid \in fresh]_bastionVars
=============================================================================
