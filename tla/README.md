# Verification of docker-bastion

docker-bastion lets people log in to docker containers over SSH. Administrators
use a web dashboard to create users, to create containers and to assign
containers to users; an SSH server checks every login against these assignments
and runs `docker exec` on a pseudo-terminal for it. This directory holds TLA+
models of the parts whose correctness depends on the order of events, the TLC
runs that check them on small instances, and proofs checked by TLAPS.

## The system

| Part | State | Operations | Talks to |
|---|---|---|---|
| Accounts and grants (`manager/api.go`) | tables `users`, `containers` | AddUser, DeleteUser, Users, Grant, Revoke | dashboard (HTTP), SQLite |
| Dashboard (`views/assets/dashboard.js`) | the rows a tab has loaded (`window.users`, links with ids) | load, create, delete, grant, revoke | API |
| Login (`sshd/sshd.go`, passwordCallback) | name, id, container of the attempt | two queries and a bcrypt comparison | SQLite |
| Containers (`manager/api.go`, `dockerclient`) | the daemon's containers, rows about them | CreateContainer, DeleteContainer, Containers | docker daemon, SQLite |
| Refresher (`manager/server.go`) | the list it has fetched | a tick every 30 seconds: list, then purge | docker daemon, SQLite |
| SSH session (`sshd/sshd.go`, `x/crypto/ssh` channel, buffer, window) | process, terminal, two copying goroutines, `sync.Once`, channel flags | handleChannel, io.Copy twice, closeChannel | client, mux loop, `docker exec` |
| Connection (`sshd/sshd.go`, `x/crypto/ssh` mux and channel) | the channel table, queues of 16 between the mux loop and the handlers | onePacket, handleRequests, handleChannels, the request goroutine | client, session |
| Transport (`x/crypto/ssh` handshakeTransport) | a queue of 16 packets, the state of a key change | readLoop, readPacket, writePacket | mux loop, every writer |
| Database (`go-sqlite3`, the compiled-in `sqlite3.c`, `database/sql`'s pool) | the pool's connections with their transactions, locks on `meta.sqlite3`, its rollback journal, a page cache per connection | BEGIN, statements, COMMIT, ROLLBACK, recovery | every handler, login and the refresher; file system |
| Start-up (`main.go`, `sshd/server.go`, `manager/server.go`) | database, host key, session key, default administrator | initDB, New, genSessionKey, addDefaultUser | file system |
| Administrator sessions (`manager/api.go`) | signed cookie, table `admins` | Login, Logout, ChPasswd, authMidware | dashboard |

Everything runs in one process: a goroutine per SSH connection, more per
channel, one per HTTP request, one for the refresher. They share the database
and the docker daemon and take no lock of their own. What is hard:

* ids of deleted rows are given out again, and both the dashboard and a login
  remember ids across other people's changes;
* the daemon and the database are changed one after the other, and each change
  may fail, or succeed with its answer lost;
* the refresher purges by a list that ages while it is used;
* two copies end a session in either order, one of them while the other still
  has data in hand, and the client may do anything at any moment;
* one loop serves all channels of a connection and waits on bounded queues, while
  channel numbers are used again at both ends;
* all writers of a connection wait while keys are exchanged, and the loop that
  has to empty the queue in front of the exchange is one of them;
* a statement or a COMMIT gives up when the database is busy, and what it leaves
  goes back to the pool with its connection;
* the process may be killed, or the machine lose power, between any two steps: of
  a transaction, of its recovery, and of the first start, which makes the files
  all later ones need.

## Modules

| Module | Contents |
|---|---|
| `MetaStore` | what the SQL statements do to a table, and how SQLite picks the id of a new row |
| `Privileges` | accounts, grants, stale dashboard tabs, logins |
| `AccessControl` | what `Privileges` promises: accounts that have containers, and who is let in |
| `PrivilegesProofs` | theorems about `Privileges`, among them that it implements `AccessControl`, and about `Bastion` |
| `Fleet` | containers, the requests that create and remove them, the refresher |
| `Bastion` | `Privileges` and `Fleet` on one containers table; shown to implement both |
| `ManagerProofs` | theorems about `Fleet` and about `Admin` |
| `Session` | one SSH session channel |
| `SessionProofs` | theorems about `Session` |
| `Connection` | one SSH connection: the mux loop, its queues, and the goroutines that empty them |
| `ConnectionProofs` | theorems about `Connection` |
| `Transport` | one SSH connection's `handshakeTransport`: writers, key exchanges, the queue to the mux loop |
| `TransportProofs` | theorems about `Transport` |
| `FileLocks` | SQLite's locks on the database file, as the connections of one process share them |
| `FileLocksProofs` | theorems about `FileLocks` |
| `Pager` | SQLite's pager: caches, rollback journal, commit, rollback, recovery, crashes. It extends `FileLocks` |
| `Database` | what `Pager` promises: atomic, isolated transactions, and what a crash may take |
| `PagerProofs` | theorems about `Pager` |
| `SqlPool` | the handlers' statements and transactions on `database/sql`'s pool. It extends `FileLocks` |
| `SqlPoolProofs` | theorems about `SqlPool` |
| `Admin` | start-up, persisted keys, the administrator's sessions and password |
| `MCPrivileges`, `MCFleet`, `MCBastion`, `MCSession`, `MCConnection`, `MCTransport`, `MCPager`, `MCSqlPool`, `MCAdmin` | instances for TLC |

`Privileges` and `Fleet` take a statement as atomic; `SqlPool` goes inside it,
as far as the locks it takes and how it ends, and `Pager` goes inside the
commit `SqlPool` takes as one step. `Connection` and `Session` take a write as
one step; `Transport` goes inside it.

Operators named `X_something` directly before an operator `X` and commented
`Mutant:` are wrong versions of `X`; they are used by no specification. Each
shows that a property fails when the code is wrong in that way.

### Privileges

`users` and `containers` are the tables; a row of `users` carries the password
in place of its hash, and since every account is given a password of its own
(`~ Issued(p)` in `AddUser`), the password also names the account, which ids and
names do not: both are used again. A page holds what GET /api/users returned,
as entries with an id; deleting an entry leaves it on the page until the next
load, because the other view's `window.users` (dashboard.js:113) and clicks
under way keep it. Requests are handled in any order and as late as one likes,
so a page's entry may be arbitrarily old when its request is executed.
`passwordCallback` is two steps: `FindUser` (query and bcrypt) and then `Admit`,
`Deny` or `QueryFails`. A rejected first step changes nothing and is no action.
The second query is by `cid like ?` with the 12 characters the client gives and a
`%` (sshd.go:76,80): a prefix, in which `%` and `_` of the client's own stand for
other characters. What matters of it is which containers a target is like: the
constant `Like`, any set of pairs of a target and a container, so that one target
may match several containers, or none.

Two fields are history: `for` in a grant and `acct` in a page's entry say which
account the administrator meant. No guard reads them.

Taken as atomic: each SQL statement, and the transaction of DeleteUser. Requests
are those the dashboard sends.

`AccessControl` says the same without tables, ids, pages and queries: `acl` is a
set of pairs of an account and a container, `Give` and `Take` change one pair,
`Leave` removes all of an account's, `Forget` all of a container's, `Enter` needs
a pair whose container the target is like; who enters, enters by the target. A row whose account exists is a pair; a row made for an account that had
gone is a container in `strays`, whose holder is whoever gets the id; a row
CreateContainer inserts is nothing. The two exceptions the findings are about are
written down there, in `GiveStray` and in the guard of `Enter`, so that the
refinement says they are the only ones.

Properties: `NoCrossedGrants`, `AdmittedByOwnGrant`, `GrantedIsFound` and
`ImplementsAccessControl` hold; the run `bastion` checks them of the whole.
`GrantedIsFound` says that the second query, made with an id the first has found,
misses no grant of the account. The code can refuse a holder all the same: it
ignores the error of Scan (sshd.go:80), so a query that fails looks like one that
finds nothing (`QueryFails`), and the client is told ErrAccessDenied.
`GrantsDieWithTheirAccount` says of the rows what `Leave` says in `AccessControl`; it
is a theorem and has no run. `UsersHoldOnlyWhatWasAssigned` does not hold: the API does not check that the user of a grant exists (there is a
TODO at that line), and ids are reused. Nor are a login's two queries tied
together: a user who is deleted between them can be let in by a grant made to
the dead id since; that is the exception in the guard of `Enter`.

Bounds (`MCPrivileges_reuse.cfg`): 2 names, 2 accounts over time, 1 container, 1
tab and 1 connection are enough for the finding. The properties that hold are
checked on `MCBastion.cfg`, described below.

### Fleet

A container is `unborn`, `stopped`, `running` or `gone`; the daemon never gives
an id out twice. A handler is a program counter and the id in hand: POST
/api/containers goes through `create`, perhaps `pull` and `recreate`, `insert`,
`start`; DELETE through `remove`, `unlist`. Every call can fail; a call that
changes the daemon can also succeed and fail for the caller (`Created`,
`RemoveContainer`). The refresher is `List` and `Purge`, with everything else
possible in between. Names of images and containers, and the container's
configuration, are left out: a refusal by the daemon is `CreateFails`.

`fresh` is history: containers created since the last list.

`GrantsLostOnlyWithContainer` says what the refresher and DeleteContainer may
take away, `GoneContainersAreForgotten` what they must. `AssignedStaysAssigned`
is what an administrator would expect, and is violated by the age of the list.

Fairness (`FairSpec`): strong for `List` and for `Purge`. The ticker runs as
long as the process does, and the assumption is that daemon, database and
process do not fail at every tick; strong rather than weak because a failing
statement and a restart both take the refresher out of the state in which it
could purge.

Bounds: 2 containers, 2 requests, 1 user. Two containers are the least with which
a list can contain one and miss the other, and two requests let one container be
created or removed while the other is; `ManagerProofs` has the safety properties
for any number. Users only multiply rows.

### Bastion

`Privileges` lets containers come, go and be purged at any time and by any list;
`Fleet` lets grants come and go as they like. `Bastion` extends the one and
instantiates the other with the table's rows without their ids (`Rows`), so that
each supplies what the other leaves open: `InsertRow`, `Unlist` and `Purge` are
Fleet's steps in Privileges' table, `Dashboard` and `LogIn` are Privileges' steps
beside a daemon, `Daemon` are the steps that leave the table alone, and
`BastionRestart` is one restart for both. `ImplementsPrivileges` and
`ImplementsFleet` say that the components' promises hold of the whole. Neither
component can say `AccessLostOnlyWhenTaken`: Fleet does not know whose a user id is,
and Privileges does not know which containers exist. It holds in spite of the ids
used again, because a deletion by a stale tab takes the account that has the id
now, with its rows. A revocation by a stale tab may name a row that has been given
to somebody else since; the property allows it, as the code does.

The run checks the refinement of `AccessControl` and of `Fleet`; that the whole
implements `Privileges` is left to the proof (`WholeImplementsPrivileges`).

Bounds (`MCBastion.cfg`): 2 names, 3 accounts over time, ids up to 2 in each table,
so that an id is used again and two existing users can each be confused with a
deleted one; 2 container ids, of which the daemon has one and the other is what an
old row or a typed grant may name; 2 targets, one like the first container and one
with a wildcard that is like both; 1 tab, which goes stale beside the requests and
the refresher; 1 login, because logins do not interact with each other; 1 request.
`Few` bounds them together: with the third account one grant or one login at a
time, with two accounts two grants and a login. Names and accounts are symmetric.
Two tabs, or two containers of the daemon, are left to the proofs, which hold for
any number: with them TLC does not end in minutes.

### Session

One channel from `handleChannel` to its end. Output and input are counted in
chunks. `out` and `in` are the program counters of the two `io.Copy` goroutines,
`once` the `sync.Once`; `pending` and `eof` are the channel's receive buffer,
`win` the window the client has granted, `sentClose` and `removed` the two ends
of closing (`writePacket` refuses after the first, `reserve` after the second).
A message of the client and the mux loop's handling of it are one step. The
terminal is the kernel's: reading from it gives what was written and then fails
once the process has closed it, writing to it fails once the process has closed
it.

`OutputBeforeClose`, `CloseIsLast`, `InputBeforeEOF` hold, and
`ExitedIsReaped` under `FairSpec`: every goroutine runs when it can. Nothing
obliges the shell to exit, to read or to write, or the client to read. So there is
one exception, `ClientIsSilent`: a client that stays connected, stops reading until
the window is used up and sends nothing leaves one copy waiting for the window and
the other for input, and the process that has exited is not reaped; the code has no
deadline. As soon as it types, sends EOF, closes or leaves, one copy ends. `OutputBeforeClose` excludes input that the shell left
unread: it makes the other copy fail and close the channel, so that typing ahead
of `exit` can cost output; the model shows it when the condition `fed = typed`
is dropped. It also excludes output that comes after the client's EOF: EOF ends
one copy, and that closes the channel (sshd.go:181), although the half-close of
channel.go:61-63 leaves the other direction open. `SessionsEnd` is violated.

Bounds: 4 chunks of output against a window of 1 and a terminal of 2, so that
the copy blocks on the window with the terminal full; 3 chunks of input, one
more than the terminal takes. `CHECK_DEADLOCK FALSE`, since a session ends.

### Connection

All channels of one connection after authentication. `mux` is the loop of
`mux.go`: it reads a packet (`Open`, `Request`, `Global`, `Answer`, `GlobalAnswer`,
`Close`) and, when the packet goes into a Go channel, waits there until there is
room (`PutOpen`, `PutRequest`, `PutGlobal`, `PutAnswer`); meanwhile it reads
nothing. `table` is `chanList`,
with the first free slot as the server's number of a channel; `client` holds
what the client knows under each of its own numbers. `acc` is the channel
`handleChannels` is starting a process for, `handler` the goroutine of every
channel, `CloseChannel` the close at the end of a copy, and `LoopEnds` what the
loop does when reading fails. The client keeps to the protocol (it sends on
channels that have been confirmed, and uses a number again after its channel has
been closed) and does so at any time and in any order, with one exception: it may
answer requests the server has not made. Such answers go where `SendRequest` would
look for them, into `globalResponses` or the `msg` of a channel, and nobody takes
them out; `unread` counts them. From some point on (`Stall`) what the server writes
may wait for good, because the client has stopped reading or a key exchange does
not end. The whole server ends when the process of a channel cannot be started
(`StartFails`) or when the payload of a request is too short for the sizes
`parseDims` reads in it (`Panics`).

Every channel has a place `o` in the order of opening that no packet carries and
no guard reads; `stray` and `panicked` record that a packet has reached another
channel than the one it was for, and that a Go channel has been closed twice or
written to after its close. `sent` and `answers` are what the client has asked
and got.

`PacketsReachTheirChannel` and `QueuesCloseOnce` hold: a number is given out
again only after both sides have closed, and `writePacket` refuses afterwards.
`AnsweredInOrder` holds, and `LoopGoesOn` under `FairSpec`: the request
goroutine goes on taking requests after its channel has been closed and a reply
has failed, so the loop is not left waiting for it, but in two cases that the code
does not exclude and the property names. In `Unasked` the client has filled a queue
that nobody reads; in `stalled` the goroutine that would take the packet waits to
write an answer. In both the loop, and with it every channel, stops. `AnswersMatch`
is violated: an answer does not name its request, so passing over a request that
wants one shifts all answers after it. A global request that wants an answer (a
keepalive) gets none either: `handleRequests` only takes it from its queue.

Fairness: the loop, `handleRequests`, `handleChannels` and the request
goroutines run when they can. Nothing is assumed of the client or of the end of
a session, and starting `docker exec` is assumed to return.

Left out: data, EOF and window messages (they are in `Session`); opening with a
packet size out of bounds and packets that break the protocol, which end in an
answer or the end of the loop.

Bounds: every queue has room for 1, which stands for 16; the client may have two
requests on each of 2 channels, three on both, so that it fills a queue and the
loop's hands and still has one for the other channel, and it leaves unasked answers
in one queue at a time. Order among more than these two requests
rests on the queue being first-in first-out. Two channels over two numbers at the client and two slots at the server let either
number be used again while the other is kept. One type of request is enough here: a
request that wants no answer is passed over like one of another type. The runs for
the findings have two types.

### Transport

The server's side of `handshakeTransport` once the first exchange is over.
`mu` is the mutex, `writer` where every goroutine is in `writePacket` (`Enter`,
`Woken` after `cond.Wait`, `Written`), `reader` where `readLoop` and
`readOnePacket` are: `Read`, `PutPacket` into the queue `incoming` (which waits
while it is full), or an exchange, `EnterExchange`, `ReadKex`, `WriteKex`,
`ReadKex` again, and `ExchangeEnds` or `Abort`, which broadcast. The exchange
writes without the mutex; `sentInit` (`sentInitMsg # nil`) is what keeps others
away. The mux loop is the writer `Loop`: it takes a packet (`Take`) and, for one
it answers itself such as a close, becomes a writer. Others (an `"item"`: a request,
the opening of a channel, the answer to a request) it puts into a queue
(`HandOver`) and waits while that is full. `dest` is the taker the queue belongs to,
`handleChannels` or a goroutine that answers requests: it takes an item (`Serve`) when it is not writing, and then
writes an answer or not. `dest = Nobody` stands for a full queue that nobody reads
(`Unasked` in `Connection`; with room left such a packet is like data). The server may want new keys
in any `Enter` (enough written) or before any `Read` (enough read). `flight` is
what the client has sent; the client, which sends nothing between its KEXINIT and
NEWKEYS but the exchange, may begin an exchange itself and may leave at any time.

`ExchangeIsAlone` holds. `WritersEnd` and `ExchangesEnd` hold but for
states in which the transport stops for good, named in the module, each of which
the code does reach:

* `LoopStuck`: the loop waits, the queue in front of it is full, and the reader
  waits to put one more packet there (handshake.go:142), so that it never gets to
  the client's KEXINIT. The loop waits in one of three places (`LoopWaits`): in
  `writePacket`, for the exchange (handshake.go:260); on the queue of a goroutine
  that waits there itself, in `Reply`, `Accept` or `Reject` (channel.go:448,
  mux.go:319); or on a queue that nobody reads (mux.go:290, channel.go:450);
* `Abandoned`: the connection is lost after our KEXINIT and before the client's;
  `readLoop` ends at handshake.go:155 without a broadcast;
* `LockLost`: `writePacket` returns the error of a failed exchange with the mutex
  held (handshake.go:262), so that the next writer waits for it for ever.

In each of them a goroutine in `closeChannel` may be among those that wait, and
then the process of its session is never reaped: `ExitedIsReaped` of `Session`
takes a write as one step and rests on this not happening.

Fairness: strong for a writer and for the reader, who compete for a mutex the
runtime gives to each in turn; weak for the loop and the takers; strong for the
client's part in an exchange, which is what a client that keeps to the protocol does
unless it leaves. The client is also assumed to read what is written while it stays
(`Written` is one step): one that stops reading holds up whoever writes, for the
code has no deadline, and `stalled` in `Connection` and `ClientIsSilent` in `Session`
are about that. That a client leaves, an exchange fails or keys are wanted is never
required.

Bounds: the loop, a taker and another writer (two besides the loop are needed to wake
one and not the other), queues of 1 for 16, a packet under way (with the one the
reader holds, the one in the queue and the one in the loop's hands there are four),
and 3 exchanges counted from the first, so that one may begin while those who waited
for the last are still waking up.

### FileLocks, Pager, Database

go-sqlite3 compiles `sqlite3.c` in with its defaults: a rollback journal that is
deleted at the end, `synchronous=FULL`, no shared cache, a connection per entry of
`database/sql`'s pool, all in one process. That matters for the locks: the
connections share one record (`inode`: the highest lock and the number of
readers), because POSIX locks belong to the process. `Lock`, `Refused` and
`Unlock` are `unixLock` and `posixUnlock` on that record; a refused EXCLUSIVE
keeps PENDING.

`Pager` has one `state` per connection, which is its place in
`sqlite3PagerSharedLock` (`locked`, `found`, `orphan`, `hot`, `alone`), in a read
or write transaction (`reader`, `reserved`, the states of `Pager.eState`,
`finished`), or in a rollback or recovery (`replay`, `replaying`, `replayed`,
`undo`, ...). A file is an array of pages. A page has as contents the number of
the transaction that wrote it; page 1 holds the change counter, so that every
transaction writes it. The journal is a record of whether it exists, its header
is valid and synced, the size it goes back to and the originals it holds, in
order.

`file` and `journal` are what the processes see; `disk` and `left` are what a
power failure may leave: for a page every value written since the last sync, or
garbage; for the journal every form since its last sync, with its records intact
or not. `Killed` takes the processes and their locks and leaves what they saw,
`PowerFails` chooses from `disk` and `left`. Any write and sync may fail instead
(`WriteFails`, `PlaybackFails`), and so may the deletion of the journal at the end
of a commit, a rollback or a recovery (`CommitFails`, `RollbackFails`,
`EndPlaybackFails`), after which the lock goes down to SHARED all the same
(sqlite3.c:41888).

`Database` has a committed state `db`, what a crash may leave (`durable`), and a
`view` per connection; `ImplementsDatabase` maps `db` to the file with a valid
journal rolled back, and a view to the connection's cache with the rest read from
`db`. So it says at once that transactions are atomic and isolated, that a cache
kept from an earlier transaction is dropped when it is stale, and that a crash
goes back no further than the last commit. It goes back by one when the power
fails just after the commit: the deletion of the journal is not synced
(sqlite3.c:41845), and a journal that comes back is rolled back again. For an
empty database `hasHotJournal` deletes the journal without syncing the writes it
was to undo (`DropRemnant`), against rule 5 of the design (sqlite3.c:39928), so
that a power failure may leave pieces of the first transaction of all where there
was no database: `Database` allows it (`Remnant`), and `WriteAhead` speaks of
databases that exist.

The promise has one exception, which all that is said of `Pager` names. Both
connections find the journal of a killed writer; the first is refused EXCLUSIVE
because the second has SHARED, and keeps PENDING until it lets go
(`RecoveryRefused`); at that moment the second looks for a writer, finds a lock
above SHARED in the shared record (`LookForWriter`, sqlite3.c:25298), takes the
journal for a live writer's, and reads the half-written file. The comment at
sqlite3.c:44894-44897 excludes that of other processes, where it is true. It takes
a crash in mid-commit and two requests within microseconds at the next start.
`misled` has the connections this has happened to since the process started;
`RecoveredBeforeRead` is about the others, and in `Database` a misled connection
goes astray (`GoAstray`): it may see anything (`Stray`), but disturbs nobody. If
it goes on to write, its journal takes the place of the one that was to be rolled
back, and there is nothing left to promise: `spoiled`, in `Database` `void`. That
the locks exclude each other holds even then.

Bounds (`MCPager.cfg`): 2 connections, 2 pages, 3 write transactions. Two
connections are a writer and a reader, two that recover, or a writer and one with
a stale cache; two pages let one be written and the other not; three transactions
let a journal that comes back meet a database that has gone on. A
constraint (`Promised`) ends a behaviour where nothing is promised any more, and,
to keep the run short, where a connection has been misled after the last
transaction. `CHECK_DEADLOCK FALSE`:
when the transactions are used up the connections may rest.

Left out: cache spills and savepoints (a transaction here changes a few rows and
never fills the cache), master journals, WAL, vacuum and commits that make the
file shorter, the B-trees in the pages.

### SqlPool

A request is `delete` (DeleteUser: BEGIN, two statements, COMMIT or ROLLBACK),
`write` (one statement), `forget` (one statement whose error nobody looks at:
DeleteContainer, api.go:364-365, and the refresher) or `read`, with a program counter, its connection, the
number of its statement and the tries its busy handler has had. `Acquire` takes
an idle connection or makes one, `Release` puts it back in whatever state it is,
or closes it when the pool has enough. `explicit` are the connections out of
autocommit mode, `pending` what their transactions have changed, `db` what has
been committed. Waiting for a lock is a failed try (`Busy`, `CommitBusy`) that
either tries again or, at `MaxBusy`, gives up. `Rejected` is a constraint,
`StatementFails` and `CommitFails` are the disk.

What the model shows about the code: when DeleteUser's COMMIT gives up on a reader
(`CommitGivesUp`), SQLite leaves the transaction open, as sqlite3.h documents,
and api.go:273 does not roll back, because it does so only for a failed
statement. The connection returns to the pool with PENDING held. A single write
that gets it is answered with success and is never committed (`joined`). A later DeleteUser that gets it fails
at BEGIN, for as long as the process lives. Everybody else gets SQLITE_BUSY.
An answered change can be lost in one other way: DeleteContainer answers 204 though
its statement has failed (`Fails`, `ignored`); the rows are left to the refresher,
which `GoneContainersAreForgotten` of Fleet is about.
`LostOnlyInOpenTransaction` says that nothing else loses an answered change, and
that these are never committed; `FailuresLeaveNothing` that what DeleteUser
reported as failed is not committed by somebody else afterwards;
`DeletedWhole` that its two statements stay together; `RequestsEnd` that all this
makes requests fail and never hang.

Fairness: weak for every request. Bounds: 3 requests, at most 3 connections, of
which the pool keeps 1 (it keeps 2; with 1 all three requests can meet the same
connection, and the case that one is closed occurs as well), and one more try
before giving up. `CHECK_DEADLOCK FALSE`: requests are answered and end.

### Admin

A process is a program counter through `initDB` (one step per statement), `sshd.New`
(`LookForHostKey`, `CreateHostKey`, `FillHostKey`, `ReadHostKey`), `manager.New`
(`ReadSessionKey`, ..., `CountAdmins`, `InsertAdmin`) and the two `Listen`s. A
file is absent, `Cut` (there, but empty or not whole) or a key: `ioutil.WriteFile`
empties and then writes, without a sync. `Dies` is a kill or a failing statement,
`WriteFails` is the error genSessionKey ignores, and `ReadSessionFails` the one it
takes for a missing file (api.go:88): it writes a new key over the one that is
there. `PowerFails` loses what had not reached the disk: of a file all or a part,
and of the database the last commit, whose journal is deleted without a sync
(sqlite3.c:41840); `before` is what the tables were before it. `Sync` is either
reaching the disk. A second process may be started on the same directory while
the first is running or starting. Clients remember the host key they have met,
browsers the key their cookie was made under, the latter together with whether the
key's file was then safe (`kept`, history).

`ReadyWhenServing` says that however earlier starts ended, who serves is ready.
`HostKeyKept`, `SessionsKept` and `PasswordKept` say that what has reached the disk
stays through later starts. Two exceptions are the code's own and named in them: a
start that cannot read the session key ends the sessions (it clears `kept`), and a
power failure may take back a change of the password, or the account itself, when
that was the last commit and is not on the disk yet; the next start then finds the
password, or the absence of an account, that was there before. `ServesAgain` has the one exception: a crash while the
host key is written leaves a file that exists, so no later start makes a key, and
that does not parse, so none gets further (server.go:30-45). A session key cut
short in the same way is used as it is (api.go:88), and if it is empty, sessions
are signed with an empty key.

Fairness: the process is started again whenever it has ended, and a started one
gets on. Bounds: 2 processes of which one is started once, 2 faults, 1 browser, a
password and a changed one, 6 random keys (enough for a new key to be new,
`AdminAssumption`). Two faults are a crash in the first start and one in its repair.

The database commits each statement whole and loses no commit but the last, which
is what `Pager` and `SqlPool` are about. The API can make no second administrator, so there is one.

## Runs

| Run | Shows |
|---|---|
| `privileges_reuse` | finding: a grant for a deleted user reaches the next one |
| `fleet` | grants are lost only with their container or to an older list; rows about removed containers go in the end |
| `fleet_purge` | finding: the purge takes a grant nobody revoked |
| `bastion` | accounts, grants and logins beside the daemon and the refresher: grants are not crossed, logins are by one's own grant, the whole implements `AccessControl` and `Fleet`, and access to an existing container is lost only by a revocation or to an older list |
| `session` | output before close, nothing after it, input not dropped; an exited process is reaped, unless the client stays and is silent for good |
| `session_end` | finding: the shell of a lost client never ends |
| `connection` | packets reach their channel, queues close once, answers in order; the loop waits for good only on a queue nobody reads or for goroutines whose writes wait for good |
| `connection_answers` | finding: an answer is taken for that to an earlier request |
| `transport` | nobody writes into a key exchange; writers and exchanges end, but where the loop waits for good, the exchange is abandoned or the mutex is lost |
| `pager` | locks exclude, the journal is ahead of the file, nobody reads before a recovery is done, and the refinement of `Database`; all but the first with the exception of a connection misled by a refused recovery |
| `sqlpool` | transactions whole, failures leave nothing, answered changes are lost only in a transaction left open, or by DeleteContainer, which ignores its statement's error; every request is answered |
| `admin` | who serves is ready; keys, sessions and the password are kept; the program serves again after crashes, with one exception |

## Proofs

All are for every value of the constants, under the assumptions the modules
state (`PrivilegesAssumption`, `FleetAssumption`, `SessionAssumption`,
`ConnectionAssumption`, `TransportAssumption`, `ConnsAssumption`, `PagerAssumption`,
`PoolAssumption`, `AdminAssumption`, `BastionAssumption`).

* `PrivilegesProofs`. Since ids are reused, the inductive invariant `IInv`
  relates ids to accounts: whatever id a grant, a page or a login remembers for
  an account is that account's id for as long as the account exists
  (`GrantsAgree`, `PagesAgree`, `ConnsAgree`), ids and passwords are unique
  (`UniqueUsers`), and no password is remembered that has not been given out
  (`OnlyIssued`), which is why a new account cannot be mistaken for an old one.
  Rows differ in id and in what they grant (`UniqueGrants`), and a row or a login
  without an account matches no user (`Somebody`).
  `GrantsNeverCross`, `NoGrantOutlivesItsAccount`, `LoginsUseOwnGrants` and
  `GrantsAreFound` follow from it, for every relation `Like`. `Refinement` takes one lemma per kind of
  change to the rows (`AclOfFewer`, `AclOfOneMore`, `AclOfDelete`) and then one
  step per action.

  And about `Bastion`. `DaemonInv`, which no page or login can disturb, says that
  the handlers and the refresher know the daemon as it is (`HandlersKnow`,
  `ListIsComplete`). With it every step of the whole is one of `Privileges`
  (`WholeImplementsPrivileges`), so the whole keeps `IInv` and implements
  `AccessControl` too. With `IInv`, a revocation by id is one of a single row, and
  every step of the whole is one of `Fleet` (`WholeImplementsFleet`).
  `AccessIsKept` needs both: an account's rows carry its id (`GrantsAgree`), and
  what is purged or forgotten is gone or younger than the list.
* `ManagerProofs`, about `Fleet`. `IInv`: a handler that is about to forget a
  container has seen it removed (`HandlersKnow`), and the list in hand misses only
  fresh containers (`ListIsComplete`). `GrantsAreKept` follows.

  And about `Admin`. `AdminInv` says what a process has done when it has come to a
  step (`StepsDone`), whatever the others have done meanwhile: `initDB`'s
  statements are in the schema up to the one it is at, and nothing is taken out of
  it while a process runs (`MetaGrows`; a power failure ends them all). That is `ServersAreReady`. `HostKeyKept` speaks of servers only; what
  keeps it true is about starts too: once a client has met a key that is on the
  disk, no process is between not finding the file and writing it, and none holds
  a key read before (`MetIsKept`, with `HostAgrees`). A key met earlier, while
  another start was under way, may be lost, and `KeptHost` leaves it out. `JarIsKept`
  says the same of the session key, where a write that fails must not come in
  between either; a start that cannot read the key leaves no session to speak of
  (`FailsToRead`). That a new key can be found is counted (`FreshHostKey`,
  `FreshSessionKey`, from `AdminAssumption` and the library's theorems on
  cardinalities). `StartsKeepThePassword` needs no invariant: `InsertAdmin` fails
  when there is an account, because names are unique, and a power failure brings
  back `before` or nothing.
* `SessionProofs`. `OutputBeforeClose` does not say why a channel is closed, so
  `IInv` does: the close message has a cause (`CloseHasCause`), a copy that has
  ended a reason (`OutEnded`, `InEnded`), and what a running copy carries is
  accounted for (`OutputKept`, `InputKept`).

* `ConnectionProofs`. That a packet goes astray is the last of several mistakes,
  and `IInv` excludes the earlier ones: the table and the channels in it agree
  (`TableOK`), what the client knows of a slot is right (`ClientOK`), and a channel
  on which the server may still send is the one the client knows by that number
  (`Current`), with its slot once it has been accepted (`Accepted`). The channel
  in the loop's hands is new and not queued (`HandsOK`), none is queued twice
  (`QueueOK`), and only sessions are accepted (`SessionsOnly`). One lemma per
  action; steps that leave numbers alone share `SameRoutes` and `SameQueues`.

  `AnswersComeInOrder` stands on it: a request is numbered by its place among those
  sent (`SentNumbered`), nothing is sent before a channel is made (`UnmadeSilent`),
  and on a channel that can still be answered the requests pending, queued or in
  the loop's hands, are the last of those sent, while the answers are for the rest
  (`InOrder`). Only `Request`, `PutRequest` and `Handle` touch that.

* `TransportProofs`. A writer that writes has the mutex and has seen no exchange
  announced (`WriterHasLock`); an exchange is announced, with the mutex held, from
  before it writes to its end (`ExchangeAnnounced`), although it writes without the
  mutex. `ExchangesAreAlone` follows.
* `FileLocksProofs`. `LocksExclude` speaks of the connections' own locks, the code
  decides by the shared record; `LocksInv` says what the record has to do with
  the locks: it counts exactly those that hold one, its level is the highest
  held, and one at most is above SHARED. Counting is done with the library's
  theorems on cardinalities.
* `PagerProofs`. The pager keeps `LocksInv` because it asks only for what the
  assertions in `pagerLockDb` allow; `PagerInv` ties the lock a connection holds
  to its state. `WritersAreAlone` is `LocksExclude` for the pager, and
  `ImplementsLocks` says that the pager's steps are steps of `LocksSpec`.

  The other four theorems have the exception told under Pager in what they state:
  the invariant is `spoiled \/ IInv`, and in `IInv` a misled connection knows
  nothing of the file but has not begun to write. None of the
  properties is inductive: whether a rollback gives the committed state depends
  on what the cache of the writer, the records of the journal, the file and
  each of the versions a power failure may leave of the file and of the journal
  have to do with each other at every point of a commit. `IInv` says it in three
  parts.
  - `MediaOK`, about the files: every journal that may be left fits the file
    (`Fits`: it records pages below its size, and the last of them is on the
    disk); without a valid journal the disk has caught up with the file; under a
    valid one every page, in every version that may be left, is undone to the
    committed one; and a journal other than the current one does not count and
    does no harm.
  - `ConnIn`, about each connection in each of its states: what a writer has
    recorded before it writes (`Prepared`), what it has yet to write (`Changed`,
    `Unread`), what a rollback has yet to restore (`Restoring`) and what one
    that never wrote the file leaves in the cache (`Abandoned`), that a reader
    has recovered (`Recovered`), and why a cache that is kept between
    transactions may be used: it is the committed state or its change counter
    is lower (`Remembers`). The counter grows with each commit, so no commit
    that a connection has missed can look like the one it knows.
  - `PagerInv`, which keeps the connections out of each other's way: beside
    EXCLUSIVE all others are `open` (`AloneMeansAlone`), beside RESERVED none
    does more than read (`OneWriter`). Each action then has to show only what it
    does to its own connection and to the files (`QuietMove`, `WriterStep`,
    `AloneStep`).

  `TypeCorrect`, `RollbackIsPossible` and `ReadersHaveRecovered` follow.
  `ImplementsTheDatabase` needs `Represented` besides, that one of the journals
  a power failure may leave is as valid as the one there is, to know that the
  committed state is one of those that may be found after it (`DurableIs`). Each
  step is then shown to be the beginning, a write, the end or the commit of a
  transaction, a change of what a power failure would leave, a crash, a
  connection going astray or what it reads then, or none of
  these. `First` and `FileSize` are choices; that there is something to choose
  comes from the library's theorem that the numbers are well-ordered (`Smallest`).
* `SqlPoolProofs`. A request has a connection to itself (`OneEach`), those in the
  pool have no request (`FreeOK`) and no changes outside a transaction
  (`IdleClean`); a new connection can be found because there are as many as
  requests (`FreshIsFree`). Whoever is about to commit has exactly its own changes
  on its connection (`Transaction`): DeleteUser because its BEGIN would have
  failed inside a transaction, a single statement because it commits only
  outside of one. What is in the database, or lost for good though
  answered (`Lost`), belongs to requests that are over (`Stored`). `DeletedWhole`, `FailuresLeaveNothing` and
  `LostOnlyInOpenTransaction` follow.

Only model-checked: the liveness properties, which the prover cannot treat
(`GoneContainersAreForgotten`, `ExitedIsReaped`, `LoopGoesOn`, `WritersEnd`,
`ExchangesEnd`, `RequestsEnd`, `ServesAgain`). All of them need fairness.

## Not modelled

* Ciphers, the mathematics of the key exchange and packet formats of SSH; bcrypt
  and cookie signatures are taken as perfect.
* Authentication in `x/crypto/ssh` before it calls `passwordCallback`: a loop
  over one client's requests without shared state.
* Terminal sizes: arithmetic on one payload, and an ioctl.
* Layout of the dashboard, logging, the command line, martini's routing.
* Of SQLite, whatever is not locking, journal and transactions: the compiler,
  the virtual machine, B-trees, and the parts the program does not switch on. Its
  `sqlite3.c` is almost the whole of the repository by lines (147,782 of
  155,747), so a small share of all lines is mapped although the program's own
  code is mapped nearly whole.

## Plan

1. An abstract mailbox per channel that `Connection` implements.
