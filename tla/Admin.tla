------------------------------- MODULE Admin -------------------------------
(***************************************************************************)
(* Start-up and the administrator: what a start of docker-bastion finds,   *)
(* makes and keeps on the disk (schema, host key, session key, default     *)
(* administrator), and the sessions and the password that depend on it.    *)
(* A second process may be started while one is running or starting; the   *)
(* process may be killed and the machine may lose power between any steps. *)
(* What Fleet names too begins with Admin here; ManagerProofs extends both. *)
(***************************************************************************)
EXTENDS Naturals, Sequences, FiniteSets

CONSTANTS
  Procs,     \* processes that may run at a time
  Main,      \* the one that is started again whenever it has ended
  Keys,      \* values of the random keys
  Browsers,
  Passwords,
  Default,   \* the password of the account that is made at the first start
  None,      \* no file, no key, no account, no cookie, nobody
  MaxFaults, \* bound: kills, power failures and failing writes
  MaxExtra   \* bound: starts of other processes

Cut == 0      \* a file that is there but empty, or not all of it

\* Enough keys for a new one to be different from all that are in use.
ASSUME AdminAssumption ==
  /\ Main \in Procs
  /\ Default \in Passwords
  /\ None \notin Procs \union Keys \union Passwords \union {Cut}
  /\ IsFiniteSet(Procs) /\ IsFiniteSet(Browsers) /\ IsFiniteSet(Keys)
  /\ Cardinality(Keys) > Cardinality(Procs) + Cardinality(Browsers) + 2
  /\ MaxFaults \in Nat /\ MaxExtra \in Nat

VARIABLES
  proc,      \* the processes [pc, stmt, host, session]
  port,      \* who listens on --ssh-addr and --manage-addr
  schema,    \* tables and indexes of meta.sqlite3
  admin,     \* the password of the administrator's row
  before,    \* the two before the last commit, until its journal's deletion is on the disk
  hostFile,  \* hostkey.rsa
  sessFile,  \* session.key
  synced,    \* which of the two have reached the disk
  jar,       \* every browser's cookie [key, kept], kept being history
  met,       \* history: host keys met when KeptHost
  faults, extra

meta == <<schema, admin, before>>
adminVars == <<proc, port, meta, hostFile, sessFile, synced, jar, met, faults, extra>>
files == <<hostFile, sessFile, synced>>
clients == <<jar, met>>
bounds == <<faults, extra>>

Down == [pc |-> "down", stmt |-> 1, host |-> None, session |-> None]

Ports == {"ssh", "manage"}

\* meta.sqlite3
Meta == [schema |-> schema, admin |-> admin]

\* The names initDB creates; the second idx_name, meant for admins, is there already.
Stmts == <<"users", "idx_name", "containers", "idx_cid_uid", "admins", "idx_name">>

AdminInit ==
  /\ proc = [p \in Procs |-> Down]
  /\ port = [a \in Ports |-> None]
  /\ schema = {}
  /\ admin = None
  /\ before = Meta
  /\ hostFile = None
  /\ sessFile = None
  /\ synced = {}
  /\ jar = [b \in Browsers |-> None]
  /\ met = {}
  /\ faults = 0
  /\ extra = 0

At(p, l) == proc[p].pc = l
Goto(p, l) == proc' = [proc EXCEPT ![p].pc = l]

\* log.Fatal: the process ends, the system closes its ports.
Exit(p) ==
  /\ proc' = [proc EXCEPT ![p] = Down]
  /\ port' = [a \in Ports |-> IF port[a] = p THEN None ELSE port[a]]

-----------------------------------------------------------------------------
(* main.run: initDB                                                         *)

Launch(p) ==
  /\ At(p, "down")
  /\ extra' = IF p = Main THEN extra ELSE extra + 1
  /\ extra' <= MaxExtra
  /\ Goto(p, "schema")
  /\ UNCHANGED <<port, meta, files, clients, faults>>

\* A statement that finds what it would create commits nothing.
CreateMissing(s) ==
  /\ schema' = schema \union {s}
  /\ before' = IF s \in schema THEN before ELSE Meta

\* Mutant: without `if not exists'.
InitDB_again(p) ==
  LET s == Stmts[proc[p].stmt]
      last == proc[p].stmt = Len(Stmts)
  IN /\ At(p, "schema")
     /\ \/ /\ s \notin schema \/ last
           /\ CreateMissing(s)
           /\ proc' = [proc EXCEPT ![p].stmt = IF last THEN @ ELSE @ + 1,
                                   ![p].pc = IF last THEN "host" ELSE @]
           /\ UNCHANGED port
        \/ /\ s \in schema /\ ~last
           /\ Exit(p)
           /\ UNCHANGED <<schema, before>>
     /\ UNCHANGED <<admin, files, clients, bounds>>

\* Mutant: a statement that fails does not end the loop.
InitDB_goesOn(p) ==
  LET last == proc[p].stmt = Len(Stmts)
  IN /\ At(p, "schema")
     /\ CreateMissing(Stmts[proc[p].stmt]) \/ UNCHANGED <<schema, before>>
     /\ proc' = [proc EXCEPT ![p].stmt = IF last THEN @ ELSE @ + 1,
                             ![p].pc = IF last THEN "host" ELSE @]
     /\ UNCHANGED <<port, admin, files, clients, bounds>>

\* One statement of the loop.
InitDB(p) ==
  LET last == proc[p].stmt = Len(Stmts)
  IN /\ At(p, "schema")
     /\ CreateMissing(Stmts[proc[p].stmt])
     /\ proc' = [proc EXCEPT ![p].stmt = IF last THEN @ ELSE @ + 1,
                             ![p].pc = IF last THEN "host" ELSE @]
     /\ UNCHANGED <<port, admin, files, clients, bounds>>

-----------------------------------------------------------------------------
(* sshd.New                                                                 *)

Values(field) == {proc[p][field] : p \in Procs}

NewHostKey == CHOOSE k \in Keys : k \notin {hostFile} \union Values("host") \union met
NewSessionKey == CHOOSE k \in Keys :
  k \notin {sessFile} \union Values("session") \union
           {jar[b].key : b \in {a \in Browsers : jar[a] # None}}

\* Mutant: a key is made whether there is one or not.
LookForHostKey_not(p) ==
  /\ At(p, "host")
  /\ Goto(p, "newhost")
  /\ UNCHANGED <<port, meta, files, clients, bounds>>

\* A file that can be opened, or cannot for any other reason than its absence,
\* is left alone.
LookForHostKey(p) ==
  /\ At(p, "host")
  /\ Goto(p, IF hostFile = None THEN "newhost" ELSE "readhost")
  /\ UNCHANGED <<port, meta, files, clients, bounds>>

\* ioutil.WriteFile empties the file, then writes.
CreateHostKey(p) ==
  /\ At(p, "newhost")
  /\ proc' = [proc EXCEPT ![p].pc = "fillhost", ![p].host = NewHostKey]
  /\ hostFile' = Cut
  /\ synced' = synced \ {"host"}
  /\ UNCHANGED <<port, meta, sessFile, clients, bounds>>

FillHostKey(p) ==
  /\ At(p, "fillhost")
  /\ hostFile' = proc[p].host
  /\ synced' = synced \ {"host"}
  /\ Goto(p, "readhost")
  /\ UNCHANGED <<port, meta, sessFile, clients, bounds>>

\* Mutant: the key is not parsed.
ReadHostKey_any(p) ==
  /\ At(p, "readhost")
  /\ proc' = [proc EXCEPT ![p].pc = "session", ![p].host = hostFile]
  /\ UNCHANGED <<port, meta, files, clients, bounds>>

\* initServerConfig: ssh.ParsePrivateKey refuses what is not a whole key.
ReadHostKey(p) ==
  /\ At(p, "readhost")
  /\ IF hostFile \in Keys
       THEN /\ proc' = [proc EXCEPT ![p].pc = "session", ![p].host = hostFile]
            /\ UNCHANGED port
       ELSE Exit(p)
  /\ UNCHANGED <<meta, files, clients, bounds>>

-----------------------------------------------------------------------------
(* manager.New: genSessionKey, addDefaultUser                               *)

\* Mutant: the key in the file is not looked for.
ReadSessionKey_not(p) ==
  /\ At(p, "session")
  /\ Goto(p, "newsession")
  /\ UNCHANGED <<port, meta, files, clients, bounds>>

\* Whatever the file holds is the key; without a file one is made.
ReadSessionKey(p) ==
  /\ At(p, "session")
  /\ proc' = [proc EXCEPT ![p].pc = IF sessFile = None THEN "newsession" ELSE "count",
                          ![p].session = sessFile]
  /\ UNCHANGED <<port, meta, files, clients, bounds>>

\* Any other error of ReadFile counts as `no file': a new key takes the place of the
\* one in the file, and the sessions it had kept have ended.
ReadSessionFails(p) ==
  /\ At(p, "session")
  /\ sessFile # None
  /\ faults < MaxFaults
  /\ Goto(p, "newsession")
  /\ jar' = [b \in Browsers |-> IF jar[b] = None THEN None ELSE [jar[b] EXCEPT !.kept = FALSE]]
  /\ faults' = faults + 1
  /\ UNCHANGED <<port, meta, files, met, extra>>

CreateSessionKey(p) ==
  /\ At(p, "newsession")
  /\ proc' = [proc EXCEPT ![p].pc = "fillsession", ![p].session = NewSessionKey]
  /\ sessFile' = Cut
  /\ synced' = synced \ {"session"}
  /\ UNCHANGED <<port, meta, hostFile, clients, bounds>>

FillSessionKey(p) ==
  /\ At(p, "fillsession")
  /\ sessFile' = proc[p].session
  /\ synced' = synced \ {"session"}
  /\ Goto(p, "count")
  /\ UNCHANGED <<port, meta, hostFile, clients, bounds>>

\* The key cannot be written: it is used all the same.
WriteFails(p) ==
  /\ faults < MaxFaults
  /\ \/ At(p, "newsession") /\ proc' = [proc EXCEPT ![p].pc = "count", ![p].session = NewSessionKey]
     \/ At(p, "fillsession") /\ Goto(p, "count")
  /\ faults' = faults + 1
  /\ UNCHANGED <<port, meta, files, clients, extra>>

CountAdmins(p) ==
  /\ At(p, "count")
  /\ Goto(p, IF admin = None THEN "insert" ELSE "listen")
  /\ UNCHANGED <<port, meta, files, clients, bounds>>

\* Mutant: `insert or replace'.
InsertAdmin_replace(p) ==
  /\ At(p, "insert")
  /\ admin' = Default
  /\ before' = Meta
  /\ Goto(p, "listen")
  /\ UNCHANGED <<port, schema, files, clients, bounds>>

\* admins.name is unique: an account made meanwhile makes the insertion fail.
InsertAdmin(p) ==
  /\ At(p, "insert")
  /\ IF admin = None
       THEN admin' = Default /\ before' = Meta /\ Goto(p, "listen") /\ UNCHANGED port
       ELSE Exit(p) /\ UNCHANGED <<admin, before>>
  /\ UNCHANGED <<schema, files, clients, bounds>>

-----------------------------------------------------------------------------
(* sshd.Start and Manager.Start: two goroutines, two ports; each serves as  *)
(* soon as it has its port, and ends the process if it cannot have it.      *)

Listen(p, a) ==
  /\ At(p, "listen")
  /\ port[a] # p
  /\ IF port[a] = None THEN port' = [port EXCEPT ![a] = p] /\ UNCHANGED proc
                       ELSE Exit(p)
  /\ UNCHANGED <<meta, files, clients, bounds>>

Alone(p) == \A q \in Procs \ {p} : At(q, "down")

\* The file holds the key in use, on the disk, and no other start is under way.
KeptHost(p) == hostFile = proc[p].host /\ "host" \in synced /\ Alone(p)
KeptSession(p) == sessFile = proc[p].session /\ "session" \in synced /\ Alone(p)

\* A client is shown the host key.
Connect(p) ==
  /\ port["ssh"] = p
  /\ met' = IF KeptHost(p) THEN met \union {proc[p].host} ELSE met
  /\ UNCHANGED <<proc, port, meta, files, jar, bounds>>

\* POST /api/login; the password is compared with the row as it was read.
Login(p, b, pw) ==
  /\ port["manage"] = p
  /\ pw = admin
  /\ jar' = [jar EXCEPT ![b] = [key |-> proc[p].session, kept |-> KeptSession(p)]]
  /\ UNCHANGED <<proc, port, meta, files, met, bounds>>

\* authMidware: the cookie is this server's, and its account exists.
Authorized(p, b) ==
  /\ port["manage"] = p
  /\ jar[b] # None
  /\ jar[b].key = proc[p].session
  /\ admin # None

\* DELETE /api/logout needs a session as well; the cookie loses its uid.
Logout(p, b) ==
  /\ Authorized(p, b)
  /\ jar' = [jar EXCEPT ![b] = None]
  /\ UNCHANGED <<proc, port, meta, files, met, bounds>>

ChPasswd(p, b, pw) ==
  /\ Authorized(p, b)
  /\ admin' = pw
  /\ before' = Meta
  /\ UNCHANGED <<proc, port, schema, files, clients, bounds>>

-----------------------------------------------------------------------------
\* A kill, or a statement or a write of the start that fails.
Dies(p) ==
  /\ ~At(p, "down")
  /\ faults < MaxFaults
  /\ Exit(p)
  /\ faults' = faults + 1
  /\ UNCHANGED <<meta, files, clients, extra>>

\* The operating system writes files and directories to the disk when it likes.
Sync ==
  \/ /\ synced # {"host", "session"}
     /\ synced' = {"host", "session"}
     /\ UNCHANGED <<proc, port, meta, hostFile, sessFile, clients, bounds>>
  \/ /\ before # Meta
     /\ before' = Meta
     /\ UNCHANGED <<proc, port, schema, admin, files, clients, bounds>>

\* What is left of a file that has not been synced is its name, or nothing, or all.
Left(f, v) == IF f \in synced \/ v = None THEN {v} ELSE {None, Cut, v}

\* A journal whose deletion has not reached the disk is there again, and the next
\* statement rolls the commit back.
PowerFails ==
  /\ faults < MaxFaults
  /\ before' \in {before, Meta}
  /\ schema' = before'.schema
  /\ admin' = before'.admin
  /\ proc' = [p \in Procs |-> Down]
  /\ port' = [a \in Ports |-> None]
  /\ hostFile' \in Left("host", hostFile)
  /\ sessFile' \in Left("session", sessFile)
  /\ synced' = {"host", "session"}
  /\ faults' = faults + 1
  /\ UNCHANGED <<clients, extra>>

-----------------------------------------------------------------------------
Run(p) ==
  \/ InitDB(p) \/ LookForHostKey(p) \/ CreateHostKey(p) \/ FillHostKey(p) \/ ReadHostKey(p)
  \/ ReadSessionKey(p) \/ CreateSessionKey(p) \/ FillSessionKey(p)
  \/ CountAdmins(p) \/ InsertAdmin(p) \/ \E a \in Ports : Listen(p, a)

Use(p) ==
  \/ Connect(p)
  \/ \E b \in Browsers : Logout(p, b) \/ \E pw \in Passwords : Login(p, b, pw) \/ ChPasswd(p, b, pw)

AdminNext ==
  \/ \E p \in Procs : Launch(p) \/ Run(p) \/ Use(p)
                     \/ ReadSessionFails(p) \/ WriteFails(p) \/ Dies(p)
  \/ Sync \/ PowerFails

AdminSpec == AdminInit /\ [][AdminNext]_adminVars

\* Whoever runs docker-bastion starts it again, and a process gets on.
FairAdminSpec == AdminSpec /\ WF_adminVars(Launch(Main)) /\ \A p \in Procs : WF_adminVars(Run(p))

-----------------------------------------------------------------------------
Cookies == [key : Keys \union {Cut}, kept : BOOLEAN] \union {None}

ProcType ==
  [pc : {"down", "schema", "host", "newhost", "fillhost", "readhost", "session",
         "newsession", "fillsession", "count", "insert", "listen"},
   stmt : 1..Len(Stmts), host : Keys \union {None}, session : Keys \union {Cut, None}]

\* Types; a process has a port only while it runs.
AdminTypeOK ==
  /\ proc \in [Procs -> ProcType]
  /\ port \in [Ports -> Procs \union {None}]
  /\ \A a \in Ports : port[a] # None => At(port[a], "listen")
  /\ schema \subseteq {Stmts[i] : i \in 1..Len(Stmts)}
  /\ admin \in Passwords \union {None}
  /\ before \in [schema : SUBSET {Stmts[i] : i \in 1..Len(Stmts)}, admin : Passwords \union {None}]
  /\ hostFile \in Keys \union {Cut, None}
  /\ sessFile \in Keys \union {Cut, None}
  /\ synced \subseteq {"host", "session"}
  /\ jar \in [Browsers -> Cookies]
  /\ met \subseteq Keys
  /\ faults \in 0..MaxFaults
  /\ extra \in 0..MaxExtra

\* Whoever serves has a whole schema, a host key and the administrator's account,
\* at whatever steps earlier starts have ended (main.go:40-56).
ReadyWhenServing ==
  \A p \in Procs : p \in {port["ssh"], port["manage"]} =>
    /\ schema = {Stmts[i] : i \in 1..Len(Stmts)}
    /\ admin # None
    /\ proc[p].host \in Keys

\* A host key that a client has met, and that had reached the disk, is the server's
\* for good, through kills, power failures and overlapping starts (server.go:30-40).
HostKeyKept ==
  \A p \in Procs : port["ssh"] = p /\ met # {} => met = {proc[p].host}

\* A session given out under a key that had reached the disk is accepted by every
\* server to come, through kills, power failures and overlapping starts, until a
\* start fails to read the file it finds (api.go:82-97).
SessionsKept ==
  \A b \in Browsers, p \in Procs :
    (jar[b] # None /\ port["manage"] = p) => (jar[b].kept => Authorized(p, b))

\* The password is changed by an administrator with a session only, never set back to
\* the default by a start (server.go:53-70, api.go:384-405); a power failure takes a
\* change back only if it is the last commit and has not reached the disk.
PasswordKept ==
  [][admin # None /\ admin' # admin =>
       \/ \E p \in Procs, b \in Browsers : ChPasswd(p, b, admin')
       \/ PowerFails /\ before # Meta /\ admin' = before.admin]_adminVars

\* docker-bastion serves again after any kill, power failure and failed or
\* overlapping start, unless one of them has cut the host key's file short.
ServesAgain ==
  []<>(\/ \E p \in Procs : \A a \in Ports : port[a] = p
       \/ hostFile = Cut)
=============================================================================
