---------------------------- MODULE ManagerProofs ----------------------------
(* Proofs about what the manager keeps: first Fleet, for every set of
   containers, users and requests, then Admin, for every set of processes,
   browsers and passwords and all bounds.  Fleet and Admin share no name, so
   that one module can speak of both; they share no variable either. *)
EXTENDS Fleet, Admin, FiniteSetTheorems, TLAPS

-----------------------------------------------------------------------------
(* Fleet.  The inductive invariant: what a handler and the ticker remember of the
   daemon is still true when they act on it. *)

\* A handler that has come to the point where it changes the table has a
\* container in hand, and the one that forgets a container has removed it.
HandlersKnow ==
  \A q \in Reqs :
    /\ reqs[q].pc \in {"insert", "start", "remove", "unlist"} =>
         reqs[q].cid \in Cids /\ Born(reqs[q].cid)
    /\ reqs[q].pc = "unlist" => ~ Exists(reqs[q].cid)

\* The ticker's list misses only containers younger than the list.
ListIsComplete ==
  ticker.pc = "listed" => \A c \in Cids : Exists(c) => c \in ticker.ids \/ c \in fresh

IInv == TypeOK /\ HandlersKnow /\ ListIsComplete

\* The invariant is inductive.
THEOREM Knowledge == Spec => []IInv
<1> USE FleetAssumption
<1>1. Init => IInv
  BY DEF Init, IInv, TypeOK, HandlersKnow, ListIsComplete, States, Done, Waiting
<1>2. IInv /\ [Next]_vars => IInv'
  <2> SUFFICES ASSUME IInv, [Next]_vars
               PROVE  IInv'
    OBVIOUS
  <2> USE DEF IInv, TypeOK, HandlersKnow, ListIsComplete, States, Exists, Born
  <2>1. ASSUME NEW c \in Cids, DockerCreate(c)
        PROVE  IInv'
    BY <2>1 DEF DockerCreate, Bear
  <2>2. ASSUME NEW c \in Cids, DockerRun(c)
        PROVE  IInv'
    BY <2>2 DEF DockerRun
  <2>3. ASSUME NEW q \in Reqs, PostContainer(q)
        PROVE  IInv'
    BY <2>3 DEF PostContainer, Step
  <2>4. ASSUME NEW q \in Reqs, Created(q)
        PROVE  IInv'
    BY <2>4 DEF Created, Bear, Finish, Done
  <2>5. ASSUME NEW q \in Reqs, ImageMissing(q)
        PROVE  IInv'
    BY <2>5 DEF ImageMissing, Step, Finish, Done
  <2>6. ASSUME NEW q \in Reqs, Pulled(q)
        PROVE  IInv'
    BY <2>6 DEF Pulled, Step
  <2>7. ASSUME NEW q \in Reqs, CreateFails(q)
        PROVE  IInv'
    BY <2>7 DEF CreateFails, Finish, Done
  <2>8. ASSUME NEW q \in Reqs, InsertRow(q)
        PROVE  IInv'
    BY <2>8 DEF InsertRow, Step, Finish, Done, NoUser
  <2>9. ASSUME NEW q \in Reqs, Start(q)
        PROVE  IInv'
    BY <2>9 DEF Start, Finish, Done
  <2>10. ASSUME NEW q \in Reqs, RemoveContainer(q)
        PROVE  IInv'
    BY <2>10 DEF RemoveContainer, Step, Finish, Done
  <2>11. ASSUME NEW q \in Reqs, Unlist(q)
        PROVE  IInv'
    BY <2>11 DEF Unlist, Finish, Done, DeleteByCid
  <2>12. ASSUME NEW q \in Reqs, NEW c \in Cids, DeleteContainer(q, c)
        PROVE  IInv'
    BY <2>12 DEF DeleteContainer
  <2>13. ASSUME NEW i \in Uids, NEW k \in Cids \cup OtherKeys, Grant(i, k)
        PROVE  IInv'
    BY <2>13 DEF Grant
  <2>14. ASSUME NEW r \in rows, Revoke(r)
        PROVE  IInv'
    BY <2>14 DEF Revoke
  <2>15. ASSUME NEW i \in Uids, DeleteUser(i)
        PROVE  IInv'
    BY <2>15 DEF DeleteUser, DeleteGrantsOf
  <2>16. CASE List
    BY <2>16 DEF List, Listed
  <2>17. CASE Purge
    BY <2>17 DEF Purge, Purged, PurgeExcept, Waiting
  <2>18. CASE PurgeFails
    BY <2>18 DEF PurgeFails, Waiting
  <2>19. CASE Restart
    BY <2>19 DEF Restart, Done, Waiting
  <2>20. CASE UNCHANGED vars
    BY <2>20 DEF vars
  <2> QED
    BY <2>1, <2>2, <2>3, <2>4, <2>5, <2>6, <2>7, <2>8, <2>9, <2>10,
       <2>11, <2>12, <2>13, <2>14, <2>15, <2>16, <2>17, <2>18, <2>19, <2>20
       DEF Next, Handler
<1> QED
  BY <1>1, <1>2, PTL DEF Spec

-----------------------------------------------------------------------------
(* What follows from it *)

\* Every variable keeps its type.
THEOREM TypeCorrect == Spec => []TypeOK
<1>1. IInv => TypeOK
  BY DEF IInv
<1> QED
  BY <1>1, Knowledge, PTL

\* Neither a deletion that was refused nor a purge takes a row about a container
\* that exists, unless the container is younger than the list purged by.
THEOREM GrantsAreKept == Spec => GrantsLostOnlyWithContainer
<1> DEFINE A == \A r \in rows \ rows' :
                  \/ Revoke(r)
                  \/ DeleteUser(r.user_id)
                  \/ r.cid \notin Cids
                  \/ ~ Exists(r.cid)
                  \/ r.cid \in fresh
<1>1. IInv /\ [Next]_vars => [A]_vars
  <2> SUFFICES ASSUME IInv, Next, NEW r \in rows, r \notin rows', r.cid \in Cids
               PROVE  \/ Revoke(r)
                      \/ DeleteUser(r.user_id)
                      \/ ~ Exists(r.cid)
                      \/ r.cid \in fresh
    OBVIOUS
  <2>1. ASSUME NEW q \in Reqs, Unlist(q)
        PROVE  ~ Exists(r.cid)
    BY <2>1 DEF Unlist, DeleteByCid, IInv, HandlersKnow
  <2>2. ASSUME Purge
        PROVE  ~ Exists(r.cid) \/ r.cid \in fresh
    BY <2>2 DEF Purge, Purged, PurgeExcept, IInv, ListIsComplete
  <2>3. ASSUME NEW x \in rows, Revoke(x)
        PROVE  Revoke(r)
    <3>1. x = r
      BY <2>3 DEF Revoke
    <3> QED
      BY <2>3, <3>1
  <2>4. ASSUME NEW i \in Uids, DeleteUser(i)
        PROVE  DeleteUser(r.user_id)
    <3>1. r.user_id = i
      BY <2>4 DEF DeleteUser, DeleteGrantsOf
    <3> QED
      BY <2>4, <3>1
  <2>5. CASE rows \subseteq rows'
    BY <2>5
  <2>6. ASSUME NEW q \in Reqs, Handler(q), ~ Unlist(q)
        PROVE  rows \subseteq rows'
    BY <2>6 DEF Handler, PostContainer, Created, ImageMissing, Pulled, CreateFails,
                InsertRow, Start, DeleteContainer, RemoveContainer
  <2>7. \/ \E c \in Cids : DockerCreate(c) \/ DockerRun(c)
        \/ \E i \in Uids, k \in Cids \cup OtherKeys : Grant(i, k)
        \/ List \/ PurgeFails \/ Restart
        => rows \subseteq rows'
    BY DEF DockerCreate, DockerRun, Grant, List, PurgeFails, Restart
  <2> QED
    BY <2>1, <2>2, <2>3, <2>4, <2>5, <2>6, <2>7 DEF Next
<1> QED
  BY <1>1, Knowledge, PTL DEF Spec, GrantsLostOnlyWithContainer

-----------------------------------------------------------------------------
(* Admin.  The inductive invariant: a process that has come to a step has
   done what comes before it; a host key that a client has met, and a session
   key under which a session has been given out, are the file's, have reached
   the disk, and no process is about to write another or holds one. *)

AllStmts == {Stmts[i] : i \in 1..Len(Stmts)}

\* From where on a process has a host key, and a session key
HasHost == {"session", "newsession", "fillsession", "count", "insert", "listen"}
HasSession == {"fillsession", "count", "insert", "listen"}

\* What a process that has come to a step has done before.
StepsDone(p) ==
  /\ At(p, "down") => proc[p].stmt = 1
  /\ At(p, "schema") => {Stmts[i] : i \in 1..proc[p].stmt - 1} \subseteq schema
  /\ ~At(p, "down") /\ ~At(p, "schema") => schema = AllStmts
  /\ proc[p].pc \in HasHost \union {"fillhost"} => proc[p].host \in Keys
  /\ proc[p].pc \in HasSession => proc[p].session \in Keys \union {Cut}
  /\ At(p, "listen") => admin # None

\* A process that does not write the host key and has read no other
HostAgrees(r) ==
  r.pc \notin {"newhost", "fillhost"} /\ (r.pc \in HasHost => r.host = hostFile)

SessionAgrees(r) ==
  r.pc \notin {"newsession", "fillsession"} /\ (r.pc \in HasSession => r.session = sessFile)

\* A host key that has been met is on the disk for good.
MetIsKept ==
  met # {} => /\ met = {hostFile} /\ hostFile \in Keys /\ "host" \in synced
              /\ \A p \in Procs : HostAgrees(proc[p])

\* So is a session key under which a session has been given out.
JarIsKept ==
  \A b \in Browsers : jar[b] # None /\ jar[b].kept =>
    /\ sessFile = jar[b].key /\ sessFile # None /\ "session" \in synced
    /\ \A p \in Procs : SessionAgrees(proc[p])

AdminInv == AdminTypeOK /\ (\A p \in Procs : StepsDone(p)) /\ MetIsKept /\ JarIsKept

-----------------------------------------------------------------------------
(* There are keys enough.                                                   *)

LEMMA OneMoreKey ==
  ASSUME NEW S, IsFiniteSet(S), Cardinality(S) < Cardinality(Keys)
  PROVE  \E k \in Keys : k \notin S
<1> SUFFICES ASSUME Keys \subseteq S PROVE FALSE
  OBVIOUS
<1>1. Cardinality(Keys) <= Cardinality(S)  BY FS_Subset
<1>2. Cardinality(Keys) \in Nat /\ Cardinality(S) \in Nat
  BY FS_CardinalityType, AdminAssumption
<1> QED  BY <1>1, <1>2

LEMMA ImageIsSmall ==
  ASSUME NEW S, IsFiniteSet(S), NEW f, f = [x \in S |-> f[x]]
  PROVE  /\ IsFiniteSet({f[x] : x \in S})
         /\ Cardinality({f[x] : x \in S}) <= Cardinality(S)
<1>1. f \in Surjection(S, {f[x] : x \in S})  BY DEF Surjection
<1> QED  BY <1>1, FS_Surjection

LEMMA ValuesAreFew ==
  ASSUME NEW field
  PROVE  /\ IsFiniteSet(Values(field)) /\ Cardinality(Values(field)) \in Nat
         /\ Cardinality(Values(field)) <= Cardinality(Procs)
<1>1. PICK f : f = [p \in Procs |-> proc[p][field]]  OBVIOUS
<1>2. Values(field) = {f[p] : p \in Procs}  BY <1>1 DEF Values
<1>3. f = [p \in Procs |-> f[p]] /\ IsFiniteSet(Procs)  BY <1>1, AdminAssumption
<1>4. IsFiniteSet(Values(field)) /\ Cardinality(Values(field)) <= Cardinality(Procs)
  BY <1>2, <1>3, ImageIsSmall
<1> QED  BY <1>4, FS_CardinalityType

LEMMA FreshHostKey ==
  ASSUME AdminInv
  PROVE  NewHostKey \in Keys
<1> DEFINE V == Values("host")
           S == {hostFile} \union V \union met
<1>1. IsFiniteSet(V) /\ Cardinality(V) \in Nat /\ Cardinality(V) <= Cardinality(Procs)
  BY ValuesAreFew
<1>2. S = V \union {hostFile}  BY DEF AdminInv, MetIsKept
<1> HIDE DEF V, S
<1>3. IsFiniteSet(S) /\ Cardinality(S) <= Cardinality(V) + 1
  BY <1>1, <1>2, FS_AddElement
<1>4. Cardinality(S) < Cardinality(Keys)
  <2>1. /\ Cardinality(Procs) \in Nat /\ Cardinality(Browsers) \in Nat
        /\ Cardinality(S) \in Nat /\ Cardinality(Keys) \in Nat
    BY <1>3, FS_CardinalityType, AdminAssumption
  <2>2. Cardinality(Keys) > Cardinality(Procs) + Cardinality(Browsers) + 2  BY AdminAssumption
  <2> QED  BY <1>1, <1>3, <2>1, <2>2
<1>5. \E k \in Keys : k \notin S  BY <1>3, <1>4, OneMoreKey
<1> QED  BY <1>5 DEF NewHostKey, S, V

LEMMA FreshSessionKey ==
  NewSessionKey \in Keys
<1> DEFINE V == Values("session")
           B == {a \in Browsers : jar[a] # None}
           J == {jar[b].key : b \in B}
           S == {sessFile} \union V \union J
<1>1. IsFiniteSet(V) /\ Cardinality(V) \in Nat /\ Cardinality(V) <= Cardinality(Procs)
  BY ValuesAreFew
<1>2. /\ IsFiniteSet(J) /\ Cardinality(J) \in Nat /\ Cardinality(Browsers) \in Nat
      /\ Cardinality(J) <= Cardinality(Browsers)
  <2>1. /\ IsFiniteSet(B) /\ Cardinality(B) <= Cardinality(Browsers)
        /\ Cardinality(B) \in Nat /\ Cardinality(Browsers) \in Nat
    BY FS_Subset, FS_CardinalityType, AdminAssumption
  <2>2. PICK f : f = [b \in B |-> jar[b].key]  OBVIOUS
  <2>3. J = {f[b] : b \in B} /\ f = [b \in B |-> f[b]]  BY <2>2
  <2> HIDE DEF J, B
  <2>4. IsFiniteSet(J) /\ Cardinality(J) <= Cardinality(B)  BY <2>1, <2>3, ImageIsSmall
  <2>5. Cardinality(J) \in Nat  BY <2>4, FS_CardinalityType
  <2> QED  BY <2>1, <2>4, <2>5
<1>3. S = (V \union J) \union {sessFile}  OBVIOUS
<1> HIDE DEF V, J, S
<1>4. /\ IsFiniteSet(V \union J) /\ Cardinality(V \union J) \in Nat
      /\ Cardinality(V \union J) <= Cardinality(V) + Cardinality(J)
  <2>1. /\ IsFiniteSet(V \union J)
        /\ Cardinality(V \union J) = Cardinality(V) + Cardinality(J) - Cardinality(V \cap J)
    BY <1>1, <1>2, FS_Union
  <2>2. IsFiniteSet(V \cap J)  BY <1>1, FS_Subset
  <2>3. Cardinality(V \cap J) \in Nat /\ Cardinality(V \union J) \in Nat
    BY <2>1, <2>2, FS_CardinalityType
  <2> QED  BY <1>1, <1>2, <2>1, <2>3
<1>5. IsFiniteSet(S) /\ Cardinality(S) <= Cardinality(V \union J) + 1
  <2>1. PICK U : U = V \union J  OBVIOUS
  <2>2. IsFiniteSet(U) /\ Cardinality(U) \in Nat /\ S = U \union {sessFile}
    BY <2>1, <1>3, <1>4
  <2>3. /\ IsFiniteSet(U \union {sessFile})
        /\ \/ Cardinality(U \union {sessFile}) = Cardinality(U)
           \/ Cardinality(U \union {sessFile}) = Cardinality(U) + 1
    BY <2>2, FS_AddElement
  <2>4. IsFiniteSet(S) /\ Cardinality(S) <= Cardinality(U) + 1  BY <2>2, <2>3
  <2> QED  BY <2>1, <2>4
<1>6. Cardinality(S) < Cardinality(Keys)
  <2>1. Cardinality(Procs) \in Nat /\ Cardinality(S) \in Nat /\ Cardinality(Keys) \in Nat
    BY <1>5, FS_CardinalityType, AdminAssumption
  <2>2. Cardinality(Keys) > Cardinality(Procs) + Cardinality(Browsers) + 2  BY AdminAssumption
  <2> QED  BY <1>1, <1>2, <1>4, <1>5, <2>1, <2>2
<1>7. \E k \in Keys : k \notin S  BY <1>5, <1>6, OneMoreKey
<1> QED  BY <1>7 DEF NewSessionKey, S, V, J
-----------------------------------------------------------------------------
(* Steps of one process                                                     *)

\* Only p goes on.
Moves(p) ==
  /\ proc' \in [Procs -> ProcType]
  /\ \A q \in Procs \ {p} : proc'[q] = proc[q]

MetaType == [schema : SUBSET AllStmts, admin : Passwords \union {None}]

\* What has been made in the database stays while no power fails.
MetaGrows ==
  /\ schema \subseteq schema' /\ schema' \subseteq AllStmts
  /\ admin # None => admin' # None
  /\ admin' \in Passwords \union {None}
  /\ before' \in {before, Meta}

Steps == {"down", "schema", "host", "newhost", "fillhost", "readhost", "session",
          "newsession", "fillsession", "count", "insert", "listen"}

LEMMA GotoMoves ==
  ASSUME AdminInv, NEW p \in Procs, NEW l \in Steps, Goto(p, l)
  PROVE  /\ Moves(p)
         /\ proc'[p].pc = l /\ proc'[p].stmt = proc[p].stmt
         /\ proc'[p].host = proc[p].host /\ proc'[p].session = proc[p].session
BY DEF AdminInv, AdminTypeOK, Goto, Moves, ProcType, Steps

LEMMA ExitMoves ==
  ASSUME AdminInv, NEW p \in Procs, Exit(p)
  PROVE  /\ Moves(p)
         /\ proc'[p].pc = "down" /\ proc'[p].stmt = 1
         /\ port' \in [Ports -> Procs \union {None}]
         /\ \A a \in Ports : port'[a] # None => port'[a] = port[a] /\ port[a] # p
<1>1. Down \in ProcType /\ Down.pc = "down" /\ Down.stmt = 1
  BY DEF Down, ProcType, Stmts
<1>2. proc' = [proc EXCEPT ![p] = Down]  BY DEF Exit
<1> HIDE DEF Down
<1>3. Moves(p) /\ proc'[p] = Down
  BY <1>1, <1>2 DEF AdminInv, AdminTypeOK, Moves
<1>4. /\ port' \in [Ports -> Procs \union {None}]
      /\ \A a \in Ports : port'[a] # None => port'[a] = port[a] /\ port[a] # p
  BY AdminAssumption DEF Exit, AdminInv, AdminTypeOK
<1> QED  BY <1>1, <1>3, <1>4

LEMMA PortsOfListeners ==
  ASSUME AdminInv, NEW p \in Procs, Moves(p),
         port' \in [Ports -> Procs \union {None}],
         \A a \in Ports : port'[a] # None =>
           \/ port'[a] = port[a] /\ port[a] # p
           \/ port'[a] = p /\ proc'[p].pc = "listen"
  PROVE  \A a \in Ports : port'[a] # None => At(port[a], "listen")'
BY DEF AdminInv, AdminTypeOK, Moves, At

LEMMA PortsStay ==
  ASSUME AdminInv, NEW p \in Procs, Moves(p), ~At(p, "listen"), UNCHANGED port
  PROVE  /\ port' \in [Ports -> Procs \union {None}]
         /\ \A a \in Ports : port'[a] # None => At(port[a], "listen")'
<1>1. port' \in [Ports -> Procs \union {None}]  BY DEF AdminInv, AdminTypeOK
<1>2. \A a \in Ports : port'[a] # None => port'[a] = port[a] /\ port[a] # p
  BY DEF AdminInv, AdminTypeOK
<1> QED  BY <1>1, <1>2, PortsOfListeners

LEMMA OthersHaveDone ==
  ASSUME AdminInv, NEW p \in Procs, Moves(p), MetaGrows, StepsDone(p)'
  PROVE  (\A q \in Procs : StepsDone(q))'
<1> SUFFICES ASSUME NEW q \in Procs, q # p PROVE StepsDone(q)'
  OBVIOUS
<1>1. proc'[q] = proc[q]  BY DEF Moves
<1>2. StepsDone(q)  BY DEF AdminInv
<1>3. schema = AllStmts => schema' = AllStmts  BY DEF MetaGrows
<1>4. {Stmts[i] : i \in 1..proc[q].stmt - 1} \subseteq schema =>
      {Stmts[i] : i \in 1..proc[q].stmt - 1} \subseteq schema'  BY DEF MetaGrows
<1>5. admin # None => admin' # None  BY DEF MetaGrows
<1> QED  BY <1>1, <1>2, <1>3, <1>4, <1>5 DEF StepsDone, At

LEMMA MetaStays ==
  ASSUME AdminInv, UNCHANGED meta
  PROVE  MetaGrows
BY DEF AdminInv, AdminTypeOK, MetaGrows, AllStmts, meta

LEMMA MetaHasType ==
  ASSUME AdminInv
  PROVE  before \in MetaType /\ Meta \in MetaType
BY DEF AdminInv, AdminTypeOK, MetaType, Meta, AllStmts

LEMMA MetaKeepsType ==
  ASSUME AdminInv, MetaGrows
  PROVE  /\ schema' \subseteq AllStmts /\ admin' \in Passwords \union {None}
         /\ before' \in MetaType
BY MetaHasType DEF MetaGrows

LEMMA HostStays ==
  ASSUME AdminInv, NEW p \in Procs, Moves(p),
         UNCHANGED met, UNCHANGED hostFile, "host" \in synced => "host" \in synced',
         met # {} => HostAgrees(proc[p])'
  PROVE  MetIsKept'
BY DEF AdminInv, MetIsKept, HostAgrees, Moves

LEMMA SessionStays ==
  ASSUME AdminInv, NEW p \in Procs, Moves(p),
         UNCHANGED jar, UNCHANGED sessFile, "session" \in synced => "session" \in synced',
         SessionAgrees(proc[p]) /\ sessFile # None => SessionAgrees(proc[p])'
  PROVE  JarIsKept'
BY DEF AdminInv, JarIsKept, SessionAgrees, Moves

LEMMA OnlyProcMoves ==
  ASSUME AdminInv, NEW p \in Procs, Moves(p), StepsDone(p)',
         UNCHANGED <<meta, files, clients>>,
         faults' \in 0..MaxFaults, extra' \in 0..MaxExtra,
         port' \in [Ports -> Procs \union {None}],
         \A a \in Ports : port'[a] # None => At(port[a], "listen")',
         met # {} => HostAgrees(proc[p])',
         SessionAgrees(proc[p]) /\ sessFile # None => SessionAgrees(proc[p])'
  PROVE  AdminInv'
<1>1. MetaGrows  BY MetaStays
<1>2. (\A q \in Procs : StepsDone(q))'  BY <1>1, OthersHaveDone
<1>3. MetIsKept'  BY HostStays DEF files, clients
<1>4. JarIsKept'  BY SessionStays DEF files, clients
<1>5. AdminTypeOK'
  <2>1. proc' \in [Procs -> ProcType]  BY DEF Moves
  <2> QED  BY <2>1 DEF AdminInv, AdminTypeOK, meta, files, clients
<1> QED  BY <1>2, <1>3, <1>4, <1>5 DEF AdminInv

LEMMA ExitKeeps ==
  ASSUME AdminInv, NEW p \in Procs, Exit(p),
         UNCHANGED <<meta, files, clients>>,
         faults' \in 0..MaxFaults, extra' \in 0..MaxExtra
  PROVE  AdminInv'
<1>1. /\ Moves(p) /\ proc'[p].pc = "down" /\ proc'[p].stmt = 1
      /\ port' \in [Ports -> Procs \union {None}]
      /\ \A a \in Ports : port'[a] # None => port'[a] = port[a] /\ port[a] # p
  BY ExitMoves
<1>2. StepsDone(p)'  BY <1>1 DEF StepsDone, At, HasHost, HasSession, meta
<1>3. \A a \in Ports : port'[a] # None => At(port[a], "listen")'
  BY <1>1, PortsOfListeners
<1>4. HostAgrees(proc[p])'  BY <1>1 DEF HostAgrees, HasHost
<1>5. SessionAgrees(proc[p])'  BY <1>1 DEF SessionAgrees, HasSession
<1> QED  BY <1>1, <1>2, <1>3, <1>4, <1>5, OnlyProcMoves

\* A step of a start that changes nothing but the process.
LEMMA QuietStep ==
  ASSUME AdminInv, NEW p \in Procs, Moves(p), ~At(p, "listen"), StepsDone(p)',
         UNCHANGED <<port, meta, files, clients>>,
         faults' \in 0..MaxFaults, extra' \in 0..MaxExtra,
         met # {} => HostAgrees(proc[p])',
         SessionAgrees(proc[p]) /\ sessFile # None => SessionAgrees(proc[p])'
  PROVE  AdminInv'
<1>1. /\ port' \in [Ports -> Procs \union {None}]
      /\ \A a \in Ports : port'[a] # None => At(port[a], "listen")'
  BY PortsStay
<1> QED  BY <1>1, OnlyProcMoves

LEMMA BoundsStay ==
  ASSUME AdminInv, UNCHANGED bounds
  PROVE  faults' \in 0..MaxFaults /\ extra' \in 0..MaxExtra
BY DEF AdminInv, AdminTypeOK, bounds

-----------------------------------------------------------------------------
(* The steps of a start                                                     *)

LEMMA Launches ==
  ASSUME AdminInv, NEW p \in Procs, Launch(p)
  PROVE  AdminInv'
<1>1. /\ Moves(p) /\ proc'[p].pc = "schema" /\ proc'[p].stmt = proc[p].stmt
  <2>1. Goto(p, "schema") /\ "schema" \in Steps  BY DEF Launch, Steps
  <2> QED  BY <2>1, GotoMoves
<1>2. StepsDone(p)'
  <2>1. proc[p].stmt = 1  BY DEF AdminInv, StepsDone, Launch
  <2>2. {Stmts[i] : i \in 1..proc'[p].stmt - 1} = {}  BY <1>1, <2>1
  <2> QED  BY <1>1, <2>2 DEF StepsDone, At, HasHost, HasSession, meta
<1>3. ~At(p, "listen") /\ UNCHANGED <<port, meta, files, clients>>
  BY DEF Launch, At
<1>4. faults' \in 0..MaxFaults /\ extra' \in 0..MaxExtra
  BY AdminAssumption DEF Launch, AdminInv, AdminTypeOK
<1>5. HostAgrees(proc[p])'  BY <1>1 DEF HostAgrees, HasHost
<1>6. SessionAgrees(proc[p])'  BY <1>1 DEF SessionAgrees, HasSession
<1> QED  BY <1>1, <1>2, <1>3, <1>4, <1>5, <1>6, QuietStep

LEMMA SixStmts == Len(Stmts) = 6
BY DEF Stmts

LEMMA Creates ==
  ASSUME AdminInv, NEW p \in Procs, InitDB(p)
  PROVE  AdminInv'
<1> DEFINE n == proc[p].stmt
           m == proc'[p].stmt
<1>1. n \in 1..6 /\ proc[p] \in ProcType /\ proc \in [Procs -> ProcType]
  BY SixStmts DEF AdminInv, AdminTypeOK, ProcType
<1>2. /\ At(p, "schema") /\ schema' = schema \union {Stmts[n]}
      /\ before' \in {before, Meta}
      /\ {Stmts[i] : i \in 1..n - 1} \subseteq schema
      /\ UNCHANGED <<port, admin, files, clients, bounds>>
  BY DEF InitDB, CreateMissing, AdminInv, StepsDone
<1>3. Moves(p) /\ (IF n = 6 THEN m = n /\ proc'[p].pc = "host"
                           ELSE m = n + 1 /\ proc'[p].pc = "schema")
  <2>1. CASE n = 6
    <3>1. proc' = [proc EXCEPT ![p].pc = "host"]
      <4>1. /\ proc' = [proc EXCEPT ![p].stmt = n, ![p].pc = "host"]
        BY <2>1, SixStmts DEF InitDB
      <4> QED  BY <1>1, <4>1 DEF ProcType
    <3> QED  BY <1>1, <2>1, <3>1 DEF Moves, ProcType
  <2>2. CASE n # 6
    <3>1. proc' = [proc EXCEPT ![p].stmt = n + 1, ![p].pc = "schema"]
      <4>1. proc' = [proc EXCEPT ![p].stmt = @ + 1, ![p].pc = @]
        BY <2>2, SixStmts DEF InitDB
      <4> QED  BY <1>1, <1>2, <4>1 DEF ProcType, At
    <3>2. n + 1 \in 1..Len(Stmts)  BY <1>1, <2>2, SixStmts
    <3> QED  BY <1>1, <2>2, <3>1, <3>2 DEF Moves, ProcType
  <2> QED  BY <2>1, <2>2
<1> HIDE DEF n, m
<1>4. {Stmts[i] : i \in 1..n} \subseteq schema'
  <2>1. \A i \in 1..n : i \in 1..n - 1 \/ i = n  BY <1>1
  <2> QED  BY <1>2, <2>1
<1>5. schema' \subseteq AllStmts /\ schema \subseteq schema'
  <2>1. schema \subseteq AllStmts  BY DEF AdminInv, AdminTypeOK, AllStmts
  <2>2. Stmts[n] \in AllStmts  BY <1>1, SixStmts DEF AllStmts
  <2> QED  BY <1>2, <2>1, <2>2
<1>6. MetaGrows  BY <1>2, <1>5 DEF MetaGrows, AdminInv, AdminTypeOK
<1>7. StepsDone(p)'
  <2>1. CASE n = 6
    <3>1. AllStmts \subseteq schema'  BY <1>4, <2>1, SixStmts DEF AllStmts
    <3> QED  BY <1>3, <1>5, <2>1, <3>1 DEF StepsDone, At, HasHost, HasSession, meta
  <2>2. CASE n # 6
    <3>1. m - 1 = n  BY <1>1, <1>3, <2>2
    <3>2. {Stmts[i] : i \in 1..proc'[p].stmt - 1} \subseteq schema'
      BY <1>4, <3>1 DEF m
    <3> QED  BY <1>3, <2>2, <3>2 DEF StepsDone, At, HasHost, HasSession, meta
  <2> QED  BY <2>1, <2>2
<1>8. (\A q \in Procs : StepsDone(q))'  BY <1>3, <1>6, <1>7, OthersHaveDone
<1>9. MetIsKept'
  <2>1. HostAgrees(proc[p])'  BY <1>3 DEF HostAgrees, HasHost
  <2> QED  BY <1>2, <1>3, <2>1, HostStays DEF files, clients
<1>10. JarIsKept'
  <2>1. SessionAgrees(proc[p])'  BY <1>3 DEF SessionAgrees, HasSession
  <2> QED  BY <1>2, <1>3, <2>1, SessionStays DEF files, clients
<1>11. AdminTypeOK'
  <2>1. proc' \in [Procs -> ProcType]  BY <1>3 DEF Moves
  <2>2. ~At(p, "listen") /\ UNCHANGED port  BY <1>2 DEF At
  <2>3. /\ port' \in [Ports -> Procs \union {None}]
        /\ \A a \in Ports : port'[a] # None => At(port[a], "listen")'
    BY <1>3, <2>2, PortsStay
  <2>4. before' \in MetaType  BY <1>6, MetaKeepsType
  <2> QED  BY <1>2, <1>5, <2>1, <2>3, <2>4
           DEF AdminInv, AdminTypeOK, MetaType, AllStmts, files, clients, bounds
<1> QED  BY <1>8, <1>9, <1>10, <1>11 DEF AdminInv

LEMMA LooksForHostKey ==
  ASSUME AdminInv, NEW p \in Procs, LookForHostKey(p)
  PROVE  AdminInv'
<1> DEFINE l == IF hostFile = None THEN "newhost" ELSE "readhost"
<1>1. Moves(p) /\ proc'[p].pc = l
  <2>1. Goto(p, l) /\ l \in Steps  BY DEF LookForHostKey, Steps
  <2> QED  BY <2>1, GotoMoves
<1>2. At(p, "host") /\ UNCHANGED <<port, meta, files, clients, bounds>>
  BY DEF LookForHostKey
<1>3. StepsDone(p)'
  <2>1. schema = AllStmts  BY <1>2 DEF AdminInv, StepsDone, At, meta
  <2> QED  BY <1>1, <1>2, <2>1 DEF StepsDone, At, HasHost, HasSession, meta
<1>4. met # {} => HostAgrees(proc[p])'
  <2>1. met # {} => hostFile # None  BY AdminAssumption DEF AdminInv, MetIsKept
  <2> QED  BY <1>1, <2>1 DEF HostAgrees, HasHost
<1>5. SessionAgrees(proc[p])'  BY <1>1 DEF SessionAgrees, HasSession
<1>6. ~At(p, "listen")  BY <1>2 DEF At
<1> QED  BY <1>1, <1>2, <1>3, <1>4, <1>5, <1>6, BoundsStay, QuietStep

LEMMA CreatesHostKey ==
  ASSUME AdminInv, NEW p \in Procs, CreateHostKey(p)
  PROVE  AdminInv'
<1>1. /\ At(p, "newhost") /\ hostFile' = Cut /\ synced' = synced \ {"host"}
      /\ UNCHANGED <<port, meta, sessFile, clients, bounds>>
  BY DEF CreateHostKey
<1>2. NewHostKey \in Keys  BY FreshHostKey
<1>3. PICK k : k = NewHostKey  OBVIOUS
<1>4. Moves(p) /\ proc'[p].pc = "fillhost" /\ proc'[p].host \in Keys
  <2>1. k \in Keys /\ proc' = [proc EXCEPT ![p].pc = "fillhost", ![p].host = k]
    BY <1>2, <1>3 DEF CreateHostKey
  <2> QED  BY <2>1 DEF Moves, AdminInv, AdminTypeOK, ProcType
<1>5. MetaGrows  BY <1>1, MetaStays
<1>6. StepsDone(p)'
  <2>1. schema = AllStmts  BY <1>1 DEF AdminInv, StepsDone, At, meta
  <2> QED  BY <1>1, <1>4, <2>1 DEF StepsDone, At, HasHost, HasSession, meta
<1>7. (\A q \in Procs : StepsDone(q))'  BY <1>4, <1>5, <1>6, OthersHaveDone
<1>8. MetIsKept'
  <2>1. met = {}  BY <1>1 DEF AdminInv, MetIsKept, HostAgrees, At
  <2> QED  BY <1>1, <2>1 DEF MetIsKept, clients
<1>9. JarIsKept'
  <2>1. SessionAgrees(proc[p])'  BY <1>4 DEF SessionAgrees, HasSession
  <2>2. "session" \in synced => "session" \in synced'  BY <1>1
  <2> QED  BY <1>1, <1>4, <2>1, <2>2, SessionStays DEF clients
<1>10. AdminTypeOK'
  <2>1. proc' \in [Procs -> ProcType]  BY <1>4 DEF Moves
  <2>2. ~At(p, "listen") /\ UNCHANGED port  BY <1>1 DEF At
  <2>3. /\ port' \in [Ports -> Procs \union {None}]
        /\ \A a \in Ports : port'[a] # None => At(port[a], "listen")'
    BY <1>4, <2>2, PortsStay
  <2> QED  BY <1>1, <2>1, <2>3 DEF AdminInv, AdminTypeOK, meta, clients, bounds
<1> QED  BY <1>7, <1>8, <1>9, <1>10 DEF AdminInv

LEMMA FillsHostKey ==
  ASSUME AdminInv, NEW p \in Procs, FillHostKey(p)
  PROVE  AdminInv'
<1>1. /\ At(p, "fillhost") /\ hostFile' = proc[p].host /\ synced' = synced \ {"host"}
      /\ UNCHANGED <<port, meta, sessFile, clients, bounds>>
  BY DEF FillHostKey
<1>2. Moves(p) /\ proc'[p].pc = "readhost"
  <2>1. Goto(p, "readhost") /\ "readhost" \in Steps  BY DEF FillHostKey, Steps
  <2> QED  BY <2>1, GotoMoves
<1>3. proc[p].host \in Keys  BY <1>1 DEF AdminInv, StepsDone, At, meta
<1>4. MetaGrows  BY <1>1, MetaStays
<1>5. StepsDone(p)'
  <2>1. schema = AllStmts  BY <1>1 DEF AdminInv, StepsDone, At, meta
  <2> QED  BY <1>1, <1>2, <2>1 DEF StepsDone, At, HasHost, HasSession, meta
<1>6. (\A q \in Procs : StepsDone(q))'  BY <1>2, <1>4, <1>5, OthersHaveDone
<1>7. MetIsKept'
  <2>1. met = {}  BY <1>1 DEF AdminInv, MetIsKept, HostAgrees, At
  <2> QED  BY <1>1, <2>1 DEF MetIsKept, clients
<1>8. JarIsKept'
  <2>1. SessionAgrees(proc[p])'  BY <1>2 DEF SessionAgrees, HasSession
  <2>2. "session" \in synced => "session" \in synced'  BY <1>1
  <2> QED  BY <1>1, <1>2, <2>1, <2>2, SessionStays DEF clients
<1>9. AdminTypeOK'
  <2>1. proc' \in [Procs -> ProcType]  BY <1>2 DEF Moves
  <2>2. ~At(p, "listen") /\ UNCHANGED port  BY <1>1 DEF At
  <2>3. /\ port' \in [Ports -> Procs \union {None}]
        /\ \A a \in Ports : port'[a] # None => At(port[a], "listen")'
    BY <1>2, <2>2, PortsStay
  <2> QED  BY <1>1, <1>3, <2>1, <2>3 DEF AdminInv, AdminTypeOK, meta, clients, bounds
<1> QED  BY <1>6, <1>7, <1>8, <1>9 DEF AdminInv

LEMMA ReadsHostKey ==
  ASSUME AdminInv, NEW p \in Procs, ReadHostKey(p)
  PROVE  AdminInv'
<1>1. At(p, "readhost") /\ UNCHANGED <<meta, files, clients, bounds>>
  BY DEF ReadHostKey
<1>2. CASE hostFile \in Keys
  <2>1. UNCHANGED port  BY <1>2 DEF ReadHostKey
  <2>2. Moves(p) /\ proc'[p].pc = "session" /\ proc'[p].host = hostFile
    <3>1. proc' = [proc EXCEPT ![p].pc = "session", ![p].host = hostFile]
      BY <1>2 DEF ReadHostKey
    <3>2. proc \in [Procs -> ProcType]  BY DEF AdminInv, AdminTypeOK
    <3> QED  BY <1>2, <3>1, <3>2 DEF Moves, ProcType
  <2>3. StepsDone(p)'
    <3>1. schema = AllStmts  BY <1>1 DEF AdminInv, StepsDone, At, meta
    <3> QED  BY <1>1, <1>2, <2>2, <3>1 DEF StepsDone, At, HasHost, HasSession, meta
  <2>4. HostAgrees(proc[p])'  BY <1>1, <2>2 DEF HostAgrees, HasHost, files
  <2>5. SessionAgrees(proc[p])'  BY <2>2 DEF SessionAgrees, HasSession
  <2>6. ~At(p, "listen")  BY <1>1 DEF At
  <2> QED  BY <1>1, <2>1, <2>2, <2>3, <2>4, <2>5, <2>6, BoundsStay, QuietStep
<1>3. CASE hostFile \notin Keys
  BY <1>1, <1>3, BoundsStay, ExitKeeps DEF ReadHostKey
<1> QED  BY <1>2, <1>3

LEMMA HostIsKnown ==
  ASSUME AdminInv, NEW p \in Procs, proc[p].pc \in HasHost
  PROVE  /\ ~At(p, "down") /\ ~At(p, "schema") /\ proc[p].host \in Keys
         /\ schema = AllStmts
         /\ met # {} => proc[p].host = hostFile
<1>1. ~At(p, "down") /\ ~At(p, "schema")  BY DEF At, HasHost
<1> QED  BY <1>1 DEF AdminInv, StepsDone, MetIsKept, HostAgrees

\* A step that leaves the host key alone, by a process that has it.
LEMMA KnownHostStays ==
  ASSUME AdminInv, NEW p \in Procs, proc[p].pc \in HasHost,
         proc'[p].pc \in HasHost, proc'[p].host = proc[p].host, UNCHANGED hostFile
  PROVE  met # {} => HostAgrees(proc[p])'
<1>1. proc'[p].pc \notin {"newhost", "fillhost"}  BY DEF HasHost
<1>2. met # {} => proc[p].host = hostFile  BY HostIsKnown
<1> QED  BY <1>1, <1>2 DEF HostAgrees

LEMMA ReadsSessionKey ==
  ASSUME AdminInv, NEW p \in Procs, ReadSessionKey(p)
  PROVE  AdminInv'
<1>1. At(p, "session") /\ UNCHANGED <<port, meta, files, clients, bounds>>
  BY DEF ReadSessionKey
<1>2. /\ Moves(p) /\ proc'[p].session = sessFile /\ proc'[p].host = proc[p].host
      /\ proc'[p].pc = IF sessFile = None THEN "newsession" ELSE "count"
  <2>1. PICK l : l = IF sessFile = None THEN "newsession" ELSE "count"  OBVIOUS
  <2>2. /\ proc' = [proc EXCEPT ![p].pc = l, ![p].session = sessFile]
        /\ l \in {"newsession", "count"}
    BY <2>1 DEF ReadSessionKey
  <2>3. proc \in [Procs -> ProcType] /\ sessFile \in Keys \union {Cut, None}
    BY DEF AdminInv, AdminTypeOK
  <2> QED  BY <2>1, <2>2, <2>3 DEF Moves, ProcType
<1>3. sessFile \in Keys \union {Cut, None}  BY DEF AdminInv, AdminTypeOK
<1>4. proc[p].pc \in HasHost  BY <1>1 DEF At, HasHost
<1>5. proc[p].host \in Keys /\ schema = AllStmts  BY <1>4, HostIsKnown
<1>6. StepsDone(p)'  BY <1>1, <1>2, <1>3, <1>5 DEF StepsDone, At, HasHost, HasSession, meta
<1>7. met # {} => HostAgrees(proc[p])'
  <2>1. proc'[p].pc \in HasHost /\ UNCHANGED hostFile  BY <1>1, <1>2 DEF HasHost, files
  <2> QED  BY <1>2, <1>4, <2>1, KnownHostStays
<1>8. SessionAgrees(proc[p]) /\ sessFile # None => SessionAgrees(proc[p])'
  BY <1>1, <1>2 DEF SessionAgrees, HasSession, files
<1>9. ~At(p, "listen")  BY <1>1 DEF At
<1> QED  BY <1>1, <1>2, <1>6, <1>7, <1>8, <1>9, BoundsStay, QuietStep

LEMMA FailsToRead ==
  ASSUME AdminInv, NEW p \in Procs, ReadSessionFails(p)
  PROVE  AdminInv'
<1>1. /\ At(p, "session") /\ faults < MaxFaults /\ faults' = faults + 1
      /\ UNCHANGED <<port, meta, files, met, extra>>
  BY DEF ReadSessionFails
<1>2. /\ Moves(p) /\ proc'[p].pc = "newsession" /\ proc'[p].host = proc[p].host
  <2>1. Goto(p, "newsession") /\ "newsession" \in Steps  BY DEF ReadSessionFails, Steps
  <2> QED  BY <2>1, GotoMoves
<1>3. proc[p].pc \in HasHost  BY <1>1 DEF At, HasHost
<1>4. proc[p].host \in Keys /\ schema = AllStmts  BY <1>3, HostIsKnown
<1>5. MetaGrows  BY <1>1, MetaStays
<1>6. StepsDone(p)'
  BY <1>1, <1>2, <1>4 DEF StepsDone, At, HasHost, HasSession, meta
<1>7. (\A q \in Procs : StepsDone(q))'  BY <1>2, <1>5, <1>6, OthersHaveDone
<1>8. MetIsKept'
  <2>1. met # {} => HostAgrees(proc[p])'
    <3>1. proc'[p].pc \in HasHost /\ UNCHANGED hostFile  BY <1>1, <1>2 DEF HasHost, files
    <3> QED  BY <1>2, <1>3, <3>1, KnownHostStays
  <2> QED  BY <1>1, <1>2, <2>1, HostStays DEF files
<1>9. jar' \in [Browsers -> Cookies] /\ \A b \in Browsers : jar'[b] # None => ~jar'[b].kept
  <2>1. jar' = [b \in Browsers |-> IF jar[b] = None THEN None ELSE [jar[b] EXCEPT !.kept = FALSE]]
    BY DEF ReadSessionFails
  <2>2. jar \in [Browsers -> Cookies]  BY DEF AdminInv, AdminTypeOK
  <2>3. ASSUME NEW b \in Browsers
        PROVE  jar'[b] \in Cookies /\ (jar'[b] # None => ~jar'[b].kept)
    <3>1. CASE jar[b] = None  BY <2>1, <3>1 DEF Cookies
    <3>2. CASE jar[b] # None
      <4>1. jar[b] \in [key : Keys \union {Cut}, kept : BOOLEAN]  BY <2>2, <3>2 DEF Cookies
      <4>2. jar'[b] = [jar[b] EXCEPT !.kept = FALSE]  BY <2>1, <3>2
      <4> QED  BY <4>1, <4>2 DEF Cookies
    <3> QED  BY <3>1, <3>2
  <2>4. jar' = [b \in Browsers |-> jar'[b]]  BY <2>1
  <2> QED  BY <2>3, <2>4
<1>10. JarIsKept'  BY <1>9 DEF JarIsKept
<1>11. AdminTypeOK'
  <2>1. proc' \in [Procs -> ProcType]  BY <1>2 DEF Moves
  <2>2. ~At(p, "listen") /\ UNCHANGED port  BY <1>1 DEF At
  <2>3. /\ port' \in [Ports -> Procs \union {None}]
        /\ \A a \in Ports : port'[a] # None => At(port[a], "listen")'
    BY <1>2, <2>2, PortsStay
  <2>4. faults' \in 0..MaxFaults /\ extra' \in 0..MaxExtra
    BY <1>1, AdminAssumption DEF AdminInv, AdminTypeOK
  <2> QED  BY <1>1, <1>9, <2>1, <2>3, <2>4 DEF AdminInv, AdminTypeOK, meta, files
<1> QED  BY <1>7, <1>8, <1>10, <1>11 DEF AdminInv

LEMMA CreatesSessionKey ==
  ASSUME AdminInv, NEW p \in Procs, CreateSessionKey(p)
  PROVE  AdminInv'
<1>1. /\ At(p, "newsession") /\ sessFile' = Cut /\ synced' = synced \ {"session"}
      /\ UNCHANGED <<port, meta, hostFile, clients, bounds>>
  BY DEF CreateSessionKey
<1>2. PICK k : k = NewSessionKey  OBVIOUS
<1>3. /\ Moves(p) /\ proc'[p].pc = "fillsession" /\ proc'[p].session \in Keys
      /\ proc'[p].host = proc[p].host
  <2>1. k \in Keys /\ proc' = [proc EXCEPT ![p].pc = "fillsession", ![p].session = k]
    BY <1>2, FreshSessionKey DEF CreateSessionKey
  <2> QED  BY <2>1 DEF Moves, AdminInv, AdminTypeOK, ProcType
<1>4. proc[p].pc \in HasHost  BY <1>1 DEF At, HasHost
<1>5. proc[p].host \in Keys /\ schema = AllStmts  BY <1>4, HostIsKnown
<1>6. MetaGrows  BY <1>1, MetaStays
<1>7. StepsDone(p)'  BY <1>1, <1>3, <1>5 DEF StepsDone, At, HasHost, HasSession, meta
<1>8. (\A q \in Procs : StepsDone(q))'  BY <1>3, <1>6, <1>7, OthersHaveDone
<1>9. MetIsKept'
  <2>1. met # {} => HostAgrees(proc[p])'
    <3>1. proc'[p].pc \in HasHost  BY <1>3 DEF HasHost
    <3> QED  BY <1>1, <1>3, <1>4, <3>1, KnownHostStays
  <2>2. "host" \in synced => "host" \in synced'  BY <1>1
  <2> QED  BY <1>1, <1>3, <2>1, <2>2, HostStays DEF clients
<1>10. JarIsKept'
  <2>1. ~SessionAgrees(proc[p])  BY <1>1 DEF SessionAgrees, At
  <2>2. \A b \in Browsers : ~(jar[b] # None /\ jar[b].kept)
    BY <2>1 DEF AdminInv, JarIsKept
  <2>3. UNCHANGED jar  BY <1>1 DEF clients
  <2> QED  BY <2>2, <2>3 DEF JarIsKept
<1>11. AdminTypeOK'
  <2>1. proc' \in [Procs -> ProcType]  BY <1>3 DEF Moves
  <2>2. ~At(p, "listen") /\ UNCHANGED port  BY <1>1 DEF At
  <2>3. /\ port' \in [Ports -> Procs \union {None}]
        /\ \A a \in Ports : port'[a] # None => At(port[a], "listen")'
    BY <1>3, <2>2, PortsStay
  <2> QED  BY <1>1, <2>1, <2>3 DEF AdminInv, AdminTypeOK, meta, clients, bounds
<1> QED  BY <1>8, <1>9, <1>10, <1>11 DEF AdminInv

LEMMA FillsSessionKey ==
  ASSUME AdminInv, NEW p \in Procs, FillSessionKey(p)
  PROVE  AdminInv'
<1>1. /\ At(p, "fillsession") /\ sessFile' = proc[p].session
      /\ synced' = synced \ {"session"}
      /\ UNCHANGED <<port, meta, hostFile, clients, bounds>>
  BY DEF FillSessionKey
<1>2. /\ Moves(p) /\ proc'[p].pc = "count"
      /\ proc'[p].host = proc[p].host /\ proc'[p].session = proc[p].session
  <2>1. Goto(p, "count") /\ "count" \in Steps  BY DEF FillSessionKey, Steps
  <2> QED  BY <2>1, GotoMoves
<1>3. proc[p].session \in Keys \union {Cut}
  BY <1>1 DEF AdminInv, StepsDone, At, meta, HasSession
<1>4. proc[p].pc \in HasHost  BY <1>1 DEF At, HasHost
<1>5. proc[p].host \in Keys /\ schema = AllStmts  BY <1>4, HostIsKnown
<1>6. MetaGrows  BY <1>1, MetaStays
<1>7. StepsDone(p)'  BY <1>1, <1>2, <1>3, <1>5 DEF StepsDone, At, HasHost, HasSession, meta
<1>8. (\A q \in Procs : StepsDone(q))'  BY <1>2, <1>6, <1>7, OthersHaveDone
<1>9. MetIsKept'
  <2>1. met # {} => HostAgrees(proc[p])'
    <3>1. proc'[p].pc \in HasHost  BY <1>2 DEF HasHost
    <3> QED  BY <1>1, <1>2, <1>4, <3>1, KnownHostStays
  <2>2. "host" \in synced => "host" \in synced'  BY <1>1
  <2> QED  BY <1>1, <1>2, <2>1, <2>2, HostStays DEF clients
<1>10. JarIsKept'
  <2>1. ~SessionAgrees(proc[p])  BY <1>1 DEF SessionAgrees, At
  <2>2. \A b \in Browsers : ~(jar[b] # None /\ jar[b].kept)
    BY <2>1 DEF AdminInv, JarIsKept
  <2>3. UNCHANGED jar  BY <1>1 DEF clients
  <2> QED  BY <2>2, <2>3 DEF JarIsKept
<1>11. AdminTypeOK'
  <2>1. proc' \in [Procs -> ProcType]  BY <1>2 DEF Moves
  <2>2. ~At(p, "listen") /\ UNCHANGED port  BY <1>1 DEF At
  <2>3. /\ port' \in [Ports -> Procs \union {None}]
        /\ \A a \in Ports : port'[a] # None => At(port[a], "listen")'
    BY <1>2, <2>2, PortsStay
  <2> QED  BY <1>1, <1>3, <2>1, <2>3 DEF AdminInv, AdminTypeOK, meta, clients, bounds
<1> QED  BY <1>8, <1>9, <1>10, <1>11 DEF AdminInv

LEMMA FailsToWrite ==
  ASSUME AdminInv, NEW p \in Procs, WriteFails(p)
  PROVE  AdminInv'
<1>1. /\ At(p, "newsession") \/ At(p, "fillsession")
      /\ UNCHANGED <<port, meta, files, clients>>
      /\ faults < MaxFaults /\ faults' = faults + 1 /\ UNCHANGED extra
  BY DEF WriteFails
<1>2. /\ Moves(p) /\ proc'[p].pc = "count" /\ proc'[p].session \in Keys \union {Cut}
      /\ proc'[p].host = proc[p].host
  <2>1. CASE Goto(p, "count") /\ At(p, "fillsession")
    <3>1. "count" \in Steps  BY DEF Steps
    <3>2. proc[p].session \in Keys \union {Cut}
      BY <2>1 DEF AdminInv, StepsDone, At, meta, HasSession
    <3> QED  BY <2>1, <3>1, <3>2, GotoMoves
  <2>2. CASE proc' = [proc EXCEPT ![p].pc = "count", ![p].session = NewSessionKey]
    <3>1. PICK k : k = NewSessionKey  OBVIOUS
    <3>2. k \in Keys /\ proc' = [proc EXCEPT ![p].pc = "count", ![p].session = k]
      BY <2>2, <3>1, FreshSessionKey
    <3> QED  BY <3>2 DEF Moves, AdminInv, AdminTypeOK, ProcType
  <2> QED  BY <2>1, <2>2 DEF WriteFails
<1>3. proc[p].pc \in HasHost /\ ~At(p, "listen")  BY <1>1 DEF At, HasHost
<1>4. proc[p].host \in Keys /\ schema = AllStmts  BY <1>3, HostIsKnown
<1>5. StepsDone(p)'  BY <1>1, <1>2, <1>4 DEF StepsDone, At, HasHost, HasSession, meta
<1>6. met # {} => HostAgrees(proc[p])'
  <2>1. proc'[p].pc \in HasHost /\ UNCHANGED hostFile  BY <1>1, <1>2 DEF HasHost, files
  <2> QED  BY <1>2, <1>3, <2>1, KnownHostStays
<1>7. ~SessionAgrees(proc[p])  BY <1>1 DEF SessionAgrees, At
<1>8. faults' \in 0..MaxFaults /\ extra' \in 0..MaxExtra
  BY <1>1, AdminAssumption DEF AdminInv, AdminTypeOK
<1> QED  BY <1>1, <1>2, <1>3, <1>5, <1>6, <1>7, <1>8, QuietStep

\* The steps after the session key is there keep both keys.
LEMMA KeysStay ==
  ASSUME AdminInv, NEW p \in Procs, proc[p].pc \in {"count", "insert", "listen"},
         NEW l \in {"count", "insert", "listen"}, Goto(p, l),
         UNCHANGED files, schema' = schema,
         l = "listen" => admin' # None
  PROVE  /\ Moves(p) /\ proc'[p].pc = l
         /\ StepsDone(p)'
         /\ met # {} => HostAgrees(proc[p])'
         /\ SessionAgrees(proc[p]) /\ sessFile # None => SessionAgrees(proc[p])'
<1>1. l \in Steps  BY DEF Steps
<1>2. /\ Moves(p) /\ proc'[p].pc = l
      /\ proc'[p].host = proc[p].host /\ proc'[p].session = proc[p].session
  BY <1>1, GotoMoves
<1>3. proc[p].pc \in HasHost /\ proc[p].pc \in HasSession /\ l \in HasHost
  BY DEF HasHost, HasSession
<1>4. proc[p].host \in Keys /\ schema = AllStmts  BY <1>3, HostIsKnown
<1>5. proc[p].session \in Keys \union {Cut}  BY <1>3 DEF AdminInv, StepsDone
<1>6. StepsDone(p)'
  BY <1>2, <1>4, <1>5 DEF StepsDone, At, HasHost, HasSession, meta
<1>7. met # {} => HostAgrees(proc[p])'
  <2>1. UNCHANGED hostFile  BY DEF files
  <2> QED  BY <1>2, <1>3, <2>1, KnownHostStays
<1>8. SessionAgrees(proc[p]) /\ sessFile # None => SessionAgrees(proc[p])'
  BY <1>2, <1>3 DEF SessionAgrees, files
<1> QED  BY <1>2, <1>6, <1>7, <1>8

LEMMA CountsAdmins ==
  ASSUME AdminInv, NEW p \in Procs, CountAdmins(p)
  PROVE  AdminInv'
<1>1. At(p, "count") /\ UNCHANGED <<port, meta, files, clients, bounds>>
  BY DEF CountAdmins
<1>2. PICK l : l = IF admin = None THEN "insert" ELSE "listen"  OBVIOUS
<1>3. Goto(p, l) /\ l \in {"count", "insert", "listen"} /\ (l = "listen" => admin' # None)
  BY <1>1, <1>2 DEF CountAdmins, meta
<1>4. /\ Moves(p) /\ StepsDone(p)'
      /\ met # {} => HostAgrees(proc[p])'
      /\ SessionAgrees(proc[p]) /\ sessFile # None => SessionAgrees(proc[p])'
  <2>1. proc[p].pc \in {"count", "insert", "listen"} /\ UNCHANGED files /\ schema' = schema
    BY <1>1 DEF At, meta
  <2> QED  BY <1>3, <2>1, KeysStay
<1>5. ~At(p, "listen")  BY <1>1 DEF At
<1> QED  BY <1>1, <1>4, <1>5, BoundsStay, QuietStep

LEMMA InsertsAdmin ==
  ASSUME AdminInv, NEW p \in Procs, InsertAdmin(p)
  PROVE  AdminInv'
<1>1. At(p, "insert") /\ UNCHANGED <<schema, files, clients, bounds>>
  BY DEF InsertAdmin
<1>2. CASE admin # None
  BY <1>1, <1>2, BoundsStay, ExitKeeps DEF InsertAdmin, meta
<1>3. CASE admin = None
  <2>1. admin' = Default /\ before' = Meta /\ Goto(p, "listen") /\ UNCHANGED port
    BY <1>3 DEF InsertAdmin
  <2>2. admin' \in Passwords /\ admin' # None  BY <2>1, AdminAssumption
  <2>3. /\ Moves(p) /\ StepsDone(p)' /\ proc'[p].pc = "listen"
        /\ met # {} => HostAgrees(proc[p])'
        /\ SessionAgrees(proc[p]) /\ sessFile # None => SessionAgrees(proc[p])'
    <3>1. /\ proc[p].pc \in {"count", "insert", "listen"} /\ UNCHANGED files
          /\ "listen" \in {"count", "insert", "listen"} /\ schema' = schema
      BY <1>1 DEF At
    <3> QED  BY <2>1, <2>2, <3>1, KeysStay
  <2>4. MetaGrows  BY <1>1, <2>1, <2>2 DEF MetaGrows, AdminInv, AdminTypeOK, AllStmts
  <2>5. (\A q \in Procs : StepsDone(q))'  BY <2>3, <2>4, OthersHaveDone
  <2>6. MetIsKept'  BY <1>1, <2>3, HostStays DEF files, clients
  <2>7. JarIsKept'  BY <1>1, <2>3, SessionStays DEF files, clients
  <2>8. AdminTypeOK'
    <3>1. proc' \in [Procs -> ProcType]  BY <2>3 DEF Moves
    <3>2. ~At(p, "listen")  BY <1>1 DEF At
    <3>3. /\ port' \in [Ports -> Procs \union {None}]
          /\ \A a \in Ports : port'[a] # None => At(port[a], "listen")'
      BY <2>1, <2>3, <3>2, PortsStay
    <3>4. before' \in MetaType  BY <2>4, MetaKeepsType
    <3> QED  BY <1>1, <2>2, <3>1, <3>3, <3>4
             DEF AdminInv, AdminTypeOK, MetaType, AllStmts, files, clients, bounds
  <2> QED  BY <2>5, <2>6, <2>7, <2>8 DEF AdminInv
<1> QED  BY <1>2, <1>3

LEMMA Listens ==
  ASSUME AdminInv, NEW p \in Procs, NEW a \in Ports, Listen(p, a)
  PROVE  AdminInv'
<1>1. At(p, "listen") /\ UNCHANGED <<meta, files, clients, bounds>>
  BY DEF Listen
<1>2. CASE port[a] # None
  BY <1>1, <1>2, BoundsStay, ExitKeeps DEF Listen
<1>3. CASE port[a] = None
  <2>1. port' = [port EXCEPT ![a] = p] /\ UNCHANGED proc  BY <1>3 DEF Listen
  <2>2. (\A q \in Procs : StepsDone(q))'
    BY <1>1, <2>1 DEF AdminInv, StepsDone, At, meta
  <2>3. MetIsKept'  BY <1>1, <2>1 DEF AdminInv, MetIsKept, HostAgrees, files, clients
  <2>4. JarIsKept'  BY <1>1, <2>1 DEF AdminInv, JarIsKept, SessionAgrees, files, clients
  <2>5. AdminTypeOK'
    BY <1>1, <2>1 DEF AdminInv, AdminTypeOK, At, meta, files, clients, bounds
  <2> QED  BY <2>2, <2>3, <2>4, <2>5 DEF AdminInv
<1> QED  BY <1>2, <1>3

-----------------------------------------------------------------------------
(* Clients, the password, the disk                                          *)

LEMMA ServerHasStarted ==
  ASSUME AdminInv, NEW p \in Procs, NEW a \in Ports, port[a] = p
  PROVE  /\ At(p, "listen")
         /\ schema = AllStmts /\ admin # None
         /\ proc[p].host \in Keys /\ proc[p].session \in Keys \union {Cut}
<1>1. At(p, "listen")  BY AdminAssumption DEF AdminInv, AdminTypeOK
<1>2. StepsDone(p)  BY DEF AdminInv
<1> QED  BY <1>1, <1>2 DEF StepsDone, At, HasHost, HasSession, meta

LEMMA Connects ==
  ASSUME AdminInv, NEW p \in Procs, Connect(p)
  PROVE  AdminInv'
<1>1. UNCHANGED <<proc, port, meta, files, jar, bounds>>  BY DEF Connect
<1>2. At(p, "listen") /\ proc[p].host \in Keys
  BY ServerHasStarted DEF Connect, Ports
<1>3. (\A q \in Procs : StepsDone(q))'  BY <1>1 DEF AdminInv, StepsDone, At, meta
<1>4. MetIsKept'
  <2>1. CASE KeptHost(p)
    <3>1. met' = met \union {hostFile}  BY <2>1 DEF Connect, KeptHost
    <3>2. hostFile \in Keys /\ "host" \in synced  BY <1>2, <2>1 DEF KeptHost
    <3>3. \A q \in Procs : HostAgrees(proc[q])
      <4>1. HostAgrees(proc[p])  BY <1>2, <2>1 DEF KeptHost, HostAgrees, At
      <4>2. ASSUME NEW q \in Procs, q # p
            PROVE  HostAgrees(proc[q])
        <5>1. proc[q].pc = "down"  BY <2>1, <4>2 DEF KeptHost, Alone, At
        <5> QED  BY <5>1 DEF HostAgrees, HasHost
      <4> QED  BY <4>1, <4>2
    <3>4. met' = {hostFile}  BY <3>1 DEF AdminInv, MetIsKept
    <3> QED  BY <1>1, <3>2, <3>3, <3>4 DEF MetIsKept, HostAgrees, files
  <2>2. CASE ~KeptHost(p)
    <3>1. met' = met  BY <2>2 DEF Connect
    <3> QED  BY <1>1, <3>1 DEF AdminInv, MetIsKept, HostAgrees, files
  <2> QED  BY <2>1, <2>2
<1>5. JarIsKept'  BY <1>1 DEF AdminInv, JarIsKept, SessionAgrees, files
<1>6. AdminTypeOK'
  <2>1. met' \subseteq Keys  BY <1>2 DEF Connect, AdminInv, AdminTypeOK
  <2> QED  BY <1>1, <2>1 DEF AdminInv, AdminTypeOK, At, meta, files, bounds
<1> QED  BY <1>3, <1>4, <1>5, <1>6 DEF AdminInv

\* A step of a browser.
LEMMA JarChanges ==
  ASSUME AdminInv, UNCHANGED <<proc, port, schema, files, met, bounds>>,
         admin' \in Passwords \union {None}, admin # None => admin' # None,
         before' \in {before, Meta}, jar' \in [Browsers -> Cookies], JarIsKept'
  PROVE  AdminInv'
<1>1. (\A q \in Procs : StepsDone(q))'  BY DEF AdminInv, StepsDone, At, meta
<1>2. MetIsKept'  BY DEF AdminInv, MetIsKept, HostAgrees, files
<1>3. before' \in MetaType  BY MetaHasType
<1>4. AdminTypeOK'
  BY <1>3 DEF AdminInv, AdminTypeOK, MetaType, AllStmts, At, files, bounds
<1> QED  BY <1>1, <1>2, <1>4 DEF AdminInv

LEMMA LogsIn ==
  ASSUME AdminInv, NEW p \in Procs, NEW b \in Browsers, NEW pw \in Passwords,
         Login(p, b, pw)
  PROVE  AdminInv'
<1>1. UNCHANGED <<proc, port, meta, files, met, bounds>>  BY DEF Login
<1>2. At(p, "listen") /\ proc[p].session \in Keys \union {Cut}
  BY ServerHasStarted DEF Login, Ports
<1>3. PICK k : k = KeptSession(p)  OBVIOUS
<1>4. k \in BOOLEAN  BY <1>3 DEF KeptSession
<1>5. PICK c : c = [key |-> proc[p].session, kept |-> k]  OBVIOUS
<1>6. c \in Cookies /\ c.key = proc[p].session /\ c.kept = k
  BY <1>2, <1>4, <1>5 DEF Cookies
<1>7. jar' = [jar EXCEPT ![b] = c]  BY <1>3, <1>5 DEF Login
<1>8. jar' \in [Browsers -> Cookies] /\ jar'[b] = c
      /\ \A a \in Browsers \ {b} : jar'[a] = jar[a]
  BY <1>6, <1>7 DEF AdminInv, AdminTypeOK
<1>9. JarIsKept'
  <2>1. ASSUME NEW a \in Browsers, jar'[a] # None, jar'[a].kept
        PROVE  /\ sessFile = jar'[a].key /\ sessFile # None /\ "session" \in synced
               /\ \A q \in Procs : SessionAgrees(proc[q])
    <3>1. CASE a # b
      <4>1. jar[a] # None /\ jar[a].kept /\ jar'[a] = jar[a]  BY <1>8, <2>1, <3>1
      <4> QED  BY <4>1 DEF AdminInv, JarIsKept
    <3>2. CASE a = b
      <4>1. KeptSession(p)  BY <1>3, <1>6, <1>8, <2>1, <3>2
      <4>2. sessFile = jar'[a].key /\ sessFile # None /\ "session" \in synced
        BY <1>2, <1>6, <1>8, <3>2, <4>1, AdminAssumption DEF KeptSession
      <4>3. SessionAgrees(proc[p])  BY <1>2, <4>1 DEF KeptSession, SessionAgrees, At
      <4>4. ASSUME NEW q \in Procs, q # p
            PROVE  SessionAgrees(proc[q])
        <5>1. proc[q].pc = "down"  BY <4>1, <4>4 DEF KeptSession, Alone, At
        <5> QED  BY <5>1 DEF SessionAgrees, HasSession
      <4> QED  BY <4>2, <4>3, <4>4
    <3> QED  BY <3>1, <3>2
  <2> QED  BY <1>1, <2>1 DEF JarIsKept, SessionAgrees, files
<1> QED  BY <1>1, <1>8, <1>9, JarChanges DEF AdminInv, AdminTypeOK, meta

LEMMA LogsOut ==
  ASSUME AdminInv, NEW p \in Procs, NEW b \in Browsers, Logout(p, b)
  PROVE  AdminInv'
<1>1. /\ UNCHANGED <<proc, port, meta, files, met, bounds>>
      /\ jar' = [jar EXCEPT ![b] = None]
  BY DEF Logout
<1>2. jar' \in [Browsers -> Cookies]  BY <1>1 DEF AdminInv, AdminTypeOK, Cookies
<1>3. \A a \in Browsers : jar'[a] # None => jar'[a] = jar[a]
  BY <1>1 DEF AdminInv, AdminTypeOK
<1>4. JarIsKept'  BY <1>1, <1>3 DEF AdminInv, JarIsKept, SessionAgrees, files
<1> QED  BY <1>1, <1>2, <1>4, JarChanges DEF AdminInv, AdminTypeOK, meta

LEMMA ChangesPassword ==
  ASSUME AdminInv, NEW p \in Procs, NEW b \in Browsers, NEW pw \in Passwords,
         ChPasswd(p, b, pw)
  PROVE  AdminInv'
<1>1. UNCHANGED <<proc, port, schema, files, clients, bounds>> /\ admin' = pw /\ before' = Meta
  BY DEF ChPasswd
<1>2. admin' \in Passwords \union {None} /\ admin' # None  BY <1>1, AdminAssumption
<1>3. jar' \in [Browsers -> Cookies]  BY <1>1 DEF AdminInv, AdminTypeOK, meta, clients
<1>4. JarIsKept'  BY <1>1 DEF AdminInv, JarIsKept, SessionAgrees, files, clients
<1>5. UNCHANGED met  BY <1>1 DEF clients
<1> QED  BY <1>1, <1>2, <1>3, <1>4, <1>5, JarChanges

LEMMA Syncs ==
  ASSUME AdminInv, Sync
  PROVE  AdminInv'
<1>1. /\ UNCHANGED <<proc, port, schema, admin, hostFile, sessFile, clients, bounds>>
      /\ synced' \in {synced, {"host", "session"}} /\ before' \in {before, Meta}
  BY DEF Sync, meta, files
<1>2. (\A q \in Procs : StepsDone(q))'  BY <1>1 DEF AdminInv, StepsDone, At, meta
<1>3. MetIsKept'  BY <1>1 DEF AdminInv, MetIsKept, HostAgrees, clients
<1>4. JarIsKept'  BY <1>1 DEF AdminInv, JarIsKept, SessionAgrees, clients
<1>5. AdminTypeOK'
  <2>1. before' \in MetaType  BY <1>1, MetaHasType
  <2> QED
    BY <1>1, <2>1 DEF AdminInv, AdminTypeOK, MetaType, AllStmts, At, clients, bounds
<1> QED  BY <1>2, <1>3, <1>4, <1>5 DEF AdminInv

LEMMA LosesPower ==
  ASSUME AdminInv, PowerFails
  PROVE  AdminInv'
<1>1. /\ port' = [a \in Ports |-> None]
      /\ hostFile' \in Left("host", hostFile) /\ sessFile' \in Left("session", sessFile)
      /\ synced' = {"host", "session"}
      /\ faults < MaxFaults /\ faults' = faults + 1
      /\ before' \in {before, Meta} /\ schema' = before'.schema /\ admin' = before'.admin
      /\ UNCHANGED <<clients, extra>>
  BY DEF PowerFails
<1>2. Down \in ProcType /\ Down.pc = "down" /\ Down.stmt = 1
  BY DEF Down, ProcType, Stmts
<1>3. proc' = [p \in Procs |-> Down]  BY DEF PowerFails
<1> HIDE DEF Down
<1>4. proc' \in [Procs -> ProcType]  BY <1>2, <1>3
<1>5. \A p \in Procs : proc'[p].pc = "down" /\ proc'[p].stmt = 1  BY <1>2, <1>3
<1>6. (\A q \in Procs : StepsDone(q))'  BY <1>5 DEF StepsDone, At, HasHost, HasSession, meta
<1>7. MetIsKept'
  <2>1. (\A q \in Procs : HostAgrees(proc[q]))'  BY <1>5 DEF HostAgrees, HasHost
  <2>2. "host" \in synced => hostFile' = hostFile  BY <1>1 DEF Left
  <2> QED  BY <1>1, <2>1, <2>2 DEF AdminInv, MetIsKept, clients
<1>8. JarIsKept'
  <2>1. (\A q \in Procs : SessionAgrees(proc[q]))'
    BY <1>5 DEF SessionAgrees, HasSession
  <2>2. "session" \in synced => sessFile' = sessFile  BY <1>1 DEF Left
  <2> QED  BY <1>1, <2>1, <2>2 DEF AdminInv, JarIsKept, clients
<1>9. AdminTypeOK'
  <2>1. hostFile' \in Keys \union {Cut, None} /\ sessFile' \in Keys \union {Cut, None}
    BY <1>1 DEF Left, AdminInv, AdminTypeOK
  <2>2. faults' \in 0..MaxFaults
    BY <1>1, AdminAssumption DEF AdminInv, AdminTypeOK
  <2>3. /\ before' \in MetaType
        /\ schema' \subseteq AllStmts /\ admin' \in Passwords \union {None}
    BY <1>1, MetaHasType DEF MetaType
  <2> QED  BY <1>1, <1>4, <2>1, <2>2, <2>3
           DEF AdminInv, AdminTypeOK, MetaType, AllStmts, clients
<1> QED  BY <1>6, <1>7, <1>8, <1>9 DEF AdminInv

LEMMA AdminStutters ==
  ASSUME AdminInv, UNCHANGED adminVars
  PROVE  AdminInv'
<1>1. UNCHANGED <<proc, port, schema, files, met, bounds, admin, before, jar>>
  BY DEF adminVars, meta, files, bounds
<1>2. JarIsKept'  BY <1>1 DEF AdminInv, JarIsKept, SessionAgrees, files
<1> QED  BY <1>1, <1>2, JarChanges DEF AdminInv, AdminTypeOK

-----------------------------------------------------------------------------
(* The theorems                                                             *)

THEOREM StartsKeepWhatTheyFind == AdminSpec => []AdminInv
<1>1. AdminInit => AdminInv
  <2> SUFFICES ASSUME AdminInit PROVE AdminInv
    OBVIOUS
  <2>1. Down \in ProcType /\ Down.pc = "down" /\ Down.stmt = 1
    BY DEF Down, ProcType, Stmts
  <2>2. proc = [p \in Procs |-> Down]  BY DEF AdminInit
  <2> HIDE DEF Down
  <2>3. \A p \in Procs : proc[p].pc = "down" /\ proc[p].stmt = 1  BY <2>1, <2>2
  <2>4. \A p \in Procs : StepsDone(p)  BY <2>3 DEF StepsDone, At, HasHost, HasSession, meta
  <2>5. MetIsKept  BY DEF AdminInit, MetIsKept
  <2>6. JarIsKept  BY DEF AdminInit, JarIsKept
  <2>7. AdminTypeOK
    <3>1. proc \in [Procs -> ProcType]  BY <2>1, <2>2
    <3>2. faults \in 0..MaxFaults /\ extra \in 0..MaxExtra
      BY AdminAssumption DEF AdminInit
    <3> QED  BY <3>1, <3>2 DEF AdminInit, AdminTypeOK, Meta, Cookies
  <2> QED  BY <2>4, <2>5, <2>6, <2>7 DEF AdminInv
<1>2. AdminInv /\ [AdminNext]_adminVars => AdminInv'
  <2> SUFFICES ASSUME AdminInv, [AdminNext]_adminVars
               PROVE  AdminInv'
    OBVIOUS
  <2>1. ASSUME NEW p \in Procs, Launch(p) PROVE AdminInv'  BY <2>1, Launches
  <2>2. ASSUME NEW p \in Procs, InitDB(p) PROVE AdminInv'  BY <2>2, Creates
  <2>3. ASSUME NEW p \in Procs, LookForHostKey(p) PROVE AdminInv'
    BY <2>3, LooksForHostKey
  <2>4. ASSUME NEW p \in Procs, CreateHostKey(p) PROVE AdminInv'  BY <2>4, CreatesHostKey
  <2>5. ASSUME NEW p \in Procs, FillHostKey(p) PROVE AdminInv'  BY <2>5, FillsHostKey
  <2>6. ASSUME NEW p \in Procs, ReadHostKey(p) PROVE AdminInv'  BY <2>6, ReadsHostKey
  <2>7. ASSUME NEW p \in Procs, ReadSessionKey(p) PROVE AdminInv'
    BY <2>7, ReadsSessionKey
  <2>8. ASSUME NEW p \in Procs, CreateSessionKey(p) PROVE AdminInv'
    BY <2>8, CreatesSessionKey
  <2>9. ASSUME NEW p \in Procs, FillSessionKey(p) PROVE AdminInv'
    BY <2>9, FillsSessionKey
  <2>10. ASSUME NEW p \in Procs, WriteFails(p) PROVE AdminInv'  BY <2>10, FailsToWrite
  <2>11. ASSUME NEW p \in Procs, CountAdmins(p) PROVE AdminInv'  BY <2>11, CountsAdmins
  <2>12. ASSUME NEW p \in Procs, InsertAdmin(p) PROVE AdminInv'  BY <2>12, InsertsAdmin
  <2>13. ASSUME NEW p \in Procs, NEW a \in Ports, Listen(p, a) PROVE AdminInv'
    BY <2>13, Listens
  <2>14. ASSUME NEW p \in Procs, Connect(p) PROVE AdminInv'  BY <2>14, Connects
  <2>15. ASSUME NEW p \in Procs, NEW b \in Browsers, NEW pw \in Passwords,
                Login(p, b, pw)
         PROVE  AdminInv'
    BY <2>15, LogsIn
  <2>16. ASSUME NEW p \in Procs, NEW b \in Browsers, Logout(p, b) PROVE AdminInv'
    BY <2>16, LogsOut
  <2>17. ASSUME NEW p \in Procs, NEW b \in Browsers, NEW pw \in Passwords,
                ChPasswd(p, b, pw)
         PROVE  AdminInv'
    BY <2>17, ChangesPassword
  <2>18. ASSUME NEW p \in Procs, Dies(p) PROVE AdminInv'
    <3>1. /\ Exit(p) /\ faults < MaxFaults /\ faults' = faults + 1 /\ UNCHANGED extra
          /\ UNCHANGED <<meta, files, clients>>
      BY <2>18 DEF Dies
    <3>2. faults' \in 0..MaxFaults /\ extra' \in 0..MaxExtra
      BY <3>1, AdminAssumption DEF AdminInv, AdminTypeOK
    <3> QED  BY <3>1, <3>2, ExitKeeps
  <2>19. ASSUME Sync PROVE AdminInv'  BY <2>19, Syncs
  <2>20. ASSUME PowerFails PROVE AdminInv'  BY <2>20, LosesPower
  <2>21. ASSUME UNCHANGED adminVars PROVE AdminInv'  BY <2>21, AdminStutters
  <2>22. CASE \E p \in Procs : Run(p)
    BY <2>22, <2>2, <2>3, <2>4, <2>5, <2>6, <2>7, <2>8, <2>9, <2>11, <2>12, <2>13 DEF Run
  <2>23. CASE \E p \in Procs : Use(p)
    BY <2>23, <2>14, <2>15, <2>16, <2>17 DEF Use
  <2>24. ASSUME NEW p \in Procs, ReadSessionFails(p) PROVE AdminInv'  BY <2>24, FailsToRead
  <2> QED
    BY <2>1, <2>10, <2>18, <2>19, <2>20, <2>21, <2>22, <2>23, <2>24 DEF AdminNext
<1> QED  BY <1>1, <1>2, PTL DEF AdminSpec

\* Every process, file and cookie has its type, and whoever has a port is running:
\* log.Fatal gives both ports back at once (main.go:40-60).
THEOREM AdminTypeCorrect == AdminSpec => []AdminTypeOK
<1>1. AdminInv => AdminTypeOK  BY DEF AdminInv
<1> QED  BY <1>1, StartsKeepWhatTheyFind, PTL

\* Nobody serves before the schema, the host key and the administrator are there,
\* at whatever steps earlier and overlapping starts have ended (main.go:40-56).
THEOREM ServersAreReady == AdminSpec => []ReadyWhenServing
<1>1. AdminInv => ReadyWhenServing
  BY ServerHasStarted DEF ReadyWhenServing, AllStmts, Ports
<1> QED  BY <1>1, StartsKeepWhatTheyFind, PTL

\* No start makes a second host key once a client has met one that is on the disk
\* (server.go:30-40).
THEOREM HostKeyIsForGood == AdminSpec => []HostKeyKept
<1>1. AdminInv => HostKeyKept
  <2> SUFFICES ASSUME AdminInv, NEW p \in Procs, port["ssh"] = p, met # {}
               PROVE  met = {proc[p].host}
    BY DEF HostKeyKept
  <2>1. At(p, "listen")  BY ServerHasStarted DEF Ports
  <2>2. met = {hostFile} /\ HostAgrees(proc[p])  BY DEF AdminInv, MetIsKept
  <2> QED  BY <2>1, <2>2 DEF HostAgrees, At, HasHost
<1> QED  BY <1>1, StartsKeepWhatTheyFind, PTL

\* A session outlives the server that gave it, once its key is on the disk, until a
\* start fails to read that key (api.go:82-97).
THEOREM SessionsOutlive == AdminSpec => []SessionsKept
<1>1. AdminInv => SessionsKept
  <2> SUFFICES ASSUME AdminInv, NEW b \in Browsers, NEW p \in Procs,
                      jar[b] # None, port["manage"] = p, jar[b].kept
               PROVE  Authorized(p, b)
    BY DEF SessionsKept
  <2>1. At(p, "listen") /\ admin # None  BY ServerHasStarted DEF Ports
  <2>2. sessFile = jar[b].key /\ SessionAgrees(proc[p])  BY DEF AdminInv, JarIsKept
  <2> QED  BY <2>1, <2>2 DEF SessionAgrees, At, HasSession, Authorized
<1> QED  BY <1>1, StartsKeepWhatTheyFind, PTL

\* A start adds the administrator only when there is none, and its insertion fails
\* otherwise (server.go:53-70): only an administrator changes the password, and only
\* a power failure takes a change back, the last commit and no older one.
THEOREM StartsKeepThePassword == AdminSpec => PasswordKept
<1> DEFINE Why == \/ \E p \in Procs, b \in Browsers : ChPasswd(p, b, admin')
                  \/ PowerFails /\ before # Meta /\ admin' = before.admin
<1>1. [AdminNext]_adminVars => [admin # None /\ admin' # admin => Why]_adminVars
  <2> SUFFICES ASSUME AdminNext, admin # None, admin' # admin
               PROVE  Why
    OBVIOUS
  <2>1. ASSUME NEW p \in Procs, Run(p)
        PROVE  UNCHANGED admin
    BY <2>1 DEF Run, InitDB, LookForHostKey, CreateHostKey, FillHostKey, ReadHostKey,
                ReadSessionKey, CreateSessionKey, FillSessionKey, CountAdmins,
                InsertAdmin, Listen, meta
  <2>2. ASSUME NEW p \in Procs, Launch(p) \/ ReadSessionFails(p) \/ WriteFails(p) \/ Dies(p)
        PROVE  UNCHANGED admin
    BY <2>2 DEF Launch, ReadSessionFails, WriteFails, Dies, meta
  <2>3. Sync => UNCHANGED admin
    BY DEF Sync, meta
  <2>4. CASE PowerFails
    <3>1. Meta.admin = admin  BY DEF Meta
    <3>2. before' \in {before, Meta} /\ admin' = before'.admin  BY <2>4 DEF PowerFails
    <3> QED  BY <2>4, <3>1, <3>2
  <2>5. CASE \E p \in Procs : Use(p)
    <3>1. PICK p \in Procs : Use(p)  BY <2>5
    <3>2. PICK b \in Browsers, pw \in Passwords : ChPasswd(p, b, pw)
      BY <3>1 DEF Use, Connect, Logout, Login, meta
    <3>3. pw = admin'  BY <3>2 DEF ChPasswd
    <3> QED  BY <3>2, <3>3
  <2> QED  BY <2>1, <2>2, <2>3, <2>4, <2>5 DEF AdminNext
<1> QED  BY <1>1, PTL DEF AdminSpec, PasswordKept
=============================================================================
