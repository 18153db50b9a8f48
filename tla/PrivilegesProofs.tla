-------------------------- MODULE PrivilegesProofs --------------------------
(* Proofs about Privileges and about Bastion, for every value of their constants. *)
EXTENDS Bastion, TLAPS

-----------------------------------------------------------------------------
(* The type invariant *)

\* Every value the tables, the pages and the connections ever hold has its type
\* (all handlers and passwordCallback).
THEOREM TypeCorrect == Spec => []TypeOK
<1>1. Init => TypeOK
  BY PrivilegesAssumption DEF Init, TypeOK, Blank, Idle, Page, Conn, NoUser
<1>2. TypeOK /\ [Next]_vars => TypeOK'
  <2> SUFFICES ASSUME TypeOK, [Next]_vars
               PROVE  TypeOK'
    OBVIOUS
  <2> USE DEF TypeOK, User, Priv, Credential, Page, Conn
  <2>1. ASSUME NEW n \in Names, NEW p \in Passwords, AddUser(n, p)
        PROVE  TypeOK'
    BY <2>1 DEF AddUser
  <2>2. ASSUME NEW p \in Pages, Users(p)
        PROVE  TypeOK'
    BY <2>2 DEF Users
  <2>3. ASSUME NEW p \in Pages, NEW e \in pages[p].users, DeleteUser(p, e)
        PROVE  TypeOK'
    BY <2>3 DEF DeleteUser, DeleteUserTx, DeleteById, DeleteGrantsOf
  <2>4. ASSUME NEW p \in Pages, NEW e \in pages[p].users, NEW c \in Cids, Grant(p, e, c)
        PROVE  TypeOK'
    <3>1. PICK j \in 1 .. MaxGrantid :
             /\ InsertGrant(c, e.id, e.acct, j)
             /\ pages' = [pages EXCEPT ![p].privs = @ \cup {j}]
      BY <2>4 DEF Grant
    <3>2. e.id \in 0 .. MaxUserid /\ e.acct \in Passwords
      BY PrivilegesAssumption
    <3>3. containers' \subseteq Priv
      BY <3>1, <3>2 DEF InsertGrant
    <3>4. pages' \in [Pages -> Page]
      BY <3>1
    <3> QED
      BY <3>3, <3>4, <2>4 DEF Grant
  <2>5. ASSUME NEW p \in Pages, NEW j \in pages[p].privs, Revoke(p, j)
        PROVE  TypeOK'
    BY <2>5 DEF Revoke, DeleteById
  <2>6. ASSUME NEW c \in Cids, CreateContainer(c)
        PROVE  TypeOK'
    BY <2>6, PrivilegesAssumption DEF CreateContainer, InsertGrant, NoUser
  <2>7. ASSUME NEW c \in Cids, DeleteContainer(c)
        PROVE  TypeOK'
    BY <2>7 DEF DeleteContainer, DeleteByCid
  <2>8. ASSUME NEW ids \in SUBSET Cids, refreshContainers(ids)
        PROVE  TypeOK'
    BY <2>8 DEF refreshContainers, PurgeExcept
  <2>9. ASSUME NEW s \in Conns, NEW d \in creds, NEW t \in Targets, FindUser(s, d, t)
        PROVE  TypeOK'
    BY <2>9, PrivilegesAssumption DEF FindUser
  <2>10. ASSUME NEW s \in Conns, Admit(s)
         PROVE  TypeOK'
    BY <2>10 DEF Admit
  <2>11. ASSUME NEW s \in Conns, Deny(s) \/ QueryFails(s) \/ Close(s)
         PROVE  TypeOK'
    BY <2>11, PrivilegesAssumption DEF Deny, QueryFails, Close, Idle, NoUser
  <2>12. CASE Restart
    BY <2>12, PrivilegesAssumption DEF Restart, Idle, NoUser
  <2>13. CASE UNCHANGED vars
    BY <2>13 DEF vars
  <2> QED
    BY <2>1, <2>2, <2>3, <2>4, <2>5, <2>6, <2>7, <2>8, <2>9, <2>10, <2>11,
       <2>12, <2>13 DEF Next, Manage, Login
<1> QED
  BY <1>1, <1>2, PTL DEF Spec

-----------------------------------------------------------------------------
(* The inductive invariant.  Ids are used again, so a remembered id alone says
   nothing: what is preserved is that the id remembered for an account is that
   account's id for as long as the account exists.  It survives AddUser because
   a new account has a password nobody remembers yet. *)

UniqueUsers == \A u, v \in users : u.id = v.id \/ u.password = v.password => u = v

\* Nobody remembers a password that has not been given out.
OnlyIssued ==
  /\ \A u \in users : Issued(u.password)
  /\ \A r \in containers : r.for # NoAccount => Issued(r.for)
  /\ \A p \in Pages : \A e \in pages[p].users : Issued(e.acct)
  /\ \A s \in Conns : conns[s].acct # NoAccount => Issued(conns[s].acct)

GrantsAgree == \A r \in containers, u \in users : u.password = r.for => u.id = r.user_id
PagesAgree == \A p \in Pages : \A e \in pages[p].users, u \in users :
                u.password = e.acct => u.id = e.id
ConnsAgree == \A s \in Conns : \A u \in users :
                u.password = conns[s].acct => u.id = conns[s].uid

\* Two rows of `containers' differ in their ids and in what they grant.
UniqueGrants == \A q, r \in containers :
                  (\/ q.id = r.id
                   \/ q.cid = r.cid /\ q.user_id = r.user_id)
                  => q = r

\* The rows that are for nobody match no user's id, and whoever logs in is
\* somebody.
Somebody ==
  /\ \A r \in containers : r.for = NoAccount => r.user_id = NoUser
  /\ \A s \in Conns : conns[s].pc # "idle" =>
       /\ conns[s].acct # NoAccount
       /\ conns[s].uid # NoUser
       /\ conns[s].target # NoCid

IInv == /\ TypeOK
        /\ UniqueUsers
        /\ UniqueGrants
        /\ Somebody
        /\ OnlyIssued
        /\ GrantsAgree
        /\ PagesAgree
        /\ ConnsAgree

\* Deleting rows of `containers' and nothing else disturbs nothing.
LEMMA FewerGrants ==
  ASSUME IInv, TypeOK', containers' \subseteq containers,
         UNCHANGED <<users, creds, pages, conns>>
  PROVE  IInv'
  BY DEF IInv, UniqueUsers, UniqueGrants, Somebody, OnlyIssued, GrantsAgree,
         PagesAgree, ConnsAgree, Issued

\* Neither does one more row that carries its account's id.
LEMMA OneMoreGrant ==
  ASSUME IInv, TypeOK', NEW c, NEW i, NEW a, NEW j \in Nat, InsertGrant(c, i, a, j),
         a = NoAccount \/ Issued(a),
         a = NoAccount => i = NoUser,
         \A u \in users : u.password = a => u.id = i,
         UNCHANGED <<users, creds, conns>>,
         \A p \in Pages : pages'[p].users = pages[p].users
  PROVE  IInv'
<1>1. containers' = containers \cup {[id |-> j, cid |-> c, user_id |-> i, for |-> a]}
  BY DEF InsertGrant
<1>2. UniqueUsers' /\ PagesAgree' /\ ConnsAgree'
  BY DEF IInv, UniqueUsers, PagesAgree, ConnsAgree
<1>3. GrantsAgree'
  BY <1>1 DEF IInv, GrantsAgree
<1>4. OnlyIssued'
  BY <1>1 DEF IInv, OnlyIssued, Issued
<1>5. UniqueGrants'
  BY DEF IInv, UniqueGrants, InsertGrant, PairTaken, IsNextRowid, TypeOK, Priv
<1>6. Somebody'
  BY <1>1 DEF IInv, Somebody
<1> QED
  BY <1>2, <1>3, <1>4, <1>5, <1>6 DEF IInv

\* Nor does a step of passwordCallback that forgets the account.
LEMMA Forget ==
  ASSUME IInv, TypeOK', UNCHANGED <<users, containers, creds, pages>>,
         \A s \in Conns : conns'[s] = conns[s] \/ conns'[s] = Idle
  PROVE  IInv'
<1>1. UniqueUsers' /\ UniqueGrants' /\ GrantsAgree' /\ PagesAgree'
  BY DEF IInv, UniqueUsers, UniqueGrants, GrantsAgree, PagesAgree
<1>2. OnlyIssued'
  BY DEF IInv, OnlyIssued, Issued, Idle
<1>3. \A u \in users : u.password # NoAccount
  BY PrivilegesAssumption DEF IInv, TypeOK, User
<1>4. ConnsAgree'
  BY <1>3 DEF IInv, ConnsAgree, Idle
<1>5. Somebody'
  BY DEF IInv, Somebody, Idle
<1> QED
  BY <1>1, <1>2, <1>4, <1>5 DEF IInv

\* The id remembered for an account is its id while it exists.
THEOREM Agreement == Spec => []IInv
<1>1. Init => IInv
  <2>1. Init => TypeOK
    BY PrivilegesAssumption DEF Init, TypeOK, Blank, Idle, Page, Conn, NoUser
  <2> QED
    BY <2>1 DEF Init, IInv, UniqueUsers, UniqueGrants, Somebody, OnlyIssued,
                GrantsAgree, PagesAgree, ConnsAgree, Blank, Idle
<1>2. TypeOK' /\ IInv /\ [Next]_vars => IInv'
  <2> SUFFICES ASSUME TypeOK', IInv, [Next]_vars
               PROVE  IInv'
    OBVIOUS
  <2>0. TypeOK
    BY DEF IInv
  <2>1. ASSUME NEW n \in Names, NEW p \in Passwords, AddUser(n, p)
        PROVE  IInv'
    <3>1. PICK i \in 1 .. MaxUserid :
             /\ IsNextRowid(users, i)
             /\ users' = users \cup {[id |-> i, name |-> n, password |-> p]}
      BY <2>1 DEF AddUser
    <3>2. /\ ~ Issued(p) /\ p # NoAccount
          /\ creds' = creds \cup {[name |-> n, password |-> p]}
          /\ UNCHANGED <<containers, pages, conns>>
      BY <2>1, PrivilegesAssumption DEF AddUser
    <3>3. \A u \in users : u.id # i /\ u.password # p
      BY <3>1, <3>2, <2>0 DEF IsNextRowid, IInv, OnlyIssued, TypeOK, User
    <3>4. UniqueUsers'
      BY <3>1, <3>3 DEF IInv, UniqueUsers
    <3>5. \A q : Issued(q) => Issued(q)'
      BY <3>2 DEF Issued
    <3>6. Issued(p)'
      <4>1. [name |-> n, password |-> p] \in creds'
        BY <3>2
      <4>2. [name |-> n, password |-> p].password = p
        OBVIOUS
      <4> QED
        BY <4>1, <4>2 DEF Issued
    <3>7. OnlyIssued'
      BY <3>1, <3>2, <3>5, <3>6 DEF IInv, OnlyIssued
    <3>8. GrantsAgree'
      BY <3>1, <3>2 DEF IInv, OnlyIssued, GrantsAgree
    <3>9. PagesAgree'
      BY <3>1, <3>2 DEF IInv, OnlyIssued, PagesAgree
    <3>10. ConnsAgree'
      BY <3>1, <3>2 DEF IInv, OnlyIssued, ConnsAgree
    <3>11. UniqueGrants' /\ Somebody'
      BY <3>2 DEF IInv, UniqueGrants, Somebody
    <3> QED
      BY <3>4, <3>7, <3>8, <3>9, <3>10, <3>11 DEF IInv
  <2>2. ASSUME NEW p \in Pages, Users(p)
        PROVE  IInv'
    <3>1. UNCHANGED <<users, containers, creds, conns>>
      BY <2>2 DEF Users
    <3>2. \A q \in Pages : \/ pages'[q] = pages[q]
                          \/ pages'[q].users =
                                {[id |-> u.id, acct |-> u.password] : u \in users}
      BY <2>2, <2>0 DEF Users, TypeOK
    <3>3. PagesAgree'
      BY <3>1, <3>2 DEF IInv, PagesAgree, UniqueUsers
    <3>4. OnlyIssued'
      BY <3>1, <3>2 DEF IInv, OnlyIssued, Issued
    <3> QED
      BY <3>1, <3>3, <3>4 DEF IInv, UniqueUsers, UniqueGrants, Somebody,
                              GrantsAgree, ConnsAgree
  <2>3. ASSUME NEW p \in Pages, NEW e \in pages[p].users, DeleteUser(p, e)
        PROVE  IInv'
    <3>1. users' \subseteq users /\ containers' \subseteq containers
      BY <2>3 DEF DeleteUser, DeleteUserTx, DeleteById, DeleteGrantsOf
    <3>2. UNCHANGED <<creds, pages, conns>>
      BY <2>3 DEF DeleteUser
    <3>3. OnlyIssued'
      BY <3>1, <3>2 DEF IInv, OnlyIssued, Issued
    <3>4. UniqueUsers' /\ GrantsAgree'
      BY <3>1 DEF IInv, UniqueUsers, GrantsAgree
    <3>5. PagesAgree' /\ ConnsAgree'
      BY <3>1, <3>2 DEF IInv, PagesAgree, ConnsAgree
    <3>6. UniqueGrants' /\ Somebody'
      BY <3>1, <3>2 DEF IInv, UniqueGrants, Somebody
    <3> QED
      BY <3>3, <3>4, <3>5, <3>6 DEF IInv
  <2>4. ASSUME NEW p \in Pages, NEW e \in pages[p].users, NEW c \in Cids, Grant(p, e, c)
        PROVE  IInv'
    <3>1. PICK j \in 1 .. MaxGrantid :
             /\ InsertGrant(c, e.id, e.acct, j)
             /\ pages' = [pages EXCEPT ![p].privs = @ \cup {j}]
      BY <2>4 DEF Grant
    <3>2. \A q \in Pages : pages'[q].users = pages[q].users
      BY <3>1, <2>0 DEF TypeOK, Page
    <3>3. Issued(e.acct) /\ \A u \in users : u.password = e.acct => u.id = e.id
      BY DEF IInv, OnlyIssued, PagesAgree
    <3>4. e.acct # NoAccount
      BY <2>0, PrivilegesAssumption DEF TypeOK, Page
    <3>5. UNCHANGED <<users, creds, conns>>
      BY <2>4 DEF Grant
    <3>6. j \in Nat
      OBVIOUS
    <3> QED
      BY <3>1, <3>2, <3>3, <3>4, <3>5, <3>6, OneMoreGrant
  <2>5. ASSUME NEW p \in Pages, NEW j \in pages[p].privs, Revoke(p, j)
        PROVE  IInv'
    BY <2>5, FewerGrants DEF Revoke, DeleteById
  <2>6. ASSUME NEW c \in Cids, CreateContainer(c)
        PROVE  IInv'
    <3>1. \A u \in users : u.password # NoAccount
      BY <2>0, PrivilegesAssumption DEF TypeOK, User
    <3>2. PICK j \in 1 .. MaxGrantid : InsertGrant(c, NoUser, NoAccount, j)
      BY <2>6 DEF CreateContainer
    <3>3. UNCHANGED <<users, creds, pages, conns>>
      BY <2>6 DEF CreateContainer
    <3>4. j \in Nat
      OBVIOUS
    <3> QED
      BY <3>1, <3>2, <3>3, <3>4, OneMoreGrant
  <2>7. ASSUME NEW c \in Cids, DeleteContainer(c)
        PROVE  IInv'
    BY <2>7, FewerGrants DEF DeleteContainer, DeleteByCid
  <2>8. ASSUME NEW ids \in SUBSET Cids, refreshContainers(ids)
        PROVE  IInv'
    BY <2>8, FewerGrants DEF refreshContainers, PurgeExcept
  <2>9. ASSUME NEW s \in Conns, NEW d \in creds, NEW t \in Targets, FindUser(s, d, t)
        PROVE  IInv'
    <3>1. PICK u \in users :
             /\ u.password = d.password
             /\ conns' = [conns EXCEPT ![s] =
                  [pc |-> "found", acct |-> d.password, uid |-> u.id, target |-> t]]
      BY <2>9 DEF FindUser
    <3>2. UNCHANGED <<users, containers, creds, pages>>
      BY <2>9 DEF FindUser
    <3>3. \A x \in Conns : \/ conns'[x] = conns[x]
                          \/ /\ conns'[x].acct = u.password
                             /\ conns'[x].uid = u.id
                             /\ conns'[x].target = t
      BY <3>1, <2>0 DEF TypeOK
    <3>4. ConnsAgree'
      BY <3>2, <3>3 DEF IInv, ConnsAgree, UniqueUsers
    <3>5. OnlyIssued'
      BY <3>2, <3>3 DEF IInv, OnlyIssued, Issued
    <3>6. u.id # NoUser /\ u.password # NoAccount /\ t # NoCid
      BY <2>0, PrivilegesAssumption DEF TypeOK, User, NoUser
    <3>7. Somebody'
      BY <3>2, <3>3, <3>6 DEF IInv, Somebody
    <3> QED
      BY <3>2, <3>4, <3>5, <3>7
         DEF IInv, UniqueUsers, UniqueGrants, GrantsAgree, PagesAgree
  <2>10. ASSUME NEW s \in Conns, Admit(s)
         PROVE  IInv'
    <3>1. conns' = [conns EXCEPT ![s].pc = "open"]
      BY <2>10 DEF Admit
    <3>2. \A t \in Conns : /\ conns'[t].acct = conns[t].acct
                          /\ conns'[t].uid = conns[t].uid
                          /\ conns'[t].target = conns[t].target
                          /\ (conns'[t].pc = conns[t].pc \/ conns[t].pc = "found")
      BY <3>1, <2>10, <2>0 DEF TypeOK, Conn, Admit
    <3>3. Somebody'
      BY <3>2, <2>10 DEF IInv, Somebody, Admit
    <3>4. ConnsAgree' /\ OnlyIssued'
      BY <3>2, <2>10 DEF IInv, ConnsAgree, OnlyIssued, Issued, Admit
    <3> QED
      BY <3>3, <3>4, <2>10
         DEF IInv, UniqueUsers, UniqueGrants, GrantsAgree, PagesAgree, Admit
  <2>11. ASSUME NEW s \in Conns, Deny(s) \/ QueryFails(s) \/ Close(s)
         PROVE  IInv'
    <3>1. conns' = [conns EXCEPT ![s] = Idle] /\ UNCHANGED <<users, containers, creds, pages>>
      BY <2>11 DEF Deny, QueryFails, Close
    <3>2. \A t \in Conns : conns'[t] = conns[t] \/ conns'[t] = Idle
      BY <3>1, <2>0 DEF TypeOK
    <3> QED
      BY <3>1, <3>2, Forget
  <2>12. CASE Restart
    BY <2>12, Forget DEF Restart, Idle
  <2>13. CASE UNCHANGED vars
    BY <2>13 DEF vars, IInv, UniqueUsers, OnlyIssued, GrantsAgree, PagesAgree,
                 ConnsAgree, Issued, UniqueGrants, Somebody
  <2> QED
    BY <2>1, <2>2, <2>3, <2>4, <2>5, <2>6, <2>7, <2>8, <2>9, <2>10, <2>11,
       <2>12, <2>13 DEF Next, Manage, Login
<1> QED
  BY <1>1, <1>2, TypeCorrect, PTL DEF Spec

-----------------------------------------------------------------------------
(* What follows from it *)

\* No existing account gets a grant made to another existing one, for any
\* number of users, grants, tabs and connections.
THEOREM GrantsNeverCross == Spec => []NoCrossedGrants
<1>1. IInv => NoCrossedGrants
  <2> SUFFICES ASSUME IInv, NEW r \in containers, NEW u \in users,
                      r.user_id = u.id, r.for # u.password, ~ Stray(r)
               PROVE  FALSE
    BY DEF NoCrossedGrants
  <2>1. r.for # NoAccount
    BY DEF IInv, Somebody, TypeOK, User, NoUser
  <2>2. PICK v \in users : v.password = r.for
    BY <2>1 DEF Stray, Live
  <2> QED
    BY <2>2 DEF IInv, UniqueUsers, GrantsAgree
<1> QED
  BY <1>1, Agreement, PTL

\* DeleteUser leaves no grant of the account behind, whatever was inserted after
\* the page that sends it was loaded; no other handler deletes an account.
THEOREM NoGrantOutlivesItsAccount == Spec => GrantsDieWithTheirAccount
<1> DEFINE A == \A r \in containers \cap containers' : Live(r.for) => Live(r.for)'
<1>1. IInv /\ [Next]_vars => [A]_vars
  <2> SUFFICES ASSUME IInv, [Next]_vars,
                      NEW r \in containers \cap containers',
                      NEW u \in users, u.password = r.for
               PROVE  Live(r.for)'
    BY DEF Live
  <2>1. u \in users' => Live(r.for)'
    BY DEF Live
  <2>2. CASE \E n \in Names, p \in Passwords : AddUser(n, p)
    BY <2>1, <2>2 DEF AddUser
  <2>3. ASSUME NEW p \in Pages, NEW e \in pages[p].users, DeleteUser(p, e)
        PROVE  u \in users'
    <3>1. r.user_id # e.id
      BY <2>3 DEF DeleteUser, DeleteUserTx, DeleteGrantsOf
    <3>2. u.id = r.user_id
      BY DEF IInv, GrantsAgree
    <3> QED
      BY <3>1, <3>2, <2>3 DEF DeleteUser, DeleteUserTx, DeleteById
  <2>4. CASE UNCHANGED users
    BY <2>1, <2>4
  <2> QED
    BY <2>1, <2>2, <2>3, <2>4
       DEF Next, Manage, Login, vars, Users, Grant, Revoke, CreateContainer,
           DeleteContainer, refreshContainers, FindUser, Admit, Deny, QueryFails,
           Close, Restart
<1> QED
  BY <1>1, Agreement, PTL DEF Spec, GrantsDieWithTheirAccount

\* Whoever is let in comes in by a grant of his own: passwordCallback reads the
\* id and the grants at different times and is still right as long as the
\* account exists and the grant was not for a deleted one.
THEOREM LoginsUseOwnGrants == Spec => AdmittedByOwnGrant
<1> DEFINE A == \A s \in Conns : Admit(s) =>
                  \E r \in containers :
                    /\ <<conns[s].target, r.cid>> \in Like
                    /\ \/ r.for = conns[s].acct
                       \/ ~ Live(conns[s].acct)
                       \/ Stray(r)
<1>1. IInv => A
  <2> SUFFICES ASSUME IInv, NEW s \in Conns, Admit(s),
                      NEW r \in containers,
                      r.user_id = conns[s].uid, <<conns[s].target, r.cid>> \in Like,
                      Live(conns[s].acct), ~ Stray(r)
               PROVE  r.for = conns[s].acct
    BY DEF Admit, HasContainer, Match
  <2>0. r.for # NoAccount
    BY DEF IInv, Somebody, Admit
  <2>1. PICK u \in users : u.password = conns[s].acct
    BY DEF Live
  <2>2. PICK v \in users : v.password = r.for
    BY <2>0 DEF Live, Stray
  <2>3. u.id = v.id
    BY <2>1, <2>2 DEF IInv, ConnsAgree, GrantsAgree
  <2> QED
    BY <2>1, <2>2, <2>3 DEF IInv, UniqueUsers
<1>2. IInv /\ [Next]_vars => [A]_vars
  BY <1>1
<1> QED
  BY <1>2, Agreement, PTL DEF Spec, AdmittedByOwnGrant

\* The second query of a login finds the grants of its account, if it is executed
\* at all: the id the first one read is the account's for as long as that exists.
THEOREM GrantsAreFound == Spec => []GrantedIsFound
<1>1. IInv => GrantedIsFound
  BY DEF IInv, GrantsAgree, ConnsAgree, Live, GrantedIsFound, HasContainer, Match
<1> QED
  BY <1>1, Agreement, PTL

-----------------------------------------------------------------------------
(* The refinement of AccessControl.  A row of an account that exists is a pair
   of acl, a stray row is a container of strays, and a row for nobody is
   nothing. *)

\* Deleting rows of `containers' and nothing else takes away their pairs, ...
LEMMA AclOfFewer ==
  ASSUME UNCHANGED users, containers' \subseteq containers
  PROVE  /\ UNCHANGED Members
         /\ Strays' \subseteq Strays
         /\ Acl' \subseteq Acl
BY DEF Members, Strays, Acl, Stray, Live

\* ... and each pair is of one row.
LEMMA OneRowPerPair ==
  ASSUME IInv, NEW q \in containers, NEW r \in containers,
         Live(q.for), q.for = r.for, q.cid = r.cid
  PROVE  q = r
<1>1. PICK u \in users : u.password = q.for
  BY DEF Live
<1>2. u.id = q.user_id /\ u.id = r.user_id
  BY <1>1 DEF IInv, GrantsAgree
<1> QED
  BY <1>2 DEF IInv, UniqueGrants

\* One more row is one more pair, one more stray or nothing.
LEMMA AclOfOneMore ==
  ASSUME UNCHANGED users, NEW c, NEW i, NEW a, NEW j, InsertGrant(c, i, a, j)
  PROVE  /\ UNCHANGED Members
         /\ Acl' = IF Live(a) THEN Acl \cup {<<a, c>>} ELSE Acl
         /\ Strays' = IF a # NoAccount /\ ~ Live(a) THEN Strays \cup {c} ELSE Strays
<1> DEFINE new == [id |-> j, cid |-> c, user_id |-> i, for |-> a]
<1>1. containers' = containers \cup {new}
  BY DEF InsertGrant
<1>2. new.for = a /\ new.cid = c
  OBVIOUS
<1> HIDE DEF new
<1>3. \A q : Live(q)' = Live(q)
  BY DEF Live
<1>4. UNCHANGED Members
  BY DEF Members
<1>5. Acl' = IF Live(a) THEN Acl \cup {<<a, c>>} ELSE Acl
  BY <1>1, <1>2, <1>3 DEF Acl
<1>6. Strays' = IF a # NoAccount /\ ~ Live(a) THEN Strays \cup {c} ELSE Strays
  BY <1>1, <1>2, <1>3 DEF Strays, Stray
<1> QED
  BY <1>4, <1>5, <1>6

\* Deleting a user deletes its pairs, those of no one else, and leaves no stray
\* behind; deleting one that is gone deletes strays at most.
LEMMA AclOfDelete ==
  ASSUME IInv, NEW i, DeleteUserTx(i)
  PROVE  /\ Strays' \subseteq Strays
         /\ \/ Members' = Members /\ Acl' = Acl
            \/ \E a \in Passwords : /\ Members' = Members \ {a}
                                    /\ Acl' = {g \in Acl : g[1] # a}
<1>1. /\ users' = {u \in users : u.id # i}
      /\ containers' = {r \in containers : r.user_id # i}
  BY DEF DeleteUserTx, DeleteById, DeleteGrantsOf
<1>2. \A r \in containers' : Live(r.for) => Live(r.for)'
  BY <1>1 DEF Live, IInv, GrantsAgree
<1>3. \A q : Live(q)' => Live(q)
  BY <1>1 DEF Live
<1>4. Strays' \subseteq Strays
  BY <1>1, <1>2 DEF Strays, Stray
<1>5. Acl' = {<<r.for, r.cid>> : r \in {x \in containers : Live(x.for) /\ x.user_id # i}}
  BY <1>1, <1>2, <1>3 DEF Acl
<1>6. CASE \A u \in users : u.id # i
  <2>1. users' = users
    BY <1>1, <1>6
  <2>2. \A r \in containers : Live(r.for) => r.user_id # i
    BY <1>6 DEF Live, IInv, GrantsAgree
  <2>3. Acl' = Acl
    BY <1>5, <2>2 DEF Acl
  <2> QED
    BY <1>4, <2>1, <2>3 DEF Members
<1>7. ASSUME NEW u \in users, u.id = i
      PROVE  /\ Members' = Members \ {u.password}
             /\ Acl' = {g \in Acl : g[1] # u.password}
  <2>1. \A v \in users : v.id = i <=> v.password = u.password
    BY <1>7 DEF IInv, UniqueUsers
  <2>2. Members' = Members \ {u.password}
    BY <1>1, <2>1 DEF Members
  <2>3. \A r \in containers : Live(r.for) => (r.user_id # i <=> r.for # u.password)
    BY <2>1, <1>7 DEF Live, IInv, GrantsAgree
  <2>4. Acl' = {g \in Acl : g[1] # u.password}
    BY <1>5, <2>3 DEF Acl
  <2> QED
    BY <2>2, <2>4
<1>8. \A u \in users : u.password \in Passwords
  BY DEF IInv, TypeOK, User
<1> QED
  BY <1>4, <1>6, <1>7, <1>8

\* Tables, ids used again, stale pages and a login in two queries implement
\* accounts that have containers: every handler and every step of
\* passwordCallback is a step of AccessControl or invisible in it.
THEOREM Refinement == Spec => ImplementsAccessControl
<1>1. Init => AC!Init
  <2>1. Init => Members = {} /\ Acl = {} /\ Strays = {}
    BY DEF Init, Members, Acl, Strays
  <2>2. Init => Inside = [s \in Conns |-> <<NoAccount, NoCid>>]
    BY DEF Init, Inside, Idle
  <2> QED
    BY <2>1, <2>2 DEF AC!Init, AC!Nobody
<1>2. IInv /\ TypeOK' /\ [Next]_vars => [AC!Next]_(AC!vars)
  <2> SUFFICES ASSUME IInv, TypeOK', [Next]_vars
               PROVE  AC!Next \/ UNCHANGED AC!vars
    OBVIOUS
  <2>0. TypeOK
    BY DEF IInv
  <2>a. UNCHANGED conns => UNCHANGED Inside
    BY DEF Inside
  <2>b. UNCHANGED <<users, containers>> => UNCHANGED <<Members, Acl, Strays>>
    BY DEF Members, Acl, Strays, Stray, Live
  <2>1. ASSUME NEW n \in Names, NEW p \in Passwords, AddUser(n, p)
        PROVE  AC!Join(p)
    <3>1. PICK i \in 1 .. MaxUserid :
            users' = users \cup {[id |-> i, name |-> n, password |-> p]}
      BY <2>1 DEF AddUser
    <3>2. ~ Issued(p) /\ UNCHANGED <<containers, conns>> /\ p # NoAccount
      BY <2>1, PrivilegesAssumption DEF AddUser
    <3>3. p \notin Members /\ Members' = Members \cup {p}
      <4>1. p \notin Members
        BY <3>2 DEF Members, IInv, OnlyIssued
      <4>2. [id |-> i, name |-> n, password |-> p].password = p
        OBVIOUS
      <4>3. Members' = Members \cup {p}
        BY <3>1, <4>2, Zenon DEF Members
      <4> QED
        BY <4>1, <4>3
    <3>4. \A r \in containers : r.for # NoAccount => r.for # p
      BY <3>2 DEF IInv, OnlyIssued
    <3>5. \A r \in containers : Live(r.for)' <=> Live(r.for)
      BY <3>1, <3>2, <3>4 DEF Live
    <3>6. UNCHANGED <<Acl, Strays>>
      BY <3>2, <3>5 DEF Acl, Strays, Stray
    <3> QED
      BY <3>2, <3>3, <3>6, <2>a DEF AC!Join
  <2>2. ASSUME NEW p \in Pages, Users(p)
        PROVE  UNCHANGED AC!vars
    BY <2>2, <2>a, <2>b DEF Users, AC!vars
  <2>3. ASSUME NEW p \in Pages, NEW e \in pages[p].users, DeleteUser(p, e)
        PROVE  AC!TakeStrays \/ \E a \in Passwords : AC!Leave(a)
    <3>1. DeleteUserTx(e.id) /\ UNCHANGED Inside
      BY <2>3, <2>a DEF DeleteUser
    <3> QED
      BY <3>1, AclOfDelete DEF AC!TakeStrays, AC!Leave
  <2>4. ASSUME NEW p \in Pages, NEW e \in pages[p].users, NEW c \in Cids, Grant(p, e, c)
        PROVE  AC!Give(e.acct, c) \/ AC!GiveStray(c)
    <3>1. PICK j \in 1 .. MaxGrantid : InsertGrant(c, e.id, e.acct, j)
      BY <2>4 DEF Grant
    <3>2. UNCHANGED users /\ UNCHANGED Inside
      BY <2>4, <2>a DEF Grant
    <3>3. e.acct # NoAccount
      BY <2>0, PrivilegesAssumption DEF TypeOK, Page
    <3>4. Live(e.acct) <=> e.acct \in Members
      BY DEF Live, Members
    <3> QED
      BY <3>1, <3>2, <3>3, <3>4, AclOfOneMore DEF AC!Give, AC!GiveStray
  <2>5. ASSUME NEW p \in Pages, NEW j \in pages[p].privs, Revoke(p, j)
        PROVE  AC!TakeStrays \/ \E a \in Passwords, c \in Cids : AC!Take(a, c)
    <3>1. /\ containers' = {r \in containers : r.id # j}
          /\ UNCHANGED users /\ UNCHANGED Inside
      BY <2>5, <2>a DEF Revoke, DeleteById
    <3>2. UNCHANGED Members /\ Strays' \subseteq Strays
      BY <3>1, AclOfFewer
    <3>3. \A q : Live(q)' = Live(q)
      BY <3>1 DEF Live
    <3>4. CASE \A r \in containers : Live(r.for) => r.id # j
      <4>1. Acl' = Acl
        BY <3>1, <3>3, <3>4 DEF Acl
      <4> QED
        BY <3>1, <3>2, <4>1 DEF AC!TakeStrays
    <3>5. ASSUME NEW r \in containers, Live(r.for), r.id = j
          PROVE  AC!Take(r.for, r.cid)
      <4>1. \A q \in containers : q.id = j => q = r
        BY <3>5 DEF IInv, UniqueGrants
      <4>2. \A q \in containers : Live(q.for) /\ q.for = r.for /\ q.cid = r.cid => q = r
        BY OneRowPerPair
      <4>3. Acl' = Acl \ {<<r.for, r.cid>>}
        BY <3>1, <3>3, <3>5, <4>1, <4>2 DEF Acl
      <4>4. Strays' = Strays
        BY <3>1, <3>3, <3>5, <4>1 DEF Strays, Stray
      <4> QED
        BY <3>1, <3>2, <4>3, <4>4 DEF AC!Take
    <3>6. \A r \in containers : r.cid \in Cids /\ (Live(r.for) => r.for \in Passwords)
      BY <2>0 DEF TypeOK, Priv, User, Live
    <3> QED
      BY <3>4, <3>5, <3>6
  <2>6. ASSUME NEW c \in Cids, CreateContainer(c)
        PROVE  UNCHANGED AC!vars
    <3>1. ~ Live(NoAccount)
      BY <2>0, PrivilegesAssumption DEF Live, TypeOK, User
    <3>2. PICK j \in 1 .. MaxGrantid : InsertGrant(c, NoUser, NoAccount, j)
      BY <2>6 DEF CreateContainer
    <3>3. UNCHANGED users /\ UNCHANGED Inside
      BY <2>6, <2>a DEF CreateContainer
    <3> QED
      BY <3>1, <3>2, <3>3, AclOfOneMore DEF AC!vars
  <2>7. ASSUME NEW C \in SUBSET Cids, PurgeExcept(containers, Cids \ C) = containers',
               UNCHANGED <<users, conns>>
        PROVE  AC!Forget(C)
    <3>1. containers' = {r \in containers : r.cid \notin C}
      BY <2>7, <2>0 DEF PurgeExcept, TypeOK, Priv
    <3>2. \A q : Live(q)' = Live(q)
      BY <2>7 DEF Live
    <3>3. Acl' = {g \in Acl : g[2] \notin C}
      BY <3>1, <3>2 DEF Acl
    <3>4. Strays' = Strays \ C
      BY <3>1, <3>2 DEF Strays, Stray
    <3>5. UNCHANGED <<Members, Inside>>
      BY <2>7, <2>a DEF Members
    <3> QED
      BY <3>3, <3>4, <3>5 DEF AC!Forget
  <2>8. ASSUME NEW c \in Cids, DeleteContainer(c)
        PROVE  AC!Forget({c})
    <3>1. PurgeExcept(containers, Cids \ {c}) = containers'
      BY <2>8, <2>0 DEF DeleteContainer, DeleteByCid, PurgeExcept, TypeOK, Priv
    <3> QED
      BY <2>7, <2>8, <3>1 DEF DeleteContainer
  <2>9. ASSUME NEW ids \in SUBSET Cids, refreshContainers(ids)
        PROVE  AC!Forget(Cids \ ids)
    <3>1. PurgeExcept(containers, Cids \ (Cids \ ids)) = containers'
      BY <2>9 DEF refreshContainers, PurgeExcept
    <3> QED
      BY <2>7, <2>9, <3>1 DEF refreshContainers
  <2>10. ASSUME NEW s \in Conns, NEW d \in creds, NEW t \in Targets, FindUser(s, d, t)
         PROVE  UNCHANGED AC!vars
    <3>1. PICK u \in users : conns' = [conns EXCEPT ![s] =
             [pc |-> "found", acct |-> d.password, uid |-> u.id, target |-> t]]
      BY <2>10 DEF FindUser
    <3>2. UNCHANGED Inside
      BY <3>1, <2>10, <2>0 DEF FindUser, Inside, TypeOK
    <3> QED
      BY <2>10, <2>b, <3>2 DEF FindUser, AC!vars
  <2>11. ASSUME NEW s \in Conns, Admit(s)
         PROVE  AC!Enter(s, conns[s].acct, conns[s].target)
    <3>1. conns' = [conns EXCEPT ![s].pc = "open"] /\ conns[s].pc = "found"
      BY <2>11 DEF Admit
    <3>2. Inside[s] = AC!Nobody
      BY <3>1 DEF Inside, AC!Nobody
    <3>3. Inside' = [Inside EXCEPT ![s] = <<conns[s].acct, conns[s].target>>]
      BY <3>1, <2>0 DEF Inside, TypeOK, Conn
    <3>4. PICK r \in containers : /\ r.user_id = conns[s].uid
                               /\ <<conns[s].target, r.cid>> \in Like
      BY <2>11 DEF Admit, HasContainer, Match
    <3>5. \/ <<conns[s].acct, r.cid>> \in Acl
          \/ conns[s].acct \notin Members
          \/ r.cid \in Strays
      <4>1. SUFFICES ASSUME Live(conns[s].acct), ~ Stray(r)
                     PROVE  r.for = conns[s].acct
        BY <3>4 DEF Acl, Members, Strays, Live
      <4> QED
        BY <4>1, <3>1, <3>4 DEF IInv, Somebody, Stray, Live, ConnsAgree, GrantsAgree, UniqueUsers
    <3> QED
      BY <2>11, <2>b, <2>0, <3>2, <3>3, <3>4, <3>5 DEF Admit, AC!Enter, AC!Named, TypeOK, Priv
  <2>12. ASSUME NEW s \in Conns, Deny(s) \/ QueryFails(s)
         PROVE  UNCHANGED AC!vars
    <3>1. conns' = [conns EXCEPT ![s] = Idle] /\ conns[s].pc = "found"
      BY <2>12 DEF Deny, QueryFails
    <3>2. UNCHANGED Inside
      BY <3>1, <2>0 DEF Inside, Idle, TypeOK
    <3> QED
      BY <2>12, <2>b, <3>2 DEF Deny, QueryFails, AC!vars
  <2>13. ASSUME NEW s \in Conns, Close(s)
         PROVE  AC!Exit({s})
    <3>1. conns' = [conns EXCEPT ![s] = Idle]
      BY <2>13 DEF Close
    <3>2. Inside' = [t \in Conns |-> IF t \in {s} THEN AC!Nobody ELSE Inside[t]]
      BY <3>1, <2>0 DEF Inside, Idle, AC!Nobody, TypeOK
    <3> QED
      BY <2>13, <2>b, <3>2 DEF Close, AC!Exit
  <2>14. CASE Restart
    <3>1. Inside' = [t \in Conns |-> IF t \in Conns THEN AC!Nobody ELSE Inside[t]]
      BY <2>14 DEF Restart, Inside, Idle, AC!Nobody
    <3>2. AC!Exit(Conns)
      BY <2>14, <2>b, <3>1 DEF Restart, AC!Exit
    <3> QED
      BY <3>2 DEF AC!Next
  <2>15. CASE UNCHANGED vars
    BY <2>15, <2>a, <2>b DEF vars, AC!vars
  <2>16. \A p \in Pages : \A e \in pages[p].users : e.acct \in Passwords
    BY <2>0 DEF TypeOK, Page
  <2>17. \A s \in Conns : Admit(s) => conns[s].acct \in Passwords /\ conns[s].target \in Targets
    BY <2>0 DEF TypeOK, Conn, IInv, Somebody, Admit
  <2>18. CASE Manage
    BY <2>1, <2>2, <2>3, <2>4, <2>5, <2>6, <2>8, <2>9, <2>16, <2>18
       DEF Manage, AC!Next
  <2>19. CASE Login
    BY <2>10, <2>11, <2>12, <2>13, <2>17, <2>19 DEF Login, AC!Next
  <2> QED
    BY <2>14, <2>15, <2>18, <2>19 DEF Next
<1> QED
  BY <1>1, <1>2, TypeCorrect, Agreement, PTL DEF Spec, ImplementsAccessControl, AC!Spec

-----------------------------------------------------------------------------
(* Bastion: Privileges with the daemon, the handlers and the refresher.     *)

\* A handler that has come to the point where it changes the table has a
\* container in hand, and the one that forgets a container has removed it.
HandlersKnow ==
  \A q \in Reqs :
    /\ reqs[q].pc \in {"insert", "start", "remove", "unlist"} =>
         reqs[q].cid \in Containers /\ F!Born(reqs[q].cid)
    /\ reqs[q].pc = "unlist" => ~ F!Exists(reqs[q].cid)

\* The refresher's list misses only containers younger than the list.
ListIsComplete ==
  ticker.pc = "listed" =>
    \A c \in Containers : F!Exists(c) => c \in ticker.ids \/ c \in fresh

DaemonInv ==
  /\ daemon \in [Containers -> F!States]
  /\ reqs \in [Reqs -> [pc : {"idle", "create", "pull", "recreate", "insert",
                              "start", "remove", "unlist"},
                        cid : Containers \cup {NoCid}]]
  /\ ticker \in [pc : {"wait", "listed"}, ids : SUBSET Containers]
  /\ fresh \subseteq Containers
  /\ HandlersKnow
  /\ ListIsComplete

\* What handlers and refresher remember of the daemon holds in the whole program,
\* because nothing else touches it.
THEOREM DaemonIsKnown == BastionSpec => []DaemonInv
<1> USE DEF F!Done, F!Waiting, F!States, F!Exists, F!Born, F!Step, F!Finish
<1>1. BastionInit => DaemonInv
  BY DEF BastionInit, DaemonInv, HandlersKnow, ListIsComplete
<1>2. DaemonInv /\ [BastionNext]_bastionVars => DaemonInv'
  <2> SUFFICES ASSUME DaemonInv, [BastionNext]_bastionVars
               PROVE  DaemonInv'
    OBVIOUS
  <2> USE DEF DaemonInv, HandlersKnow, ListIsComplete
  <2>1. CASE UNCHANGED fleetVars
    BY <2>1 DEF fleetVars
  <2>2. ASSUME NEW q \in Reqs, InsertRow(q)
        PROVE  DaemonInv'
    BY <2>2 DEF InsertRow
  <2>3. ASSUME NEW q \in Reqs, Unlist(q)
        PROVE  DaemonInv'
    BY <2>3 DEF Unlist
  <2>4. CASE Purge
    BY <2>4 DEF Purge
  <2>5. CASE BastionRestart
    BY <2>5 DEF BastionRestart, F!Restart
  <2>6. ASSUME NEW c \in Containers, F!DockerCreate(c)
        PROVE  DaemonInv'
    BY <2>6 DEF F!DockerCreate, F!Bear
  <2>7. ASSUME NEW c \in Containers, F!DockerRun(c)
        PROVE  DaemonInv'
    BY <2>7 DEF F!DockerRun
  <2>8. ASSUME NEW q \in Reqs, F!PostContainer(q)
        PROVE  DaemonInv'
    BY <2>8 DEF F!PostContainer
  <2>9. ASSUME NEW q \in Reqs, F!Created(q)
        PROVE  DaemonInv'
    BY <2>9 DEF F!Created, F!Bear
  <2>10. ASSUME NEW q \in Reqs, F!ImageMissing(q)
         PROVE  DaemonInv'
    BY <2>10 DEF F!ImageMissing
  <2>11. ASSUME NEW q \in Reqs, F!Pulled(q)
         PROVE  DaemonInv'
    BY <2>11 DEF F!Pulled
  <2>12. ASSUME NEW q \in Reqs, F!CreateFails(q)
         PROVE  DaemonInv'
    BY <2>12 DEF F!CreateFails
  <2>13. ASSUME NEW q \in Reqs, F!Start(q)
         PROVE  DaemonInv'
    BY <2>13 DEF F!Start
  <2>14. ASSUME NEW q \in Reqs, NEW c \in Containers, F!DeleteContainer(q, c)
         PROVE  DaemonInv'
    BY <2>14 DEF F!DeleteContainer
  <2>15. ASSUME NEW q \in Reqs, F!RemoveContainer(q)
         PROVE  DaemonInv'
    BY <2>15 DEF F!RemoveContainer
  <2>16. CASE F!List
    BY <2>16 DEF F!List, F!Listed
  <2>17. CASE F!PurgeFails
    BY <2>17 DEF F!PurgeFails
  <2>18. CASE Daemon
    BY <2>18, <2>6, <2>7, <2>8, <2>9, <2>10, <2>11, <2>12, <2>13, <2>14, <2>15,
       <2>16, <2>17 DEF Daemon
  <2>19. Dashboard \/ LogIn \/ UNCHANGED bastionVars => UNCHANGED fleetVars
    BY DEF Dashboard, LogIn, bastionVars, fleetVars
  <2> QED
    BY <2>1, <2>2, <2>3, <2>4, <2>5, <2>18, <2>19 DEF BastionNext
<1> QED
  BY <1>1, <1>2, PTL DEF BastionSpec

\* Every step of the whole program is one of Privileges or changes neither table,
\* page nor connection: the handlers ask for rows of containers the daemon has
\* made, and the refresher's list is a set of those.
THEOREM WholeImplementsPrivileges == BastionSpec => ImplementsPrivileges
<1>1. BastionInit => Init
  BY DEF BastionInit
<1>2. DaemonInv /\ [BastionNext]_bastionVars => [Next]_vars
  <2> SUFFICES ASSUME DaemonInv, [BastionNext]_bastionVars
               PROVE  Next \/ UNCHANGED vars
    OBVIOUS
  <2>1. CASE Dashboard
    BY <2>1 DEF Dashboard, GrantListed, Next, Manage
  <2>2. CASE LogIn
    BY <2>2 DEF LogIn, Next
  <2>3. ASSUME NEW q \in Reqs, InsertRow(q)
        PROVE  Next \/ UNCHANGED vars
    <3>1. reqs[q].cid \in Cids
      BY <2>3, BastionAssumption DEF InsertRow, DaemonInv, HandlersKnow
    <3> QED
      BY <2>3, <3>1 DEF InsertRow, Next, Manage
  <2>4. ASSUME NEW q \in Reqs, Unlist(q)
        PROVE  Next \/ UNCHANGED vars
    <3>1. reqs[q].cid \in Cids
      BY <2>4, BastionAssumption DEF Unlist, DaemonInv, HandlersKnow
    <3> QED
      BY <2>4, <3>1 DEF Unlist, Next, Manage
  <2>5. CASE Purge
    <3>1. ticker.ids \in SUBSET Cids
      BY BastionAssumption DEF DaemonInv
    <3> QED
      BY <2>5, <3>1 DEF Purge, Next, Manage
  <2>6. CASE Daemon
    BY <2>6 DEF Daemon
  <2>7. CASE BastionRestart
    BY <2>7 DEF BastionRestart, Next
  <2>8. CASE UNCHANGED bastionVars
    BY <2>8 DEF bastionVars, vars
  <2> QED
    BY <2>1, <2>2, <2>3, <2>4, <2>5, <2>6, <2>7, <2>8 DEF BastionNext
<1> QED
  BY <1>1, <1>2, DaemonIsKnown, PTL DEF BastionSpec, Spec, ImplementsPrivileges

\* What Privileges is proved to keep, the whole program keeps.
LEMMA WholeAgrees == BastionSpec => []IInv
BY WholeImplementsPrivileges, Agreement, PTL DEF ImplementsPrivileges

\* Accounts, access and logins keep AccessControl's promise with the daemon, the
\* requests that create and remove containers, and the refresher around them.
THEOREM WholeImplementsAccessControl == BastionSpec => ImplementsAccessControl
BY WholeImplementsPrivileges, Refinement, PTL DEF ImplementsPrivileges

\* A row of the table is one of Fleet's, and no two are the same one.
LEMMA RowsAre ==
  ASSUME IInv, NEW r \in containers, NEW q \in containers,
         q.cid = r.cid, q.user_id = r.user_id
  PROVE  q = r
BY DEF IInv, UniqueGrants

\* One more row in the table is one more of Fleet's.
LEMMA RowsOfOneMore ==
  ASSUME NEW c, NEW i, NEW a, NEW j, InsertGrant(c, i, a, j)
  PROVE  /\ ~ PairTaken(Rows, c, i)
         /\ Rows' = Rows \cup {[cid |-> c, user_id |-> i]}
<1> DEFINE new == [id |-> j, cid |-> c, user_id |-> i, for |-> a]
<1>1. containers' = containers \cup {new} /\ new.cid = c /\ new.user_id = i
  BY DEF InsertGrant
<1> HIDE DEF new
<1>2. Rows' = Rows \cup {[cid |-> c, user_id |-> i]}
  BY <1>1 DEF Rows
<1>3. ~ PairTaken(Rows, c, i)
  <2> SUFFICES ASSUME NEW r \in containers, r.cid = c, r.user_id = i
               PROVE  FALSE
    BY DEF PairTaken, Rows
  <2> QED
    BY DEF InsertGrant, PairTaken
<1> QED
  BY <1>2, <1>3

\* Every step of the whole program is one of Fleet or changes neither daemon,
\* handlers, refresher nor which container is whose: a revocation by row id takes
\* one row at most, and a deletion of a user by id the rows of that id.
THEOREM WholeImplementsFleet == BastionSpec => ImplementsFleet
<1>1. BastionInit => F!Init
  <2>1. BastionInit => Rows = {}
    BY DEF BastionInit, Init, Rows
  <2> QED
    BY <2>1 DEF BastionInit, F!Init
<1>2. IInv /\ DaemonInv /\ [BastionNext]_bastionVars => [F!Next]_(F!vars)
  <2> SUFFICES ASSUME IInv, DaemonInv, [BastionNext]_bastionVars
               PROVE  F!Next \/ UNCHANGED F!vars
    OBVIOUS
  <2>0. UNCHANGED containers => UNCHANGED Rows
    BY DEF Rows
  <2>1. ASSUME UNCHANGED <<containers, fleetVars>>
        PROVE  UNCHANGED F!vars
    BY <2>0, <2>1 DEF fleetVars, F!vars
  <2>2. ASSUME NEW p \in Pages, NEW e \in pages[p].users, DeleteUser(p, e),
               UNCHANGED fleetVars
        PROVE  F!Next
    <3>1. containers' = {r \in containers : r.user_id # e.id}
      BY <2>2 DEF DeleteUser, DeleteUserTx, DeleteGrantsOf
    <3>2. Rows' = F!DeleteGrantsOf(Rows, e.id)
      BY <3>1 DEF Rows, F!DeleteGrantsOf
    <3>3. e.id \in 1 .. MaxUserid
      BY DEF IInv, TypeOK, Page
    <3>4. F!DeleteUser(e.id)
      BY <2>2, <3>2 DEF F!DeleteUser, fleetVars
    <3> QED
      BY <3>3, <3>4 DEF F!Next
  <2>3. ASSUME NEW p \in Pages, NEW e \in pages[p].users, NEW c \in Cids,
               GrantListed(p, e, c), UNCHANGED fleetVars
        PROVE  F!Next
    <3>1. PICK j \in 1 .. MaxGrantid : InsertGrant(c, e.id, e.acct, j)
      BY <2>3 DEF GrantListed, Grant
    <3>2. ~ F!PairTaken(Rows, c, e.id) /\ Rows' = Rows \cup {[cid |-> c, user_id |-> e.id]}
      BY <3>1, RowsOfOneMore DEF F!PairTaken, PairTaken
    <3>3. e.id \in 1 .. MaxUserid
      BY DEF IInv, TypeOK, Page
    <3>4. c \in (Cids \ Containers) \cup {k \in Containers : F!Born(k)}
      BY <2>3 DEF GrantListed
    <3>5. F!Grant(e.id, c)
      BY <2>3, <3>2, <3>4 DEF F!Grant, fleetVars
    <3>6. c \in Containers \cup (Cids \ Containers)
      OBVIOUS
    <3> QED
      BY <3>3, <3>5, <3>6 DEF F!Next
  <2>4. ASSUME NEW p \in Pages, NEW j \in pages[p].privs, Revoke(p, j),
               UNCHANGED fleetVars
        PROVE  F!Next \/ UNCHANGED F!vars
    <3>1. containers' = {r \in containers : r.id # j}
      BY <2>4 DEF Revoke, DeleteById
    <3>2. CASE \A r \in containers : r.id # j
      BY <2>1, <2>4, <3>1, <3>2
    <3>3. ASSUME NEW r \in containers, r.id = j
          PROVE  F!Next
      <4>1. PICK s : s = [cid |-> r.cid, user_id |-> r.user_id]
        OBVIOUS
      <4>2. \A q \in containers : q.id = j <=> q = r
        BY <3>3 DEF IInv, UniqueGrants
      <4>3. \A q \in containers : [cid |-> q.cid, user_id |-> q.user_id] = s <=> q = r
        BY <4>1, RowsAre
      <4>4. s \in Rows /\ Rows' = Rows \ {s}
        BY <3>1, <4>1, <4>2, <4>3 DEF Rows
      <4>5. F!Revoke(s)
        BY <2>4, <4>4 DEF F!Revoke, fleetVars
      <4> QED
        BY <4>4, <4>5 DEF F!Next
    <3> QED
      BY <3>2, <3>3
  <2>5. CASE Dashboard
    <3>1. \A n \in Names, a \in Passwords : AddUser(n, a) => UNCHANGED containers
      BY DEF AddUser
    <3>2. \A p \in Pages : Users(p) => UNCHANGED containers
      BY DEF Users
    <3> QED
      BY <2>5, <2>1, <2>2, <2>3, <2>4, <3>1, <3>2 DEF Dashboard
  <2>6. CASE LogIn
    <3>1. UNCHANGED containers
      BY <2>6 DEF LogIn, Login, FindUser, Admit, Deny, QueryFails, Close
    <3> QED
      BY <2>1, <2>6, <3>1 DEF LogIn
  <2>7. ASSUME NEW q \in Reqs, InsertRow(q)
        PROVE  F!InsertRow(q)
    <3>1. CASE CreateContainer(reqs[q].cid) /\ F!Step(q, "start")
      <4>1. PICK j \in 1 .. MaxGrantid : InsertGrant(reqs[q].cid, NoUser, NoAccount, j)
        BY <3>1 DEF CreateContainer
      <4>2. /\ ~ F!PairTaken(Rows, reqs[q].cid, F!NoUser)
            /\ Rows' = Rows \cup {[cid |-> reqs[q].cid, user_id |-> F!NoUser]}
        BY <4>1, RowsOfOneMore DEF F!PairTaken, PairTaken, F!NoUser, NoUser
      <4> QED
        BY <2>7, <3>1, <4>2 DEF InsertRow, F!InsertRow
    <3>2. CASE F!Finish(q) /\ UNCHANGED vars
      <4>1. UNCHANGED Rows
        BY <2>0, <3>2 DEF vars
      <4> QED
        BY <2>7, <3>2, <4>1 DEF InsertRow, F!InsertRow
    <3> QED
      BY <2>7, <3>1, <3>2 DEF InsertRow
  <2>8. ASSUME NEW q \in Reqs, Unlist(q)
        PROVE  F!Unlist(q)
    <3>1. CASE DeleteContainer(reqs[q].cid)
      <4>1. containers' = {r \in containers : r.cid # reqs[q].cid}
        BY <3>1 DEF DeleteContainer, DeleteByCid
      <4>2. Rows' = F!DeleteByCid(Rows, reqs[q].cid)
        BY <4>1 DEF Rows, F!DeleteByCid
      <4> QED
        BY <2>8, <4>2 DEF Unlist, F!Unlist
    <3>2. CASE UNCHANGED vars
      <4>1. UNCHANGED Rows
        BY <2>0, <3>2 DEF vars
      <4> QED
        BY <2>8, <4>1 DEF Unlist, F!Unlist
    <3> QED
      BY <2>8, <3>1, <3>2 DEF Unlist
  <2>9. CASE Purge
    <3>1. containers' = {r \in containers : r.cid \in ticker.ids}
      BY <2>9 DEF Purge, refreshContainers, PurgeExcept
    <3>2. Rows' = F!Purged(Rows, ticker.ids)
      BY <3>1 DEF Rows, F!Purged, F!PurgeExcept
    <3>3. F!Purge
      BY <2>9, <3>2 DEF Purge, F!Purge
    <3> QED
      BY <3>3 DEF F!Next
  <2>10. CASE Daemon
    <3>1. \A q \in Reqs : F!Handler(q) => F!Next
      BY DEF F!Next
    <3>2. \A q \in Reqs :
             (\/ F!PostContainer(q) \/ F!Created(q) \/ F!ImageMissing(q) \/ F!Pulled(q)
              \/ F!CreateFails(q) \/ F!Start(q) \/ F!RemoveContainer(q)
              \/ \E c \in Containers : F!DeleteContainer(q, c)) => F!Handler(q)
      BY DEF F!Handler
    <3> QED
      BY <2>10, <3>1, <3>2 DEF Daemon, F!Next
  <2>11. CASE BastionRestart
    BY <2>11 DEF BastionRestart, F!Next
  <2>12. CASE UNCHANGED bastionVars
    <3>1. UNCHANGED <<containers, fleetVars>>
      BY <2>12 DEF bastionVars, fleetVars
    <3> QED
      BY <2>1, <3>1
  <2>13. \A q \in Reqs : F!InsertRow(q) \/ F!Unlist(q) => F!Next
    BY DEF F!Next, F!Handler
  <2> QED
    BY <2>5, <2>6, <2>7, <2>8, <2>9, <2>10, <2>11, <2>12, <2>13 DEF BastionNext
<1> QED
  BY <1>1, <1>2, WholeAgrees, DaemonIsKnown, PTL
     DEF BastionSpec, F!Spec, ImplementsFleet

\* An account loses its access to a container that exists only by a revocation
\* or to a list older than the container: the ids by which stale tabs delete users
\* are not those of other accounts' rows (api.go:255-280), DeleteContainer forgets
\* only what it has removed, and the purge spares what its list has.
THEOREM AccessIsKept == BastionSpec => AccessLostOnlyWhenTaken
<1> DEFINE A == \A r \in containers \ containers' :
                  r.cid \in Containers /\ F!Exists(r.cid) /\ Live(r.for) =>
                    \/ ~ Live(r.for)'
                    \/ \E p \in Pages : Revoke(p, r.id)
                    \/ r.cid \in fresh
<1>1. IInv /\ DaemonInv /\ [BastionNext]_bastionVars => [A]_bastionVars
  <2> SUFFICES ASSUME IInv, DaemonInv, BastionNext,
                      NEW r \in containers, r \notin containers',
                      r.cid \in Containers, F!Exists(r.cid), Live(r.for), Live(r.for)',
                      r.cid \notin fresh
               PROVE  \E p \in Pages : Revoke(p, r.id)
    OBVIOUS
  <2>1. PICK u \in users : u.password = r.for
    BY DEF Live
  <2>2. u.id = r.user_id
    BY <2>1 DEF IInv, GrantsAgree
  <2>3. ASSUME NEW p \in Pages, NEW e \in pages[p].users, DeleteUser(p, e)
        PROVE  FALSE
    <3>1. r.user_id = e.id
      BY <2>3 DEF DeleteUser, DeleteUserTx, DeleteGrantsOf
    <3>2. PICK v \in users' : v.password = r.for
      BY DEF Live
    <3>3. v \in users /\ v.id # e.id
      BY <2>3, <3>2 DEF DeleteUser, DeleteUserTx, DeleteById
    <3>4. v = u
      BY <2>1, <3>2, <3>3 DEF IInv, UniqueUsers
    <3> QED
      BY <2>2, <3>1, <3>3, <3>4
  <2>4. ASSUME NEW p \in Pages, NEW j \in pages[p].privs, Revoke(p, j)
        PROVE  Revoke(p, r.id)
    <3>1. r.id = j
      BY <2>4 DEF Revoke, DeleteById
    <3> QED
      BY <2>4, <3>1
  <2>5. ASSUME NEW q \in Reqs, Unlist(q)
        PROVE  FALSE
    <3>1. r.cid = reqs[q].cid
      BY <2>5 DEF Unlist, DeleteContainer, DeleteByCid, vars
    <3> QED
      BY <2>5, <3>1 DEF Unlist, DaemonInv, HandlersKnow
  <2>6. ASSUME Purge
        PROVE  FALSE
    <3>1. r.cid \notin ticker.ids
      BY <2>6 DEF Purge, refreshContainers, PurgeExcept
    <3> QED
      BY <2>6, <3>1 DEF Purge, DaemonInv, ListIsComplete
  <2>7. ASSUME NEW q \in Reqs, InsertRow(q)
        PROVE  FALSE
    BY <2>7 DEF InsertRow, CreateContainer, InsertGrant, vars
  <2>8. ASSUME UNCHANGED containers
        PROVE  FALSE
    BY <2>8
  <2>9. CASE Dashboard
    <3>1. \A n \in Names, a \in Passwords : AddUser(n, a) => UNCHANGED containers
      BY DEF AddUser
    <3>2. \A p \in Pages : Users(p) => UNCHANGED containers
      BY DEF Users
    <3>3. \A p \in Pages : \A e \in pages[p].users, c \in Cids :
             GrantListed(p, e, c) => containers \subseteq containers'
      BY DEF GrantListed, Grant, InsertGrant
    <3> QED
      BY <2>3, <2>4, <2>8, <2>9, <3>1, <3>2, <3>3 DEF Dashboard
  <2>10. LogIn \/ Daemon \/ BastionRestart => UNCHANGED containers
    BY DEF LogIn, Login, FindUser, Admit, Deny, QueryFails, Close, Daemon, vars,
           BastionRestart, Restart
  <2> QED
    BY <2>5, <2>6, <2>7, <2>8, <2>9, <2>10 DEF BastionNext
<1> QED
  BY <1>1, WholeAgrees, DaemonIsKnown, PTL DEF BastionSpec, AccessLostOnlyWhenTaken
=============================================================================
