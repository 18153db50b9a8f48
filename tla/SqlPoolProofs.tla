--------------------------- MODULE SqlPoolProofs ---------------------------
(***************************************************************************)
(* Theorems about SqlPool. What keeps transactions apart is that a         *)
(* connection serves one request, and that whoever commits has on its      *)
(* connection exactly its own changes: DeleteUser because a BEGIN inside a *)
(* transaction fails, a single statement because it commits only outside   *)
(* of one. The locks have no part in it.                                   *)
(***************************************************************************)
EXTENDS SqlPool, FileLocksProofs

ReqRec == [kind : Kinds, pc : {"idle", "ok", "error", "gone"} \union Running,
           conn : Conns \union {NoConn}, stmt : {1, 2}, busy : 0..MaxBusy]

\* Where a request may be whose changes are, or may be, in the database.
Over == {"done", "ok", "gone"}

Own(r) == {<<r, 1>>, <<r, 2>>}

Single == {"write", "forget"}

\* What nobody will commit though it was answered with success.
Lost == joined \union ignored

\* A request has a connection while it is served.
ConnOK(r) == IF req[r].pc \in Running THEN req[r].conn \in Conns ELSE req[r].conn = NoConn

Progress(r) ==
  /\ req[r].pc \in {"idle", "begin"} => req[r].stmt = 1
  /\ req[r].pc = "begin" => req[r].kind = "delete"
  /\ (req[r].kind \in Single /\ req[r].pc \in {"run", "reserve"}) => req[r].stmt = 1
  /\ req[r].pc \in {"reserve", "commit", "write"} => req[r].kind # "read"
  /\ req[r].pc = "reading" => req[r].kind = "read"

\* What the connection's transaction holds.
Transaction(r) ==
  /\ (req[r].kind = "delete" /\ req[r].pc \in {"run", "reserve"})
       => /\ req[r].conn \in explicit
          /\ pending[req[r].conn] = IF req[r].stmt = 2 THEN {<<r, 1>>} ELSE {}
  /\ req[r].pc \in {"commit", "write"}
       => /\ pending[req[r].conn] = Changes(r)
          /\ req[r].conn \in explicit <=> req[r].kind = "delete"
  /\ (req[r].pc \in Running \ {"commit", "write"} /\ req[r].conn \notin explicit)
       => pending[req[r].conn] = {}

LockHeld(r) ==
  /\ req[r].pc = "reserve" => lock[req[r].conn] >= Shared
  /\ req[r].pc = "commit" => lock[req[r].conn] >= Reserved

\* What is in the database, or will never be.
Stored(r) ==
  /\ req[r].pc \notin Over => Own(r) \cap (db \union Lost) = {}
  /\ req[r].pc \in {"done", "ok"} => Changes(r) \subseteq db \union Lost
  /\ Own(r) \cap ignored # {} => req[r].kind = "forget"
  /\ req[r].kind = "delete" => (<<r, 1>> \in db <=> <<r, 2>> \in db)

ReqOK(r) == ConnOK(r) /\ Progress(r) /\ Transaction(r) /\ LockHeld(r) /\ Stored(r)

OneEach == \A r, q \in Requests : (r # q /\ req[r].conn \in Conns) => req[q].conn # req[r].conn

FreeOK == \A r \in Requests : req[r].conn \notin free

IdleClean == \A c \in Conns \ explicit :
  (\A r \in Requests : req[r].conn # c) => pending[c] = {}

Apart == Lost \cap db = {}

IInv == /\ TypeOK
        /\ LocksInv
        /\ \A r \in Requests : ReqOK(r)
        /\ OneEach
        /\ FreeOK
        /\ IdleClean
        /\ Apart

-----------------------------------------------------------------------------
(* The step of one request                                                  *)

OnlyReq(r) == /\ req' \in [Requests -> ReqRec]
              /\ \A q \in Requests : q # r => req'[q] = req[q]

\* What may change with connection c, ...
OnlyConn(c) ==
  /\ pending' \in [Conns -> SUBSET AllChanges]
  /\ explicit' \subseteq Conns
  /\ \A d \in Conns : d # c => /\ pending'[d] = pending[d]
                               /\ d \in explicit' <=> d \in explicit
                               /\ lock'[d] = lock[d]
  /\ [LocksNext]_lockVars

\* ... and of the data with request r.
OnlyData(r) ==
  /\ db \subseteq db' /\ db' \subseteq db \union Own(r)
  /\ joined \subseteq joined' /\ joined' \subseteq joined \union Own(r)
  /\ ignored \subseteq ignored' /\ ignored' \subseteq ignored \union Own(r)
  /\ Apart'

\* The others do not notice.
LEMMA OthersOK ==
  ASSUME IInv, NEW r \in Requests, NEW c \in Conns, NEW q \in Requests, q # r,
         req[q].conn # c, OnlyReq(r), OnlyConn(c), OnlyData(r)
  PROVE  ReqOK(q)'
<1>1. ReqOK(q) /\ req'[q] = req[q]  BY DEF IInv, OnlyReq
<1>2. req[q] \in ReqRec  BY DEF IInv, TypeOK, ReqRec
<1>3. req[q].pc \in Running =>
        /\ req[q].conn \in Conns
        /\ pending'[req[q].conn] = pending[req[q].conn]
        /\ req[q].conn \in explicit' <=> req[q].conn \in explicit
        /\ lock'[req[q].conn] = lock[req[q].conn]
  BY <1>1 DEF ReqOK, ConnOK, OnlyConn
<1>4. {"run", "reserve", "commit", "write"} \subseteq Running  BY DEF Running
<1>5. ConnOK(q)' /\ Progress(q)'  BY <1>1 DEF ReqOK, ConnOK, Progress
<1>6. Changes(q)' = Changes(q)  BY <1>1 DEF Changes
<1>7. Transaction(q)'
  BY <1>1, <1>3, <1>4, <1>6 DEF ReqOK, Transaction
<1>8. LockHeld(q)'  BY <1>1, <1>3, <1>4 DEF ReqOK, LockHeld
<1>9. Stored(q)'
  <2>1. \A i : <<q, i>> \notin Own(r)  BY DEF Own
  <2>2. \A i : /\ <<q, i>> \in db' <=> <<q, i>> \in db
               /\ <<q, i>> \in joined' <=> <<q, i>> \in joined
               /\ <<q, i>> \in ignored' <=> <<q, i>> \in ignored
    BY <2>1 DEF OnlyData
  <2>3. /\ Own(q) \cap (db \union Lost) = {} => Own(q) \cap (db' \union Lost') = {}
        /\ Own(q) \cap ignored' # {} => Own(q) \cap ignored # {}
    BY <2>2 DEF Own, Lost
  <2>4. Changes(q) \subseteq db \union Lost => Changes(q) \subseteq db' \union Lost'
    BY DEF OnlyData, Lost
  <2> QED  BY <1>1, <1>6, <2>2, <2>3, <2>4 DEF ReqOK, Stored, Own
<1> QED  BY <1>5, <1>7, <1>8, <1>9 DEF ReqOK

LEMMA Step ==
  ASSUME IInv, NEW r \in Requests, NEW c \in Conns,
         \A q \in Requests : q # r => req[q].conn # c,
         req[r].conn \in {c, NoConn},
         OnlyReq(r), OnlyConn(c), OnlyData(r), ReqOK(r)',
         req'[r].conn \in {c, NoConn},
         free' \subseteq free \union {c},
         req'[r].conn = c => c \notin free',
         (req'[r].conn = NoConn /\ c \notin explicit') => pending'[c] = {}
  PROVE  IInv'
<1>1. LocksInv'  BY LocksKeep DEF IInv, OnlyConn
<1>2. TypeOK'
  <2>1. Own(r) \subseteq AllChanges  BY DEF Own, AllChanges
  <2>2. db' \subseteq AllChanges /\ joined' \subseteq AllChanges /\ ignored' \subseteq AllChanges
    BY <2>1 DEF IInv, TypeOK, OnlyData
  <2>3. free' \subseteq Conns  BY DEF IInv, TypeOK
  <2> QED  BY <1>1, <2>2, <2>3 DEF TypeOK, LocksInv, OnlyReq, OnlyConn, ReqRec
<1>3. ASSUME NEW q \in Requests PROVE ReqOK(q)'
  <2>1. CASE q = r  BY <2>1
  <2>2. CASE q # r  BY <2>2, OthersOK
  <2> QED  BY <2>1, <2>2
<1>4. OneEach'  BY PoolAssumption DEF IInv, OneEach, OnlyReq
<1>5. FreeOK'
  <2>1. NoConn \notin free'  BY PoolAssumption DEF IInv, TypeOK
  <2> QED  BY <2>1 DEF IInv, FreeOK, OnlyReq
<1>6. IdleClean'
  <2> SUFFICES ASSUME NEW d \in Conns \ explicit', \A q \in Requests : req'[q].conn # d
      PROVE  pending'[d] = {}
    BY DEF IdleClean
  <2>1. CASE d = c  BY <2>1
  <2>2. CASE d # c
    <3>1. \A q \in Requests : req[q].conn # d  BY <2>2, PoolAssumption DEF OnlyReq
    <3> QED  BY <2>2, <3>1 DEF IInv, IdleClean, OnlyConn
  <2> QED  BY <2>1, <2>2
<1> QED  BY <1>1, <1>2, <1>3, <1>4, <1>5, <1>6 DEF IInv, OnlyData
-----------------------------------------------------------------------------
(* What handlers do                                                         *)

\* The connection in hand is nobody else's.
LEMMA Mine ==
  ASSUME IInv, NEW r \in Requests, req[r].pc \in Running
  PROVE  /\ req[r].conn \in Conns /\ req[r].conn # NoConn
         /\ req[r].conn \notin free
         /\ \A q \in Requests : q # r => req[q].conn # req[r].conn
         /\ req[r] \in ReqRec
<1>1. req[r].conn \in Conns  BY DEF IInv, ReqOK, ConnOK
<1> QED  BY <1>1, PoolAssumption DEF IInv, OneEach, FreeOK, TypeOK, ReqRec

\* A handler goes on with its connection.
LEMMA GoOn ==
  ASSUME IInv, NEW r \in Requests, NEW c, c = req[r].conn, req[r].pc \in Running,
         OnlyReq(r), OnlyConn(c), OnlyData(r), ReqOK(r)',
         req'[r].conn = c, UNCHANGED free
  PROVE  IInv'
<1>1. c \in Conns /\ c # NoConn /\ c \notin free /\ \A q \in Requests : q # r => req[q].conn # c
  BY Mine
<1> QED  BY <1>1, Step

LEMMA GotoIs ==
  ASSUME IInv, NEW r \in Requests, NEW p \in Running, Goto(r, p)
  PROVE  /\ OnlyReq(r)
         /\ req'[r].pc = p /\ req'[r].kind = req[r].kind /\ req'[r].conn = req[r].conn
         /\ req'[r].stmt = req[r].stmt
<1>1. req \in [Requests -> ReqRec]  BY DEF IInv, TypeOK, ReqRec
<1>2. req'[r] = [req[r] EXCEPT !.pc = p]  BY <1>1 DEF Goto
<1>3. [req[r] EXCEPT !.pc = p] \in ReqRec  BY <1>1 DEF ReqRec
<1> QED  BY <1>1, <1>2, <1>3 DEF Goto, OnlyReq, ReqRec

LEMMA AgainIs ==
  ASSUME IInv, NEW r \in Requests, Again(r), req[r].pc \in {"run", "reserve", "commit"}
  PROVE  /\ OnlyReq(r)
         /\ req'[r].pc = IF req[r].pc = "commit" THEN "commit" ELSE "run"
         /\ req'[r].kind = req[r].kind /\ req'[r].conn = req[r].conn
         /\ req'[r].stmt = req[r].stmt
<1> DEFINE e == [req[r] EXCEPT !.busy = @ + 1, !.pc = IF @ = "commit" THEN @ ELSE "run"]
<1>1. req \in [Requests -> ReqRec]  BY DEF IInv, TypeOK, ReqRec
<1>2. req' = [req EXCEPT ![r] = e]  BY <1>1 DEF Again
<1>3. req[r].busy + 1 \in 0..MaxBusy  BY <1>1, PoolAssumption DEF Again, ReqRec
<1>4. e \in ReqRec  BY <1>1, <1>3 DEF ReqRec, Running
<1>5. e.pc = (IF req[r].pc = "commit" THEN "commit" ELSE "run") /\ e.kind = req[r].kind
      /\ e.conn = req[r].conn /\ e.stmt = req[r].stmt
  BY <1>1 DEF ReqRec
<1> HIDE DEF e
<1> QED  BY <1>1, <1>2, <1>4, <1>5 DEF OnlyReq

LEMMA EndedIs ==
  ASSUME IInv, NEW r \in Requests, NEW p \in Running, Ended(r, p)
  PROVE  /\ OnlyReq(r)
         /\ req'[r].pc = p /\ req'[r].kind = req[r].kind /\ req'[r].conn = req[r].conn
         /\ req'[r].stmt = 2
<1> DEFINE b == IF req[r].conn \in explicit THEN 0 ELSE req[r].busy
           e == [req[r] EXCEPT !.pc = p, !.stmt = 2, !.busy = b]
<1>1. req \in [Requests -> ReqRec]  BY DEF IInv, TypeOK, ReqRec
<1>2. req' = [req EXCEPT ![r] = e]  BY <1>1 DEF Ended
<1>3. b \in 0..MaxBusy  BY <1>1, PoolAssumption DEF ReqRec
<1> HIDE DEF b
<1>4. e \in ReqRec  BY <1>1, <1>3 DEF ReqRec
<1>5. e.pc = p /\ e.kind = req[r].kind /\ e.conn = req[r].conn /\ e.stmt = 2
  BY <1>1 DEF ReqRec
<1> HIDE DEF e
<1> QED  BY <1>1, <1>2, <1>4, <1>5 DEF OnlyReq

\* Locks asked for and given back, with the transaction as it is.
LEMMA Asked ==
  ASSUME IInv, NEW c \in Conns, NEW l \in {Shared, Reserved, Exclusive},
         Lock(c, l) \/ (Refused(c, l) /\ lock[c] # NoLock),
         lock[c] = NoLock => l = Shared,
         l = Reserved => lock[c] >= Shared,
         UNCHANGED <<pending, explicit>>
  PROVE  /\ OnlyConn(c)
         /\ Lock(c, l) => lock'[c] >= l
         /\ Refused(c, l) => lock'[c] \in {lock[c], Pending}
<1> USE NumbersAre DEF Numbers
<1>1. LocksInv /\ l \in Levels /\ lock \in [Conns -> Levels]
  BY DEF IInv, LocksInv, LocksTypeOK
<1>2. /\ Lock(c, l) => lock'[c] = (IF lock[c] >= l THEN lock[c] ELSE l)
      /\ Refused(c, l) => lock'[c] \in {lock[c], Pending}
      /\ \A d \in Conns : d # c => lock'[d] = lock[d]
  BY <1>1, OneLock
<1>3. [LocksNext]_lockVars
  <2>1. CASE Lock(c, l) /\ lock[c] >= l  BY <2>1 DEF Lock
  <2>2. CASE ~(lock[c] >= l)
    <3>1. l = Reserved => lock[c] = Shared  BY <1>1, <2>2
    <3> QED  BY <1>1, <3>1 DEF LocksNext, AskFor
  <2>3. CASE Refused(c, l)
    <3>1. l = Reserved => lock[c] = Shared  BY <1>1, <2>3 DEF Refused
    <3> QED  BY <1>1, <2>3, <3>1 DEF LocksNext, AskFor
  <2> QED  BY <2>1, <2>2, <2>3
<1>4. pending' \in [Conns -> SUBSET AllChanges] /\ explicit' \subseteq Conns
  BY DEF IInv, TypeOK
<1>5. Lock(c, l) => lock'[c] >= l  BY <1>1, <1>2
<1> QED  BY <1>2, <1>3, <1>4, <1>5 DEF OnlyConn

LEMMA GivenBack ==
  ASSUME IInv, NEW c \in Conns, Unlock(c, NoLock),
         pending' \in [Conns -> SUBSET AllChanges], explicit' \subseteq Conns,
         \A d \in Conns : d # c => /\ pending'[d] = pending[d]
                                   /\ d \in explicit' <=> d \in explicit
  PROVE  OnlyConn(c)
<1>1. LocksInv /\ NoLock \in Levels  BY NumbersAre DEF IInv, Numbers
<1>2. \A d \in Conns : d # c => lock'[d] = lock[d]  BY <1>1, OneLock
<1>3. LocksNext  BY DEF LocksNext, GoDown
<1> QED  BY <1>2, <1>3 DEF OnlyConn

LEMMA RolledBack ==
  ASSUME IInv, NEW c \in Conns, RollbackAll(c)
  PROVE  OnlyConn(c) /\ pending'[c] = {} /\ c \notin explicit'
<1>1. /\ pending' \in [Conns -> SUBSET AllChanges] /\ explicit' \subseteq Conns
      /\ pending'[c] = {} /\ c \notin explicit'
      /\ \A d \in Conns : d # c => /\ pending'[d] = pending[d]
                                   /\ d \in explicit' <=> d \in explicit
  BY DEF RollbackAll, IInv, TypeOK
<1> QED  BY <1>1, GivenBack DEF RollbackAll

LEMMA LocksStill ==
  ASSUME IInv, NEW c \in Conns, UNCHANGED lockVars,
         pending' \in [Conns -> SUBSET AllChanges], explicit' \subseteq Conns,
         \A d \in Conns : d # c => /\ pending'[d] = pending[d]
                                   /\ d \in explicit' <=> d \in explicit
  PROVE  OnlyConn(c) /\ lock'[c] = lock[c]
<1>1. lock' = lock  BY DEF lockVars
<1> QED  BY <1>1 DEF OnlyConn

LEMMA DataStill == ASSUME IInv, NEW r, UNCHANGED <<db, joined, ignored>> PROVE OnlyData(r)
BY DEF IInv, Apart, Lost, OnlyData

\* Changes go by the kind of a request, which stays.
LEMMA ChangesAre ==
  ASSUME NEW r
  PROVE  /\ req[r].kind = "delete" => Changes(r) = Own(r)
         /\ req[r].kind \in Single => Changes(r) = {<<r, 1>>}
         /\ req[r].kind = "read" => Changes(r) = {}
         /\ req'[r].kind = req[r].kind => Changes(r)' = Changes(r)
BY DEF Changes, Own, Single
-----------------------------------------------------------------------------
(* One lemma per action                                                     *)

\* A step on the way that commits nothing.
LEMMA Quiet ==
  ASSUME IInv, NEW r \in Requests, req[r].pc \in Running, req[r].pc \notin Over,
         UNCHANGED <<db, joined, ignored, free>>,
         OnlyReq(r), OnlyConn(req[r].conn),
         req'[r].kind = req[r].kind, req'[r].conn = req[r].conn, req'[r].pc \in Running,
         req'[r].pc = "done" => req[r].kind = "read",
         Progress(r)', Transaction(r)', LockHeld(r)'
  PROVE  IInv'
<1>1. Stored(r) /\ ConnOK(r)  BY DEF IInv, ReqOK
<1>2. "ok" \notin Running /\ "gone" \notin Running  BY DEF Running
<1>3. Stored(r)'
  <2>1. req'[r].pc \in {"done", "ok"} => Changes(r)' = {}
    BY <1>2, ChangesAre
  <2> QED  BY <1>1, <2>1 DEF Stored, Lost
<1>4. ConnOK(r)'  BY <1>1 DEF ConnOK
<1>5. ReqOK(r)'  BY <1>3, <1>4 DEF ReqOK
<1> QED  BY <1>5, DataStill, GoOn

LEMMA BeginKeeps ==
  ASSUME IInv, NEW r \in Requests, Begin(r)
  PROVE  IInv'
<1> DEFINE c == req[r].conn
           p == IF c \in explicit THEN "failed" ELSE "run"
<1>1. req[r].pc = "begin" /\ Goto(r, p) /\ explicit' = explicit \union {c}
      /\ UNCHANGED <<lockVars, db, pending, free, joined, ignored>>
  BY DEF Begin, At
<1>2. req[r].pc \in Running /\ p \in Running /\ req[r].pc \notin Over  BY <1>1 DEF Running, Over
<1>3. c \in Conns  BY <1>2, Mine
<1>4. ReqOK(r)  BY DEF IInv
<1>5. /\ OnlyReq(r)
      /\ req'[r].pc = p /\ req'[r].kind = req[r].kind /\ req'[r].conn = c
      /\ req'[r].stmt = req[r].stmt
  BY <1>1, <1>2, GotoIs
<1>6. OnlyConn(c)
  <2>1. pending' \in [Conns -> SUBSET AllChanges] /\ explicit' \subseteq Conns
    BY <1>1, <1>3 DEF IInv, TypeOK
  <2> QED  BY <1>1, <1>3, <2>1, LocksStill
<1>7. Progress(r)'  BY <1>1, <1>4, <1>5 DEF ReqOK, Progress
<1>8. Transaction(r)'
  BY <1>1, <1>2, <1>4, <1>5 DEF ReqOK, Progress, Transaction
<1>9. LockHeld(r)'  BY <1>5 DEF LockHeld
<1> QED  BY <1>1, <1>2, <1>5, <1>6, <1>7, <1>8, <1>9, Quiet

LEMMA TakeSharedKeeps ==
  ASSUME IInv, NEW r \in Requests, TakeShared(r)
  PROVE  IInv'
<1> DEFINE c == req[r].conn
           p == IF req[r].kind = "read" THEN "reading" ELSE "reserve"
<1>1. req[r].pc = "run" /\ Goto(r, p) /\ Lock(c, Shared)
      /\ UNCHANGED <<db, pending, explicit, joined, ignored, free>>
  BY DEF TakeShared, At, data
<1>2. req[r].pc \in Running /\ p \in Running /\ req[r].pc \notin Over  BY <1>1 DEF Running, Over
<1>3. c \in Conns  BY <1>2, Mine
<1>4. ReqOK(r)  BY DEF IInv
<1>5. /\ OnlyReq(r)
      /\ req'[r].pc = p /\ req'[r].kind = req[r].kind /\ req'[r].conn = c
      /\ req'[r].stmt = req[r].stmt
  BY <1>1, <1>2, GotoIs
<1>6. OnlyConn(c) /\ lock'[c] >= Shared
  BY <1>1, <1>3, Asked, NumbersAre DEF Numbers
<1>7. Progress(r)'  BY <1>1, <1>4, <1>5 DEF ReqOK, Progress
<1>8. Transaction(r)'  BY <1>1, <1>2, <1>4, <1>5 DEF ReqOK, Transaction
<1>9. LockHeld(r)'  BY <1>5, <1>6 DEF LockHeld
<1> QED  BY <1>1, <1>2, <1>5, <1>6, <1>7, <1>8, <1>9, Quiet

\* The statement of a request is done; the last one of a single statement that
\* has got into somebody's transaction is the end of it.
LEMMA ChangeKeeps ==
  ASSUME IInv, NEW r \in Requests, Change(r)
  PROVE  IInv'
<1> DEFINE c == req[r].conn
           p == AfterChange(r)
<1>1. /\ req[r].pc = "reserve" /\ Lock(c, Reserved)
      /\ pending' = [pending EXCEPT ![c] = @ \union {<<r, req[r].stmt>>}]
      /\ joined' = IF c \in explicit /\ req[r].kind # "delete" THEN joined \union {<<r, 1>>}
                   ELSE joined
      /\ Ended(r, p)
      /\ UNCHANGED <<db, explicit, free, ignored>>
  BY DEF Change, At
<1>2. req[r].pc \in Running /\ p \in Running /\ req[r].pc \notin Over
  BY <1>1 DEF Running, Over, AfterChange
<1>3. c \in Conns /\ req[r] \in ReqRec  BY <1>2, Mine
<1>4. ReqOK(r) /\ lock[c] >= Shared  BY <1>1 DEF IInv, ReqOK, LockHeld
<1>5. /\ OnlyReq(r)
      /\ req'[r].pc = p /\ req'[r].kind = req[r].kind /\ req'[r].conn = c
      /\ req'[r].stmt = 2
  BY <1>1, <1>2, EndedIs
<1> HIDE DEF p
<1>6. /\ pending \in [Conns -> SUBSET AllChanges]
      /\ req[r].stmt \in {1, 2}
      /\ req[r].kind = "delete" \/ req[r].kind \in Single
      /\ "delete" \notin Single
  BY <1>1, <1>3, <1>4 DEF IInv, TypeOK, ReqRec, Kinds, ReqOK, Progress, Single
<1>7. /\ pending' \in [Conns -> SUBSET AllChanges]
      /\ pending'[c] = pending[c] \union {<<r, req[r].stmt>>}
      /\ \A d \in Conns : d # c => pending'[d] = pending[d]
  <2>1. <<r, req[r].stmt>> \in AllChanges  BY <1>6 DEF AllChanges
  <2> QED  BY <1>1, <1>3, <1>6, <2>1
<1>8. OnlyConn(c) /\ lock'[c] >= Reserved
  <2>1. /\ LocksInv /\ lock \in [Conns -> Levels] /\ Reserved \in Levels
    BY NumbersAre DEF IInv, LocksInv, LocksTypeOK, Numbers
  <2>2. lock'[c] = (IF lock[c] >= Reserved THEN lock[c] ELSE Reserved)
        /\ \A d \in Conns : d # c => lock'[d] = lock[d]
    BY <1>1, <1>3, <2>1, OneLock
  <2>3. [LocksNext]_lockVars
    <3>1. CASE lock[c] >= Reserved  BY <1>1, <3>1 DEF Lock
    <3>2. CASE ~(lock[c] >= Reserved)
      <4>1. lock[c] = Shared  BY <1>3, <1>4, <2>1, <3>2, NumbersAre DEF Numbers
      <4>2. AskFor(c, Reserved)  BY <1>1, <4>1, NumbersAre DEF AskFor, Numbers
      <4> QED  BY <1>3, <2>1, <4>2 DEF LocksNext
    <3> QED  BY <3>1, <3>2
  <2>4. explicit' \subseteq Conns  BY <1>1 DEF IInv, TypeOK
  <2>5. lock'[c] >= Reserved  BY <1>3, <2>1, <2>2, NumbersAre DEF Numbers
  <2> QED  BY <1>1, <1>7, <2>2, <2>3, <2>4, <2>5 DEF OnlyConn
<1>9. Own(r) \cap (db \union Lost) = {}  BY <1>2, <1>4 DEF ReqOK, Stored
<1>10. OnlyData(r)
  <2>1. <<r, 1>> \notin db  BY <1>9 DEF Own
  <2>2. Apart'  BY <1>1, <2>1 DEF IInv, Apart, Lost
  <2> QED  BY <1>1, <2>2 DEF OnlyData, Own
<1>11. CASE c \notin explicit
  <2>1. p = "commit" /\ req[r].kind \in Single /\ req[r].stmt = 1 /\ pending[c] = {}
    BY <1>1, <1>2, <1>4, <1>6, <1>11 DEF p, AfterChange, ReqOK, Transaction, Progress
  <2>2. Changes(r)' = {<<r, 1>>}  BY <1>5, <2>1, ChangesAre
  <2>3. Progress(r)' /\ LockHeld(r)'  BY <1>5, <1>8, <2>1 DEF Progress, LockHeld, Single
  <2>4. Transaction(r)'  BY <1>1, <1>5, <1>6, <1>7, <1>11, <2>1, <2>2 DEF Transaction
  <2>5. UNCHANGED joined  BY <1>1, <1>11
  <2> QED  BY <1>1, <1>2, <1>5, <1>8, <2>1, <2>3, <2>4, <2>5, Quiet
<1>12. CASE c \in explicit /\ req[r].kind = "delete"
  <2>1. p = IF req[r].stmt = 1 THEN "run" ELSE "commit"
    BY <1>12 DEF p, AfterChange
  <2>2. pending[c] = IF req[r].stmt = 2 THEN {<<r, 1>>} ELSE {}
    BY <1>1, <1>4, <1>12 DEF ReqOK, Transaction
  <2>3. Changes(r)' = Own(r)  BY <1>5, <1>12, ChangesAre
  <2>4. Progress(r)' /\ LockHeld(r)'  BY <1>5, <1>6, <1>8, <1>12, <2>1 DEF Progress, LockHeld
  <2>5. Transaction(r)'
    <3>1. CASE req[r].stmt = 1
      BY <1>1, <1>5, <1>7, <1>12, <2>1, <2>2, <3>1 DEF Transaction
    <3>2. CASE req[r].stmt = 2
      <4>1. pending'[c] = Own(r)  BY <1>7, <2>2, <3>2 DEF Own
      <4> QED  BY <1>1, <1>5, <1>12, <2>1, <2>3, <3>2, <4>1 DEF Transaction
    <3> QED  BY <1>6, <3>1, <3>2
  <2>6. UNCHANGED joined /\ p # "done"  BY <1>1, <1>12, <2>1
  <2> QED  BY <1>1, <1>2, <1>5, <1>8, <2>4, <2>5, <2>6, Quiet
<1>13. CASE c \in explicit /\ req[r].kind \in Single
  <2>1. p = "done" /\ joined' = joined \union {<<r, 1>>}
    BY <1>1, <1>6, <1>13 DEF p, AfterChange
  <2>2. Changes(r)' = {<<r, 1>>}  BY <1>5, <1>13, ChangesAre
  <2>3. Progress(r)' /\ LockHeld(r)' /\ Transaction(r)'
    BY <1>1, <1>5, <1>13, <2>1 DEF Progress, LockHeld, Transaction, Single
  <2>4. Stored(r)'
    <3>1. Stored(r)  BY <1>4 DEF ReqOK
    <3> QED  BY <1>1, <1>5, <1>6, <1>9, <1>13, <2>1, <2>2, <3>1 DEF Stored, Over, Lost
  <2>5. ConnOK(r)'  BY <1>2, <1>3, <1>5 DEF ConnOK
  <2>6. ReqOK(r)'  BY <2>3, <2>4, <2>5 DEF ReqOK
  <2> QED  BY <1>1, <1>2, <1>5, <1>8, <1>10, <2>6, GoOn
<1> QED  BY <1>6, <1>11, <1>12, <1>13

\* Locks let go, or kept, with the transaction as it is.
LEMMA LetGo ==
  ASSUME IInv, NEW c \in Conns, Unlock(c, NoLock) \/ UNCHANGED lockVars,
         UNCHANGED <<pending, explicit>>
  PROVE  OnlyConn(c)
<1>1. pending' \in [Conns -> SUBSET AllChanges] /\ explicit' \subseteq Conns
  BY DEF IInv, TypeOK
<1> QED  BY <1>1, LocksStill, GivenBack

\* A request fails: it is on its way to an error or, if nobody looks at the error, to
\* an answer like any other.
LEMMA FailsKeeps ==
  ASSUME IInv, NEW r \in Requests, req[r].pc \in Running, req[r].pc \notin Over,
         NEW p \in {"rollback", "failed"}, Fails(r, p), OnlyConn(req[r].conn),
         req[r].pc \notin {"idle", "begin", "reading"} \/ req[r].kind # "forget",
         req[r].conn \notin explicit' => pending'[req[r].conn] = {},
         UNCHANGED <<db, free, joined>>
  PROVE  IInv'
<1> DEFINE c == req[r].conn
<1>1. {"rollback", "failed", "done"} \subseteq Running /\ p \notin Over
      /\ "ok" \notin Running /\ "gone" \notin Running
  BY DEF Running, Over
<1>2. c \in Conns /\ ReqOK(r)  BY Mine DEF IInv
<1>3. CASE req[r].kind # "forget"
  <2>1. Goto(r, p) /\ UNCHANGED ignored  BY <1>3 DEF Fails
  <2>2. OnlyReq(r) /\ req'[r].pc = p /\ req'[r].kind = req[r].kind /\ req'[r].conn = c
    BY <1>1, <2>1, GotoIs
  <2>3. Progress(r)' /\ LockHeld(r)' /\ Transaction(r)'
    BY <2>2 DEF Progress, LockHeld, Transaction
  <2> QED  BY <1>1, <2>1, <2>2, <2>3, Quiet DEF Over
<1>4. CASE req[r].kind = "forget"
  <2>1. Goto(r, "done") /\ ignored' = ignored \union {<<r, 1>>}  BY <1>4 DEF Fails
  <2>2. OnlyReq(r) /\ req'[r].pc = "done" /\ req'[r].kind = "forget" /\ req'[r].conn = c
    BY <1>1, <1>4, <2>1, GotoIs
  <2>3. Progress(r)' /\ LockHeld(r)' /\ Transaction(r)'
    BY <2>2 DEF Progress, LockHeld, Transaction
  <2>4. Own(r) \cap (db \union Lost) = {} /\ Stored(r)  BY <1>2 DEF ReqOK, Stored
  <2>5. Changes(r)' = {<<r, 1>>}  BY <2>2 DEF Changes
  <2>6. Stored(r)'  BY <2>1, <2>2, <2>4, <2>5 DEF Stored, Over, Lost
  <2>7. OnlyData(r)
    <3>1. <<r, 1>> \notin db  BY <2>4 DEF Own
    <3>2. Apart'  BY <2>1, <3>1 DEF IInv, Apart, Lost
    <3> QED  BY <2>1, <3>2 DEF OnlyData, Own
  <2>8. ConnOK(r)'  BY <1>1, <1>2, <2>2 DEF ConnOK
  <2>9. ReqOK(r)'  BY <2>3, <2>6, <2>8 DEF ReqOK
  <2> QED  BY <2>2, <2>7, <2>9, GoOn
<1> QED  BY <1>3, <1>4

\* The transaction is undone.
LEMMA RollsBack ==
  ASSUME IInv, NEW r \in Requests, req[r].pc \in Running, req[r].pc \notin Over,
         RollbackAll(req[r].conn), NEW p \in {"rollback", "failed"}, Fails(r, p),
         UNCHANGED <<db, free, joined>>
  PROVE  IInv'
<1>1. req[r].conn \in Conns /\ ReqOK(r)  BY Mine DEF IInv
<1>2. OnlyConn(req[r].conn) /\ pending'[req[r].conn] = {}  BY <1>1, RolledBack
<1>3. req[r].pc \notin {"idle", "begin", "reading"} \/ req[r].kind # "forget"
  BY <1>1 DEF ReqOK, Progress, Running
<1> QED  BY <1>2, <1>3, FailsKeeps

LEMMA RejectedKeeps ==
  ASSUME IInv, NEW r \in Requests, Rejected(r)
  PROVE  IInv'
<1> DEFINE c == req[r].conn
<1>1. /\ req[r].pc = "reserve" /\ req[r].kind = "write" /\ Goto(r, "failed")
      /\ Unlock(c, NoLock) \/ UNCHANGED lockVars
      /\ UNCHANGED <<db, pending, explicit, joined, ignored, free>>
  BY DEF Rejected, At, data
<1>2. "reserve" \in Running /\ "failed" \in Running /\ "reserve" \notin Over
  BY DEF Running, Over
<1>3. c \in Conns  BY <1>1, <1>2, Mine
<1>4. OnlyConn(c)  BY <1>1, <1>3, LetGo
<1>5. OnlyReq(r) /\ req'[r].pc = "failed" /\ req'[r].kind = req[r].kind /\ req'[r].conn = c
  BY <1>1, <1>2, GotoIs
<1>6. Transaction(r)  BY DEF IInv, ReqOK
<1>7. Progress(r)' /\ LockHeld(r)'  BY <1>5 DEF Progress, LockHeld
<1>8. Transaction(r)'  BY <1>1, <1>2, <1>5, <1>6 DEF Transaction
<1> QED  BY <1>1, <1>2, <1>4, <1>5, <1>7, <1>8, Quiet

LEMMA EndReadKeeps ==
  ASSUME IInv, NEW r \in Requests, EndRead(r)
  PROVE  IInv'
<1> DEFINE c == req[r].conn
<1>1. /\ req[r].pc = "reading" /\ Goto(r, "done")
      /\ Unlock(c, NoLock) \/ UNCHANGED lockVars
      /\ UNCHANGED <<db, pending, explicit, joined, ignored, free>>
  BY DEF EndRead, At, data
<1>2. "reading" \in Running /\ "done" \in Running /\ "reading" \notin Over
  BY DEF Running, Over
<1>3. c \in Conns  BY <1>1, <1>2, Mine
<1>4. OnlyConn(c)  BY <1>1, <1>3, LetGo
<1>5. OnlyReq(r) /\ req'[r].pc = "done" /\ req'[r].kind = req[r].kind /\ req'[r].conn = c
  BY <1>1, <1>2, GotoIs
<1>6. Transaction(r) /\ req[r].kind = "read"  BY <1>1 DEF IInv, ReqOK, Progress
<1>7. Progress(r)' /\ LockHeld(r)'  BY <1>5 DEF Progress, LockHeld
<1>8. Transaction(r)'  BY <1>1, <1>2, <1>5, <1>6 DEF Transaction
<1> QED  BY <1>1, <1>2, <1>4, <1>5, <1>6, <1>7, <1>8, Quiet

LEMMA BusyKeeps ==
  ASSUME IInv, NEW r \in Requests, Busy(r)
  PROVE  IInv'
<1> DEFINE c == req[r].conn
<1>1. /\ req[r].pc \in {"run", "reserve"} /\ Unlock(c, NoLock)
      /\ UNCHANGED <<db, pending, explicit, joined, free>>
      /\ (Again(r) /\ UNCHANGED ignored) \/ Fails(r, AfterError(r))
  BY DEF Busy
<1>2. {"run", "reserve", "rollback", "failed"} \subseteq Running
      /\ "run" \notin Over /\ "reserve" \notin Over
  BY DEF Running, Over
<1>3. c \in Conns  BY <1>1, <1>2, Mine
<1>4. OnlyConn(c)  BY <1>1, <1>3, LetGo
<1>5. ReqOK(r)  BY DEF IInv
<1>6. CASE Again(r) /\ UNCHANGED ignored
  <2>1. /\ OnlyReq(r)
        /\ req'[r].pc = "run" /\ req'[r].kind = req[r].kind /\ req'[r].conn = c
        /\ req'[r].stmt = req[r].stmt
    BY <1>1, <1>6, AgainIs
  <2>2. Progress(r)' /\ LockHeld(r)'  BY <1>1, <1>5, <2>1 DEF ReqOK, Progress, LockHeld
  <2>3. Transaction(r)'  BY <1>1, <1>2, <1>5, <2>1 DEF ReqOK, Transaction
  <2> QED  BY <1>1, <1>2, <1>4, <1>6, <2>1, <2>2, <2>3, Quiet
<1>7. CASE Fails(r, AfterError(r))
  <2>1. AfterError(r) \in {"rollback", "failed"}  BY DEF AfterError
  <2>2. c \notin explicit' => pending'[c] = {}
    BY <1>1, <1>2, <1>5 DEF ReqOK, Transaction
  <2> QED  BY <1>1, <1>2, <1>4, <1>7, <2>1, <2>2, FailsKeeps
<1> QED  BY <1>1, <1>6, <1>7

LEMMA TakeExclusiveKeeps ==
  ASSUME IInv, NEW r \in Requests, TakeExclusive(r) \/ CommitBusy(r)
  PROVE  IInv'
<1> DEFINE c == req[r].conn
<1>1. /\ req[r].pc = "commit"
      /\ UNCHANGED <<db, pending, explicit, joined, ignored, free>>
      /\ \/ Lock(c, Exclusive) /\ Goto(r, "write")
         \/ Refused(c, Exclusive) /\ Again(r)
  BY DEF TakeExclusive, CommitBusy, At, data
<1>2. "commit" \in Running /\ "write" \in Running /\ "commit" \notin Over
  BY DEF Running, Over
<1>3. c \in Conns  BY <1>1, <1>2, Mine
<1>4. ReqOK(r) /\ lock[c] >= Reserved  BY <1>1 DEF IInv, ReqOK, LockHeld
<1>5. /\ OnlyConn(c)
      /\ Refused(c, Exclusive) => lock'[c] \in {lock[c], Pending}
  <2>1. lock[c] # NoLock  BY <1>4, NumbersAre DEF Numbers
  <2>2. Lock(c, Exclusive) \/ Refused(c, Exclusive)  BY <1>1
  <2>3. Exclusive # Reserved /\ Exclusive \in {Shared, Reserved, Exclusive}
    BY NumbersAre DEF Numbers
  <2> QED  BY <1>1, <1>3, <2>1, <2>2, <2>3, Asked
<1>6. CASE Lock(c, Exclusive) /\ Goto(r, "write")
  <2>1. OnlyReq(r) /\ req'[r].pc = "write" /\ req'[r].kind = req[r].kind /\ req'[r].conn = c
    BY <1>2, <1>6, GotoIs
  <2>2. Progress(r)' /\ LockHeld(r)'
    BY <1>1, <1>4, <2>1 DEF ReqOK, Progress, LockHeld
  <2>3. Changes(r)' = Changes(r)  BY <2>1, ChangesAre
  <2>4. Transaction(r)'  BY <1>1, <1>4, <2>1, <2>3 DEF ReqOK, Transaction
  <2> QED  BY <1>1, <1>2, <1>5, <2>1, <2>2, <2>4, Quiet
<1>7. CASE Refused(c, Exclusive) /\ Again(r)
  <2>1. OnlyReq(r) /\ req'[r].pc = "commit" /\ req'[r].kind = req[r].kind /\ req'[r].conn = c
    BY <1>1, <1>7, AgainIs
  <2>2. lock'[c] >= Reserved  BY <1>4, <1>5, <1>7, NumbersAre DEF Numbers
  <2>3. Progress(r)' /\ LockHeld(r)'
    BY <1>1, <1>4, <2>1, <2>2 DEF ReqOK, Progress, LockHeld
  <2>4. Changes(r)' = Changes(r)  BY <2>1, ChangesAre
  <2>5. Transaction(r)'  BY <1>1, <1>4, <2>1, <2>4 DEF ReqOK, Transaction
  <2> QED  BY <1>1, <1>2, <1>5, <2>1, <2>3, <2>5, Quiet
<1> QED  BY <1>1, <1>6, <1>7

\* Whoever commits has its own changes on the connection, and nothing else.
LEMMA EndCommitKeeps ==
  ASSUME IInv, NEW r \in Requests, EndCommit(r)
  PROVE  IInv'
<1> DEFINE c == req[r].conn
<1>1. /\ req[r].pc = "write" /\ db' = db \union pending[c] /\ RollbackAll(c)
      /\ Goto(r, "done") /\ UNCHANGED <<free, joined, ignored>>
  BY DEF EndCommit, At
<1>2. "write" \in Running /\ "done" \in Running /\ "write" \notin Over  BY DEF Running, Over
<1>3. c \in Conns  BY <1>1, <1>2, Mine
<1>4. ReqOK(r)  BY DEF IInv
<1>5. OnlyConn(c) /\ pending'[c] = {}  BY <1>1, <1>3, RolledBack
<1>6. OnlyReq(r) /\ req'[r].pc = "done" /\ req'[r].kind = req[r].kind /\ req'[r].conn = c
  BY <1>1, <1>2, GotoIs
<1>7. db' = db \union Changes(r) /\ req[r].kind # "read"
  BY <1>1, <1>4 DEF ReqOK, Transaction, Progress
<1>8. Own(r) \cap (db \union Lost) = {}  BY <1>1, <1>2, <1>4 DEF ReqOK, Stored
<1>9. /\ Changes(r)' = Changes(r) /\ Changes(r) \subseteq Own(r)
      /\ req[r].kind = "delete" => Changes(r) = Own(r)
  BY <1>6, ChangesAre DEF Changes, Own
<1>10. OnlyData(r)
  <2>1. Apart'  BY <1>1, <1>7, <1>8, <1>9 DEF IInv, Apart, Lost
  <2> QED  BY <1>1, <1>7, <1>9, <2>1 DEF OnlyData
<1>11. Progress(r)' /\ LockHeld(r)' /\ Transaction(r)'
  BY <1>5, <1>6 DEF Progress, LockHeld, Transaction
<1>12. Stored(r)'
  <2>1. Changes(r)' \subseteq db'  BY <1>7, <1>9
  <2>2. req[r].kind = "delete" => <<r, 1>> \in db' /\ <<r, 2>> \in db'
    BY <1>7, <1>9 DEF Own
  <2>3. Own(r) \cap ignored = {}  BY <1>8 DEF Lost
  <2> QED  BY <1>1, <1>6, <2>1, <2>2, <2>3 DEF Stored, Over
<1>13. ConnOK(r)'  BY <1>2, <1>3, <1>6 DEF ConnOK
<1>14. ReqOK(r)'  BY <1>11, <1>12, <1>13 DEF ReqOK
<1> QED  BY <1>1, <1>2, <1>5, <1>6, <1>10, <1>14, GoOn

LEMMA CommitGivesUpKeeps ==
  ASSUME IInv, NEW r \in Requests, CommitGivesUp(r)
  PROVE  IInv'
<1> DEFINE c == req[r].conn
<1>1. /\ req[r].pc = "commit" /\ Fails(r, "failed") /\ UNCHANGED <<db, free, joined>>
      /\ IF c \in explicit
           THEN Refused(c, Exclusive) /\ UNCHANGED <<pending, explicit>>
           ELSE RollbackAll(c)
  BY DEF CommitGivesUp, At
<1>2. "commit" \in Running /\ "failed" \in Running /\ "commit" \notin Over
  BY DEF Running, Over
<1>3. CASE c \notin explicit  BY <1>1, <1>2, <1>3, RollsBack
<1>4. CASE c \in explicit
  <2>1. c \in Conns  BY <1>1, <1>2, Mine
  <2>2. lock[c] # NoLock
    <3>1. lock[c] >= Reserved  BY <1>1 DEF IInv, ReqOK, LockHeld
    <3> QED  BY <3>1, NumbersAre DEF Numbers
  <2>3. Exclusive # Reserved /\ Exclusive \in {Shared, Reserved, Exclusive}
    BY NumbersAre DEF Numbers
  <2>4. OnlyConn(c)  BY <1>1, <1>4, <2>1, <2>2, <2>3, Asked
  <2> QED  BY <1>1, <1>2, <1>4, <2>4, FailsKeeps
<1> QED  BY <1>3, <1>4

LEMMA FailuresKeep ==
  ASSUME IInv, NEW r \in Requests, StatementFails(r) \/ CommitFails(r) \/ Rollback(r)
  PROVE  IInv'
<1>1. {"reserve", "reading", "write", "rollback"} \subseteq Running \ Over
  BY DEF Running, Over
<1>2. AfterError(r) \in {"rollback", "failed"}  BY DEF AfterError
<1>3. CASE Rollback(r)
  <2>1. req[r].pc = "rollback" /\ RollbackAll(req[r].conn) /\ Goto(r, "failed")
        /\ UNCHANGED <<db, free, joined, ignored>>
    BY <1>3 DEF Rollback, At
  <2>2. "rollback" \in Running /\ "failed" \in Running /\ "rollback" \notin Over
    BY DEF Running, Over
  <2>3. OnlyConn(req[r].conn) /\ pending'[req[r].conn] = {}
    BY <2>1, <2>2, Mine, RolledBack
  <2>4. OnlyReq(r) /\ req'[r].pc = "failed" /\ req'[r].kind = req[r].kind
        /\ req'[r].conn = req[r].conn
    BY <2>1, <2>2, GotoIs
  <2>5. Progress(r)' /\ LockHeld(r)' /\ Transaction(r)'
    BY <2>3, <2>4 DEF Progress, LockHeld, Transaction
  <2> QED  BY <2>1, <2>2, <2>3, <2>4, <2>5, Quiet
<1> QED  BY <1>1, <1>2, <1>3, RollsBack DEF StatementFails, CommitFails, At

-----------------------------------------------------------------------------
(* Connections come and go                                                  *)

ReleasedPc(r) == IF req[r].pc = "done" THEN "ok" ELSE "error"

LEMMA ReleaseKeeps ==
  ASSUME IInv, NEW r \in Requests, Release(r)
  PROVE  IInv'
<1> DEFINE c == req[r].conn
           p == ReleasedPc(r)
           e == Left(r, p)
<1>1. /\ req[r].pc \in {"done", "failed"}
      /\ \/ /\ free' = free \union {c}
            /\ UNCHANGED <<lockVars, pending, explicit>>
         \/ RollbackAll(c) /\ UNCHANGED free
      /\ req' = [req EXCEPT ![r] = e]
      /\ UNCHANGED <<db, joined, ignored>>
  BY DEF Release, At, ReleasedPc
<1>2. {"done", "failed"} \subseteq Running /\ "failed" \notin Over /\ "error" \notin Over
      /\ "ok" \notin Running /\ "error" \notin Running
  BY DEF Running, Over
<1>3. /\ c \in Conns /\ req[r] \in ReqRec
      /\ \A q \in Requests : q # r => req[q].conn # c
  BY <1>1, <1>2, Mine
<1>4. ReqOK(r)  BY DEF IInv
<1>5. req \in [Requests -> ReqRec]  BY DEF IInv, TypeOK, ReqRec
<1>6. p \in {"ok", "error"} /\ (p = "ok" <=> req[r].pc = "done")
  BY DEF ReleasedPc
<1> HIDE DEF p
<1>7. req' = [req EXCEPT ![r] = e]  BY <1>1
<1>8. e \in ReqRec /\ e.pc = p /\ e.conn = NoConn /\ e.kind = req[r].kind
  BY <1>3, <1>6, PoolAssumption DEF ReqRec, Left
<1> HIDE DEF e
<1>9. OnlyReq(r) /\ req'[r].pc = p /\ req'[r].conn = NoConn /\ req'[r].kind = req[r].kind
  BY <1>5, <1>7, <1>8 DEF OnlyReq
<1>10. OnlyConn(c) /\ (c \notin explicit' => pending'[c] = {})
  <2>1. CASE UNCHANGED <<lockVars, pending, explicit>>
    <3>1. c \notin explicit => pending[c] = {}
      BY <1>1, <1>2, <1>4 DEF ReqOK, Transaction
    <3> QED  BY <1>3, <2>1, <3>1, LetGo
  <2>2. CASE RollbackAll(c)  BY <1>3, <2>2, RolledBack
  <2> QED  BY <1>1, <2>1, <2>2
<1>11. Changes(r)' = Changes(r)  BY <1>9, ChangesAre
<1>12. Progress(r)' /\ LockHeld(r)' /\ Transaction(r)' /\ ConnOK(r)'
  BY <1>2, <1>6, <1>9 DEF Progress, LockHeld, Transaction, ConnOK
<1>13. Stored(r)'
  BY <1>1, <1>2, <1>4, <1>6, <1>9, <1>11 DEF ReqOK, Stored, Over, Lost
<1>14. ReqOK(r)'  BY <1>12, <1>13 DEF ReqOK
<1>15. OnlyData(r)  BY <1>1, DataStill
<1>16. free' \subseteq free \union {c}  BY <1>1
<1>17. NoConn # c  BY <1>3, PoolAssumption
<1> QED  BY <1>3, <1>9, <1>10, <1>14, <1>15, <1>16, <1>17, Step

\* There are as many connections as requests, and this one has none.
LEMMA FreshIsFree ==
  ASSUME IInv, NEW r \in Requests, req[r].conn = NoConn
  PROVE  \E c \in Conns : \A q \in Requests : req[q].conn # c
<1> DEFINE S == Requests \ {r}
           f == [q \in S |-> req[q].conn]
           Taken == {f[q] : q \in S}
<1> SUFFICES ASSUME \A c \in Conns : \E q \in Requests : req[q].conn = c PROVE FALSE
  OBVIOUS
<1>1. Conns \subseteq Taken
  <2> SUFFICES ASSUME NEW c \in Conns PROVE c \in Taken  OBVIOUS
  <2>1. PICK q \in Requests : req[q].conn = c  OBVIOUS
  <2>2. q \in S  BY <2>1, PoolAssumption
  <2> QED  BY <2>1, <2>2
<1>2. IsFiniteSet(Requests) /\ Cardinality(Requests) = MaxRequests
  <2>1. MaxRequests \in Int /\ 1 \in Int /\ MaxRequests \in Nat  BY PoolAssumption
  <2>2. IsFiniteSet(1..MaxRequests)
        /\ Cardinality(1..MaxRequests) = (IF 1 > MaxRequests THEN 0 ELSE MaxRequests - 1 + 1)
    BY <2>1, FS_Interval
  <2> QED  BY <2>1, <2>2 DEF Requests
<1>3. IsFiniteSet(S) /\ Cardinality(S) = MaxRequests - 1
  BY <1>2, FS_RemoveElement
<1>4. /\ f \in [S -> Taken]
      /\ \A t \in Taken : \E q \in S : f[q] = t
  <2>1. \A q \in S : f[q] \in Taken  OBVIOUS
  <2>2. f \in [S -> Taken]
    <3>1. f = [q \in S |-> f[q]]  OBVIOUS
    <3> HIDE DEF f, Taken
    <3> QED  BY <2>1, <3>1
  <2>3. \A t \in Taken : \E q \in S : f[q] = t  OBVIOUS
  <2> QED  BY <2>2, <2>3
<1> HIDE DEF f, Taken
<1>5. f \in Surjection(S, Taken)  BY <1>4 DEF Surjection
<1>6. IsFiniteSet(Taken) /\ Cardinality(Taken) <= Cardinality(S)
  BY <1>3, <1>5, FS_Surjection
<1>7. IsFiniteSet(Conns) /\ Cardinality(Conns) <= Cardinality(Taken)
  BY <1>1, <1>6, FS_Subset
<1>8. Cardinality(Conns) \in Nat /\ Cardinality(Taken) \in Nat
  BY <1>6, <1>7, FS_CardinalityType
<1> QED  BY <1>3, <1>6, <1>7, <1>8, PoolAssumption

LEMMA AcquireKeeps ==
  ASSUME IInv, NEW r \in Requests, NEW k \in Kinds, NEW c \in Conns, Acquire(r, k, c)
  PROVE  IInv'
<1> DEFINE p == IF k = "delete" THEN "begin" ELSE "run"
           e == [req[r] EXCEPT !.kind = k, !.conn = c, !.pc = p]
<1>1. /\ req[r].pc = "idle"
      /\ c \in IF free = {} THEN {Fresh} ELSE free
      /\ free' = free \ {c}
      /\ req' = [req EXCEPT ![r].kind = k, ![r].conn = c, ![r].pc = p]
      /\ UNCHANGED <<lockVars, db, pending, explicit, joined, ignored>>
  BY DEF Acquire, At, data
<1>2. "idle" \notin Running /\ p \in Running /\ p \in {"begin", "run"} /\ "idle" \notin Over
      /\ p \notin Over
  BY DEF Running, Over
<1>3. ReqOK(r) /\ req[r].conn = NoConn /\ req[r].stmt = 1
  BY <1>1, <1>2 DEF IInv, ReqOK, ConnOK, Progress
<1>4. \A q \in Requests : req[q].conn # c
  <2>1. CASE free # {}  BY <1>1, <2>1 DEF IInv, FreeOK
  <2>2. CASE free = {}
    <3>1. PICK d \in Conns : \A q \in Requests : req[q].conn # d
      BY <1>3, FreshIsFree
    <3> QED  BY <1>1, <2>2, <3>1 DEF Fresh
  <2> QED  BY <2>1, <2>2
<1>5. req \in [Requests -> ReqRec]  BY DEF IInv, TypeOK, ReqRec
<1>6. req' = [req EXCEPT ![r] = e]  BY <1>1, <1>5
<1>7. e \in ReqRec /\ e.pc = p /\ e.conn = c /\ e.kind = k /\ e.stmt = 1
  BY <1>2, <1>3, <1>5 DEF ReqRec
<1>8. p = "begin" <=> k = "delete"  OBVIOUS
<1> HIDE DEF e, p
<1>9. OnlyReq(r) /\ req'[r].pc = p /\ req'[r].conn = c /\ req'[r].kind = k /\ req'[r].stmt = 1
  BY <1>5, <1>6, <1>7 DEF OnlyReq
<1>10. OnlyConn(c)  BY <1>1, LetGo
<1>11. c \notin explicit => pending[c] = {}  BY <1>4 DEF IInv, IdleClean
<1>12. Own(r) \cap (db \union Lost) = {}  BY <1>1, <1>2, <1>3 DEF ReqOK, Stored
<1>13. Progress(r)' /\ LockHeld(r)' /\ ConnOK(r)'
  BY <1>2, <1>8, <1>9 DEF Progress, LockHeld, ConnOK
<1>14. Transaction(r)'
  <2>1. ~(req'[r].kind = "delete" /\ req'[r].pc \in {"run", "reserve"})
    BY <1>2, <1>8, <1>9
  <2>2. req'[r].pc \notin {"commit", "write"}  BY <1>2, <1>9
  <2>3. req'[r].conn \notin explicit' => pending'[req'[r].conn] = {}
    BY <1>1, <1>9, <1>11
  <2> QED  BY <2>1, <2>2, <2>3 DEF Transaction
<1>15. Stored(r)'
  <2>1. <<r, 1>> \notin db /\ <<r, 2>> \notin db  BY <1>12 DEF Own
  <2>2. Own(r) \cap ignored = {}  BY <1>12 DEF Lost
  <2> QED  BY <1>1, <1>2, <1>9, <1>12, <2>1, <2>2 DEF Stored, Over, Lost
<1>16. ReqOK(r)'  BY <1>13, <1>14, <1>15 DEF ReqOK
<1>17. OnlyData(r)  BY <1>1, DataStill
<1>18. c # NoConn  BY PoolAssumption
<1> QED  BY <1>1, <1>3, <1>4, <1>9, <1>10, <1>16, <1>17, <1>18, Step

\* With the process go connections, locks and transactions, and nothing else.
LEMMA KilledKeeps ==
  ASSUME IInv, Killed
  PROVE  IInv'
<1>1. req \in [Requests -> ReqRec]  BY DEF IInv, TypeOK, ReqRec
<1>2. LocksNext  BY DEF Killed, LocksNext
<1>3. LocksInv'  BY <1>2, LocksKeep DEF IInv
<1>4. ASSUME NEW q \in Requests
      PROVE  /\ req'[q] \in ReqRec /\ req'[q].conn = NoConn
             /\ req'[q].pc \in {"idle", "ok", "error", "gone"}
             /\ req'[q].kind = req[q].kind
             /\ req'[q].stmt = req[q].stmt \/ req'[q].stmt = 1
             /\ req'[q].pc # "gone" => req'[q].pc = req[q].pc
  <2>1. CASE req[q].pc \in {"idle", "ok", "error", "gone"}
    <3>1. req'[q] = req[q]  BY <2>1 DEF Killed
    <3>2. req[q].pc \notin Running  BY <2>1 DEF Running
    <3> QED  BY <1>1, <2>1, <3>1, <3>2 DEF IInv, ReqOK, ConnOK
  <2>2. CASE req[q].pc \notin {"idle", "ok", "error", "gone"}
    <3>1. req'[q] = Left(q, "gone")  BY <2>2 DEF Killed
    <3> QED  BY <1>1, <3>1, PoolAssumption DEF ReqRec, Left
  <2> QED  BY <2>1, <2>2
<1>5. req' \in [Requests -> ReqRec]
  <2>1. req' = [q \in Requests |-> req'[q]]  BY DEF Killed
  <2> QED  BY <1>4, <2>1
<1>6. TypeOK'
  <2>1. /\ pending' \in [Conns -> SUBSET AllChanges]
        /\ explicit' = {} /\ free' = {} /\ UNCHANGED <<db, joined, ignored>>
    BY DEF Killed
  <2> QED  BY <1>3, <1>5, <2>1 DEF IInv, TypeOK, LocksInv, ReqRec
<1>7. ASSUME NEW q \in Requests PROVE ReqOK(q)'
  <2>1. ReqOK(q)  BY DEF IInv
  <2>2. UNCHANGED <<db, joined, ignored>>  BY DEF Killed
  <2>3. {"idle", "ok", "error", "gone"} \cap Running = {}  BY DEF Running
  <2>4. ConnOK(q)' /\ Progress(q)' /\ LockHeld(q)'
    BY <1>4, <2>1, <2>3 DEF ReqOK, ConnOK, Progress, LockHeld
  <2>5. {"run", "reserve", "commit", "write"} \subseteq Running  BY DEF Running
  <2>6. Transaction(q)'  BY <1>4, <2>3, <2>5 DEF Transaction
  <2>7. Changes(q)' = Changes(q)  BY <1>4, ChangesAre
  <2>8. Stored(q)'  BY <1>4, <2>1, <2>2, <2>7 DEF ReqOK, Stored, Over, Lost
  <2> QED  BY <2>4, <2>6, <2>8 DEF ReqOK
<1>8. OneEach' /\ FreeOK' /\ IdleClean' /\ Apart'
  <2>1. OneEach'  BY <1>4, PoolAssumption DEF OneEach
  <2>2. FreeOK' /\ IdleClean' /\ Apart'
    BY DEF IInv, Killed, FreeOK, IdleClean, Apart, Lost
  <2> QED  BY <2>1, <2>2
<1> QED  BY <1>3, <1>6, <1>7, <1>8 DEF IInv

-----------------------------------------------------------------------------
LEMMA Initially == PoolInit => IInv
<1> SUFFICES ASSUME PoolInit PROVE IInv  OBVIOUS
<1>1. LocksInv  BY LocksInitially DEF PoolInit
<1>2. ASSUME NEW r \in Requests
      PROVE  /\ req[r] \in ReqRec /\ req[r].pc = "idle" /\ req[r].kind = "read"
             /\ req[r].conn = NoConn /\ req[r].stmt = 1
  BY PoolAssumption DEF PoolInit, ReqRec, Kinds
<1>3. req \in [Requests -> ReqRec]
  <2>1. req = [r \in Requests |-> req[r]]  BY DEF PoolInit
  <2> QED  BY <1>2, <2>1
<1>4. TypeOK
  BY <1>1, <1>3 DEF PoolInit, TypeOK, LocksInv, ReqRec
<1>5. ASSUME NEW r \in Requests PROVE ReqOK(r)
  <2>1. "idle" \notin Running /\ {"commit", "write", "run", "reserve"} \subseteq Running
    BY DEF Running
  <2>2. ConnOK(r) /\ Progress(r) /\ Transaction(r) /\ LockHeld(r)
    BY <1>2, <2>1 DEF ConnOK, Progress, Transaction, LockHeld
  <2>3. Stored(r)  BY <1>2 DEF PoolInit, Stored, Lost
  <2> QED  BY <2>2, <2>3 DEF ReqOK
<1>6. OneEach /\ FreeOK /\ IdleClean /\ Apart
  BY <1>2, PoolAssumption DEF PoolInit, OneEach, FreeOK, IdleClean, Apart, Lost
<1> QED  BY <1>1, <1>4, <1>5, <1>6 DEF IInv

LEMMA Kept == IInv /\ [PoolNext]_poolVars => IInv'
<1> SUFFICES ASSUME IInv, [PoolNext]_poolVars PROVE IInv'  OBVIOUS
<1>1. CASE UNCHANGED poolVars
  <2>1. LocksInv'  BY <1>1, LocksKeep DEF IInv, poolVars, lockVars
  <2>2. TypeOK'  BY <1>1, <2>1 DEF IInv, TypeOK, poolVars, LocksInv
  <2>3. \A r \in Requests : ReqOK(r)'
    BY <1>1 DEF IInv, ReqOK, ConnOK, Progress, Transaction, LockHeld, Stored, Lost, Changes, poolVars
  <2>4. OneEach' /\ FreeOK' /\ IdleClean' /\ Apart'
    BY <1>1 DEF IInv, OneEach, FreeOK, IdleClean, Apart, Lost, poolVars
  <2> QED  BY <2>1, <2>2, <2>3, <2>4 DEF IInv
<1>2. ASSUME NEW r \in Requests, Handler(r) PROVE IInv'
  BY <1>2, ReleaseKeeps, BeginKeeps, TakeSharedKeeps, ChangeKeeps, RejectedKeeps, EndReadKeeps,
     FailuresKeep, BusyKeeps, TakeExclusiveKeeps, EndCommitKeeps, CommitGivesUpKeeps
  DEF Handler
<1>3. ASSUME NEW r \in Requests, NEW k \in Kinds, NEW c \in Conns, Acquire(r, k, c) PROVE IInv'
  BY <1>3, AcquireKeeps
<1>4. CASE Killed  BY <1>4, KilledKeeps
<1> QED  BY <1>1, <1>2, <1>3, <1>4 DEF PoolNext

LEMMA Always == PoolSpec => []IInv
BY Initially, Kept, PTL DEF PoolSpec

\* Types, and no try beyond the busy handler's last (sqliteDefaultBusyCallback).
THEOREM TypeCorrect == PoolSpec => []TypeOK
<1>1. IInv => TypeOK  BY DEF IInv
<1> QED  BY <1>1, Always, PTL

\* DeleteUser is whole, for any number of requests and connections, any size of
\* the pool and any patience of the busy handler (api.go:261-275).
THEOREM DeletesAreWhole == PoolSpec => []DeletedWhole
<1>1. IInv => DeletedWhole  BY DEF IInv, ReqOK, Stored, DeletedWhole
<1> QED  BY <1>1, Always, PTL

\* A request that was answered with an error has changed nothing, and nobody has
\* committed or will commit what it left on its connection (api.go:273-277).
THEOREM ErrorsLeaveNothing == PoolSpec => []FailuresLeaveNothing
<1>1. IInv => FailuresLeaveNothing
  <2> SUFFICES ASSUME IInv, NEW r \in Requests, At(r, "error") PROVE Changes(r) \cap db = {}
    BY DEF FailuresLeaveNothing
  <2>1. Own(r) \cap db = {}  BY DEF IInv, ReqOK, Stored, At, Over
  <2>2. Changes(r) \subseteq Own(r)  BY DEF Changes, Own
  <2> QED  BY <2>1, <2>2
<1> QED  BY <1>1, Always, PTL

\* An answered change is in the database, or was made in a transaction somebody
\* else had left open, or is DeleteContainer's, whose error is ignored; in the last
\* two cases it never gets there (api.go:273-277, 364-365).
THEOREM LossesAreInOpenTransactions == PoolSpec => []LostOnlyInOpenTransaction
<1>1. IInv => LostOnlyInOpenTransaction
  <2> SUFFICES ASSUME IInv PROVE LostOnlyInOpenTransaction  OBVIOUS
  <2>1. \A r \in Requests : At(r, "ok") => Changes(r) \subseteq db \union joined \union ignored
    BY DEF IInv, ReqOK, Stored, At, Lost
  <2>2. (joined \union ignored) \cap db = {}  BY DEF IInv, Apart, Lost
  <2>3. ASSUME NEW r \in Requests, Changes(r) \cap ignored # {} PROVE req[r].kind = "forget"
    <3>1. Changes(r) \subseteq Own(r)  BY DEF Changes, Own
    <3> QED  BY <2>3, <3>1 DEF IInv, ReqOK, Stored
  <2> QED  BY <2>1, <2>2, <2>3 DEF LostOnlyInOpenTransaction
<1> QED  BY <1>1, Always, PTL
=============================================================================
