-------------------------- MODULE FileLocksProofs --------------------------
(***************************************************************************)
(* That the locks exclude each other, for any number of connections. The   *)
(* record of the process is right: nShared counts the holders, and         *)
(* eFileLock is the highest lock any of them has.                          *)
(***************************************************************************)
EXTENDS FileLocks, FiniteSetTheorems, TLAPS

Holders == {c \in Conns : lock[c] # NoLock}

Counted == inode.nShared = Cardinality(Holders)

Highest == /\ \A c \in Conns : lock[c] <= inode.eFileLock
           /\ inode.eFileLock # NoLock => \E c \in Conns : lock[c] = inode.eFileLock

LocksInv == LocksTypeOK /\ Counted /\ Highest /\ LocksExclude

\* The numbers of the locks, for the steps that compare them.
Numbers == NoLock = 0 /\ Shared = 1 /\ Reserved = 2 /\ Pending = 3 /\ Exclusive = 4
           /\ Levels = 0..4

LEMMA NumbersAre == Numbers
  BY DEF Numbers, NoLock, Shared, Reserved, Pending, Exclusive, Levels

\* The holders are finitely many; one more or one less counts as such.
LEMMA HoldersCounted ==
  ASSUME NEW S \in SUBSET Conns, NEW c \in Conns
  PROVE  /\ IsFiniteSet(S) /\ Cardinality(S) \in Nat
         /\ c \notin S => Cardinality(S \cup {c}) = Cardinality(S) + 1
         /\ c \in S => Cardinality(S \ {c}) = Cardinality(S) - 1
         /\ Cardinality(S) = 0 <=> S = {}
<1>1. IsFiniteSet(S)  BY ConnsAssumption, FS_Subset
<1>2. Cardinality(S) \in Nat  BY <1>1, FS_CardinalityType
<1>3. Cardinality(S) = 0 <=> S = {}  BY <1>1, FS_EmptySet
<1>4. c \notin S => Cardinality(S \cup {c}) = Cardinality(S) + 1  BY <1>1, FS_AddElement
<1>5. c \in S => Cardinality(S \ {c}) = Cardinality(S) - 1  BY <1>1, FS_RemoveElement
<1> QED  BY <1>1, <1>2, <1>3, <1>4, <1>5

\* Who is the only holder may have everything.
LEMMA OnlyHolder ==
  ASSUME LocksInv, NEW c \in Conns, lock[c] # NoLock, inode.nShared <= 1
  PROVE  \A d \in Conns : d # c => lock[d] = NoLock
<1>1. c \in Holders  BY DEF Holders
<1>2. Cardinality(Holders \ {c}) = Cardinality(Holders) - 1 /\ Cardinality(Holders) \in Nat
  BY <1>1, HoldersCounted DEF Holders
<1>3. Cardinality(Holders \ {c}) \in Nat  BY HoldersCounted DEF Holders
<1>4. Cardinality(Holders) <= 1  BY DEF LocksInv, Counted
<1>5. Cardinality(Holders \ {c}) = 0  BY <1>2, <1>3, <1>4
<1>6. Holders \ {c} = {}  BY <1>5, HoldersCounted DEF Holders
<1> QED  BY <1>6 DEF Holders

LEMMA LockKeeps ==
  ASSUME LocksInv, NEW c \in Conns, NEW l \in Levels,
         AskFor(c, l), Granted(c, l), Raise(c, l), lock[c] < l
  PROVE  LocksInv'
<1> USE NumbersAre DEF Numbers
<1>1. /\ lock \in [Conns -> Levels] /\ inode \in [eFileLock : Levels, nShared : Nat]
      /\ lock' \in [Conns -> Levels] /\ inode' \in [eFileLock : Levels, nShared : Nat]
      /\ lock'[c] = l
      /\ \A d \in Conns : d # c => lock'[d] = lock[d]
  <2>1. lock \in [Conns -> Levels] /\ inode \in [eFileLock : Levels, nShared : Nat]
    BY DEF LocksInv, LocksTypeOK
  <2>2. lock' \in [Conns -> Levels] /\ lock'[c] = l
        /\ \A d \in Conns : d # c => lock'[d] = lock[d]
    BY <2>1 DEF Raise
  <2>3. inode' \in [eFileLock : Levels, nShared : Nat]
    <3> DEFINE e == IF l = Shared /\ inode.eFileLock # NoLock THEN inode.eFileLock ELSE l
               n == IF l = Shared THEN inode.nShared + 1 ELSE inode.nShared
    <3>1. inode' = [inode EXCEPT !.eFileLock = e, !.nShared = n]  BY DEF Raise
    <3>2. e \in Levels /\ n \in Nat  BY <2>1
    <3> HIDE DEF e, n
    <3> QED  BY <2>1, <3>1, <3>2
  <2> QED  BY <2>1, <2>2, <2>3
<1>2. CASE l = Shared
  <2>1. lock[c] = NoLock  BY <1>1, <1>2
  <2>2. inode.eFileLock < Pending  BY <1>1, <1>2, <2>1 DEF Granted, Precluded
  <2>3. inode'.eFileLock = (IF inode.eFileLock # NoLock THEN inode.eFileLock ELSE Shared)
        /\ inode'.nShared = inode.nShared + 1
    BY <1>1, <1>2 DEF Raise
  <2>4. Holders' = Holders \cup {c} /\ c \notin Holders
    BY <1>1, <1>2, <2>1 DEF Holders
  <2>5. Counted'
    BY <2>3, <2>4, HoldersCounted DEF LocksInv, Counted, Holders
  <2>6. Highest'  BY <1>1, <1>2, <2>1, <2>3 DEF LocksInv, Highest
  <2>7. LocksExclude'  BY <1>1, <1>2, <2>1, <2>2 DEF LocksInv, Highest, LocksExclude
  <2> QED  BY <1>1, <2>5, <2>6, <2>7 DEF LocksInv, LocksTypeOK
<1>3. CASE l # Shared
  <2>1. lock[c] # NoLock /\ lock[c] = inode.eFileLock /\ l \in {Reserved, Exclusive}
    BY <1>1, <1>3 DEF AskFor, Granted, Precluded
  <2>2. inode'.eFileLock = l /\ inode'.nShared = inode.nShared
    BY <1>1, <1>3 DEF Raise
  <2>3. Holders' = Holders
    BY <1>1, <1>3, <2>1 DEF Holders
  <2>4. Counted'  BY <2>2, <2>3 DEF LocksInv, Counted
  <2>5. \A d \in Conns : d # c => lock[d] <= Shared /\ (l = Exclusive => lock[d] = NoLock)
    <3>1. CASE l = Reserved
      BY <1>1, <2>1, <3>1 DEF AskFor, LocksInv, Highest
    <3>2. CASE l = Exclusive
      BY <1>1, <2>1, <3>2, OnlyHolder DEF Granted
    <3> QED  BY <2>1, <3>1, <3>2
  <2>6. Highest'  BY <1>1, <2>1, <2>2, <2>5 DEF LocksInv, Highest
  <2>7. LocksExclude'  BY <1>1, <2>1, <2>5 DEF LocksExclude
  <2> QED  BY <1>1, <2>4, <2>6, <2>7 DEF LocksInv, LocksTypeOK
<1> QED  BY <1>2, <1>3

LEMMA RefusedKeeps ==
  ASSUME LocksInv, NEW c \in Conns, NEW l \in Levels, AskFor(c, l), Refused(c, l)
  PROVE  LocksInv'
<1> USE NumbersAre DEF Numbers
<1>1. CASE UNCHANGED lockVars
  BY <1>1 DEF LocksInv, LocksTypeOK, Counted, Holders, Highest, LocksExclude, lockVars
<1>2. CASE /\ l = Exclusive /\ ~Precluded(c, l)
           /\ lock' = [lock EXCEPT ![c] = Pending]
           /\ inode' = [inode EXCEPT !.eFileLock = Pending]
  <2>1. /\ lock \in [Conns -> Levels] /\ inode \in [eFileLock : Levels, nShared : Nat]
        /\ lock' \in [Conns -> Levels] /\ inode' \in [eFileLock : Levels, nShared : Nat]
        /\ lock'[c] = Pending /\ inode'.eFileLock = Pending /\ inode'.nShared = inode.nShared
        /\ \A d \in Conns : d # c => lock'[d] = lock[d]
    BY <1>2 DEF LocksInv, LocksTypeOK
  <2>2. lock[c] # NoLock /\ lock[c] = inode.eFileLock
    BY <1>2, <2>1 DEF AskFor, Precluded
  <2>3. Holders' = Holders  BY <2>1, <2>2 DEF Holders
  <2>4. Counted'  BY <2>1, <2>3 DEF LocksInv, Counted
  <2>5. \A d \in Conns : d # c => lock[d] <= Shared
    <3>1. CASE lock[c] > Shared
      BY <2>1, <3>1 DEF LocksInv, LocksExclude
    <3>2. CASE lock[c] <= Shared
      BY <2>1, <2>2, <3>2 DEF LocksInv, Highest
    <3> QED  BY <2>1, <3>1, <3>2
  <2>6. Highest'  BY <2>1, <2>5 DEF Highest
  <2>7. LocksExclude'  BY <2>1, <2>5 DEF LocksExclude
  <2> QED  BY <2>1, <2>4, <2>6, <2>7 DEF LocksInv, LocksTypeOK
<1> QED  BY <1>1, <1>2 DEF Refused

LEMMA UnlockKeeps ==
  ASSUME LocksInv, NEW c \in Conns, NEW l \in {NoLock, Shared}, Unlock(c, l)
  PROVE  LocksInv'
<1> USE NumbersAre DEF Numbers
<1>1. CASE lock[c] <= l
  BY <1>1 DEF Unlock, LocksInv, LocksTypeOK, Counted, Holders, Highest, LocksExclude, lockVars
<1>2. CASE ~(lock[c] <= l)
  <2> DEFINE level == IF lock[c] > Shared THEN Shared ELSE inode.eFileLock
             left == IF l = NoLock THEN inode.nShared - 1 ELSE inode.nShared
  <2>1. /\ lock \in [Conns -> Levels] /\ inode \in [eFileLock : Levels, nShared : Nat]
        /\ lock[c] # NoLock /\ lock[c] > l
    BY <1>2 DEF LocksInv, LocksTypeOK
  <2>2. /\ lock' = [lock EXCEPT ![c] = l]
        /\ inode' = [eFileLock |-> IF left = 0 THEN NoLock ELSE level, nShared |-> left]
    BY <1>2 DEF Unlock
  <2>3. /\ lock' \in [Conns -> Levels] /\ lock'[c] = l
        /\ \A d \in Conns : d # c => lock'[d] = lock[d]
    BY <2>1, <2>2
  <2>4. Holders' = (IF l = NoLock THEN Holders \ {c} ELSE Holders) /\ c \in Holders
    BY <2>1, <2>3 DEF Holders
  <2>5. left = Cardinality(Holders') /\ left \in Nat
    <3>1. Cardinality(Holders') \in Nat  BY <2>4, HoldersCounted DEF Holders
    <3>2. Cardinality(Holders \ {c}) = Cardinality(Holders) - 1
      BY <2>4, HoldersCounted DEF Holders
    <3> QED  BY <2>4, <3>1, <3>2 DEF LocksInv, Counted
  <2>6. inode' \in [eFileLock : Levels, nShared : Nat] /\ inode'.nShared = left
        /\ inode'.eFileLock = (IF left = 0 THEN NoLock ELSE level)
    BY <2>1, <2>2, <2>5
  <2>7. Counted'  BY <2>5, <2>6 DEF Counted
  <2>8. left = 0 <=> \A d \in Conns : lock'[d] = NoLock
    <3>1. left = 0 <=> Holders' = {}  BY <2>4, <2>5, HoldersCounted DEF Holders
    <3> QED  BY <3>1, <2>3 DEF Holders
  <2>9. Highest'
    <3>1. CASE left = 0  BY <2>3, <2>6, <2>8, <3>1 DEF Highest
    <3>2. CASE left # 0 /\ lock[c] > Shared
      <4>1. \A d \in Conns : d # c => lock[d] <= Shared
        BY <2>1, <3>2 DEF LocksInv, LocksExclude
      <4>2. \E d \in Conns : lock'[d] # NoLock  BY <2>8, <3>2
      <4> QED  BY <2>1, <2>3, <2>6, <3>2, <4>1, <4>2 DEF Highest
    <3>3. CASE left # 0 /\ lock[c] <= Shared
      <4>1. lock[c] = Shared /\ l = NoLock  BY <2>1, <3>3
      <4>2. \E d \in Conns : lock'[d] # NoLock  BY <2>8, <3>3
      <4>3. inode'.eFileLock = inode.eFileLock  BY <2>6, <3>3, <2>1
      <4>4. \A d \in Conns : lock'[d] <= inode.eFileLock
        BY <2>1, <2>3, <4>1 DEF LocksInv, Highest
      <4>5. \E d \in Conns : lock'[d] = inode.eFileLock
        <5>1. CASE inode.eFileLock = Shared  BY <2>1, <2>3, <4>2, <4>4, <5>1
        <5>2. CASE inode.eFileLock # Shared
          <6>1. inode.eFileLock # NoLock  BY <2>1, <4>1 DEF LocksInv, Highest
          <6>2. PICK d \in Conns : lock[d] = inode.eFileLock
            BY <6>1 DEF LocksInv, Highest
          <6>3. d # c  BY <4>1, <5>2, <6>2
          <6> QED  BY <2>3, <6>2, <6>3
        <5> QED  BY <5>1, <5>2
      <4> QED  BY <4>3, <4>4, <4>5 DEF Highest
    <3> QED  BY <2>1, <3>1, <3>2, <3>3
  <2>10. LocksExclude'  BY <2>1, <2>3 DEF LocksInv, LocksExclude
  <2> QED  BY <2>3, <2>6, <2>7, <2>9, <2>10 DEF LocksInv, LocksTypeOK
<1> QED  BY <1>1, <1>2

\* What a connection has after it has asked for a lock or given one back.
LEMMA OneLock ==
  ASSUME LocksInv, NEW c \in Conns, NEW l \in Levels
  PROVE  /\ Lock(c, l) => lock'[c] = (IF lock[c] >= l THEN lock[c] ELSE l)
         /\ Refused(c, l) => lock'[c] \in {lock[c], Pending}
         /\ Unlock(c, l) => lock'[c] = (IF lock[c] <= l THEN lock[c] ELSE l)
         /\ Lock(c, l) \/ Refused(c, l) \/ Unlock(c, l)
              => \A d \in Conns : d # c => lock'[d] = lock[d]
<1>0. lock \in [Conns -> Levels]  BY DEF LocksInv, LocksTypeOK
<1>1. Lock(c, l) => /\ lock'[c] = (IF lock[c] >= l THEN lock[c] ELSE l)
                    /\ \A d \in Conns : d # c => lock'[d] = lock[d]
  BY <1>0 DEF Lock, Raise, lockVars
<1>2. Refused(c, l) => /\ lock'[c] \in {lock[c], Pending}
                       /\ \A d \in Conns : d # c => lock'[d] = lock[d]
  BY <1>0 DEF Refused, lockVars
<1>3. Unlock(c, l) => /\ lock'[c] = (IF lock[c] <= l THEN lock[c] ELSE l)
                      /\ \A d \in Conns : d # c => lock'[d] = lock[d]
  BY <1>0 DEF Unlock, lockVars
<1> QED  BY <1>1, <1>2, <1>3

LEMMA LocksInitially == LocksInit => LocksInv
<1> SUFFICES ASSUME LocksInit PROVE LocksInv  OBVIOUS
<1> USE NumbersAre DEF Numbers
<1>1. Holders = {}  BY DEF LocksInit, Holders
<1>2. Counted  BY <1>1, FS_EmptySet DEF LocksInit, Counted
<1>3. LocksTypeOK /\ Highest /\ LocksExclude
  BY DEF LocksInit, LocksTypeOK, Highest, LocksExclude
<1> QED  BY <1>2, <1>3 DEF LocksInv

\* Every step of the locks keeps the invariant.
LEMMA LocksKeep == LocksInv /\ [LocksNext]_lockVars => LocksInv'
<1> SUFFICES ASSUME LocksInv, [LocksNext]_lockVars PROVE LocksInv'  OBVIOUS
<1>1. CASE UNCHANGED lockVars
  BY <1>1 DEF LocksInv, LocksTypeOK, Counted, Holders, Highest, LocksExclude, lockVars
<1>2. CASE LocksGone
  <2>1. Holders' = {}  BY <1>2 DEF LocksGone, Holders
  <2>2. Counted'  BY <1>2, <2>1, FS_EmptySet DEF LocksGone, Counted
  <2>3. (LocksTypeOK /\ Highest /\ LocksExclude)'
    BY <1>2, NumbersAre DEF LocksGone, LocksTypeOK, Highest, LocksExclude, Numbers
  <2> QED  BY <2>2, <2>3 DEF LocksInv
<1>3. ASSUME NEW c \in Conns, GoDown(c) PROVE LocksInv'
  BY <1>3, UnlockKeeps DEF GoDown
<1>4. ASSUME NEW c \in Conns, NEW l \in Levels, AskFor(c, l) PROVE LocksInv'
  <2>1. CASE Lock(c, l)
    <3>1. CASE lock[c] >= l  BY <1>1, <2>1, <3>1 DEF Lock
    <3>2. CASE ~(lock[c] >= l)
      <4>1. lock[c] < l
        BY <3>2, NumbersAre DEF LocksInv, LocksTypeOK, Numbers
      <4> QED  BY <1>4, <2>1, <3>2, <4>1, LockKeeps DEF Lock
    <3> QED  BY <3>1, <3>2
  <2>2. CASE Refused(c, l)  BY <1>4, <2>2, RefusedKeeps
  <2> QED  BY <1>4, <2>1, <2>2 DEF AskFor
<1> QED  BY <1>1, <1>2, <1>3, <1>4 DEF LocksNext

\* One record for all connections of the process, and yet no two of them ever
\* hold what excludes the other, however many there are and in whatever order
\* they ask and give back (unixLock, posixUnlock).
THEOREM LocksAreExclusive == LocksSpec => []LocksExclude
<1>1. LocksSpec => []LocksInv  BY LocksInitially, LocksKeep, PTL DEF LocksSpec
<1>2. LocksInv => LocksExclude  BY DEF LocksInv
<1> QED  BY <1>1, <1>2, PTL
=============================================================================
