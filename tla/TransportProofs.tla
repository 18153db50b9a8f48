-------------------------- MODULE TransportProofs --------------------------
(***************************************************************************)
(* Theorems about Transport. A writer that writes has the mutex and has    *)
(* seen that no exchange is under way; an exchange is announced before it  *)
(* begins to write and until it has ended.                                 *)
(***************************************************************************)
EXTENDS Transport, TLAPS

Exchanging == {"dh", "reply", "newkeys", "done"}

WriterHasLock == \A w \in Writers : writer[w] = "write" => mu = w /\ ~sentInit

ExchangeAnnounced == reader \in Exchanging => sentInit

IInv == TypeOK /\ WriterHasLock /\ ExchangeAnnounced

-----------------------------------------------------------------------------
(* Types                                                                    *)

\* Where a writer may be.
Places == {"idle", "hand", "lock", "waiting", "woken", "write"}

LEMMA TypeInitially == Init => TypeOK
<1> SUFFICES ASSUME Init PROVE TypeOK  OBVIOUS
<1>1. <<>> \in Seq(Packets) /\ Len(<<>>) = 0  OBVIOUS
<1>2. "data" \in Packets  BY DEF Packets, Plain
<1>3. inits \in [server : Nat, client : Nat]  BY DEF Init
<1>4. incoming \in Seq(Packets) /\ Len(incoming) <= Cap
  BY <1>1, TransportAssumption DEF Init
<1>5. flight \in Seq(Packets) /\ Len(flight) <= MaxFlight
  BY <1>1, TransportAssumption DEF Init
<1>6. queue \in [Takers -> 0 .. QueueCap]  BY TransportAssumption DEF Init
<1> QED  BY <1>2, <1>3, <1>4, <1>5, <1>6 DEF Init, TypeOK

LEMMA KexInitCounted ==
  ASSUME NEW n \in [server : Nat, client : Nat]
  PROVE  [n EXCEPT !.server = @ + 1] \in [server : Nat, client : Nat]
OBVIOUS

\* Wanting keys, and what a writer does with the mutex, keep the types.
LEMMA TypeProceed ==
  ASSUME TypeOK, NEW w \in Writers, WantKeys \/ UNCHANGED <<sentInit, inits>>,
         Proceed(w),
         UNCHANGED <<writeError, reader, got, incoming, theirs, passed, open>>
  PROVE  TypeOK'
<1>1. sentInit' \in BOOLEAN /\ inits' \in [server : Nat, client : Nat]
  <2>1. CASE WantKeys  BY <2>1, KexInitCounted DEF TypeOK, WantKeys
  <2>2. CASE UNCHANGED <<sentInit, inits>>  BY <2>2 DEF TypeOK
  <2> QED  BY <2>1, <2>2
<1>2. writer' \in [Writers -> Places] /\ mu' \in Writers \union {Nobody}
  BY DEF TypeOK, Proceed, Places
<1> QED  BY <1>1, <1>2 DEF TypeOK, theirs, passed, Places

LEMMA TypeWriters ==
  ASSUME TypeOK, NEW w \in Writers, Call(w) \/ WriterNext(w)
  PROVE  TypeOK'
<1>1. CASE Call(w)  BY <1>1 DEF TypeOK, Call, shared, theirs, passed
<1>2. CASE Enter(w)  BY <1>2, TypeProceed DEF Enter
<1>3. CASE Woken(w)  BY <1>3, TypeProceed DEF Woken
<1>4. CASE Written(w)  BY <1>4 DEF TypeOK, Written, theirs, passed
<1> QED  BY <1>1, <1>2, <1>3, <1>4 DEF WriterNext

LEMMA TypeUnblock ==
  ASSUME TypeOK, Unblock
  PROVE  /\ mu' \in Writers \union {Nobody} /\ sentInit' \in BOOLEAN
         /\ writer' \in [Writers -> Places]
         /\ UNCHANGED <<flight, client, incoming, queue, dest, inits>>
BY DEF TypeOK, Unblock, Broadcast, Places, theirs, passed

LEMMA TypeReader ==
  ASSUME TypeOK, RequestKeyChange \/ ReaderNext \/ ExchangeFails
  PROVE  TypeOK'
<1>1. CASE RequestKeyChange
  BY <1>1 DEF TypeOK, RequestKeyChange, WantKeys, theirs, passed
<1>2. CASE Read
  <2>1. got' \in Packets /\ flight' \in Seq(Packets) /\ Len(flight') <= MaxFlight
    BY <1>2, TransportAssumption DEF Read, TypeOK
  <2>2. reader' \in {"enter", "put"}  BY <1>2 DEF Read
  <2> QED  BY <1>2, <2>1, <2>2 DEF Read, TypeOK, shared, passed
<1>3. CASE ReadFails  BY <1>3 DEF TypeOK, ReadFails, shared, theirs, passed
<1>4. CASE PutPacket
  <2>1. incoming' \in Seq(Packets) /\ Len(incoming') <= Cap
    BY <1>4, TransportAssumption DEF PutPacket, TypeOK
  <2>2. got' \in Packets  BY <1>4 DEF PutPacket, Packets, Plain
  <2> QED  BY <1>4, <2>1, <2>2 DEF PutPacket, TypeOK, shared, theirs, passed
<1>5. CASE EnterExchange
  <2>1. inits' \in [server : Nat, client : Nat]
    BY <1>5, KexInitCounted DEF EnterExchange, TypeOK
  <2> QED  BY <1>5, <2>1 DEF TypeOK, EnterExchange, theirs, passed
<1>6. ASSUME NEW at, NEW p, NEW next \in {"reply", "done"}, ReadKex(at, p, next)
      PROVE  TypeOK'
  <2>1. flight' \in Seq(Packets) /\ Len(flight') <= MaxFlight
    BY <1>6, TransportAssumption DEF ReadKex, TypeOK
  <2> QED  BY <1>6, <2>1 DEF ReadKex, TypeOK, shared, passed
<1>7. CASE WriteKex  BY <1>7 DEF TypeOK, WriteKex, shared, theirs, passed
<1>8. CASE ExchangeEnds
  BY <1>8, TypeUnblock DEF TypeOK, ExchangeEnds, Packets, Plain, Places
<1>9. CASE Abort  BY <1>9, TypeUnblock DEF TypeOK, Abort, Places
<1>10. CASE ExchangeFails  BY <1>10 DEF TypeOK, ExchangeFails, shared, theirs, passed
<1> QED  BY <1>1, <1>2, <1>3, <1>4, <1>5, <1>6, <1>7, <1>8, <1>9, <1>10 DEF ReaderNext

\* What the loop takes, hands on, and a taker takes from it.
LEMMA TypeLoop ==
  ASSUME TypeOK, Take \/ HandOver \/ (\E w \in Writers : Serve(w))
  PROVE  TypeOK'
<1>1. CASE Take
  <2>1. incoming' \in Seq(Packets) /\ Len(incoming') <= Cap
    BY <1>1, TransportAssumption DEF Take, TypeOK
  <2>2. writer' \in [Writers -> Places] /\ dest' \in Takers \union {Nobody}
    BY <1>1 DEF Take, Handled, TypeOK, Places
  <2> QED  BY <1>1, <2>1, <2>2 DEF Take, TypeOK, shared, theirs, Places
<1>2. CASE HandOver
  <2>1. queue' \in [Takers -> 0 .. QueueCap]
    BY <1>2, TransportAssumption DEF HandOver, TypeOK
  <2> QED  BY <1>2, <2>1 DEF HandOver, TypeOK, shared, theirs
<1>3. ASSUME NEW w \in Writers, Serve(w)
      PROVE  TypeOK'
  <2>1. queue' \in [Takers -> 0 .. QueueCap]
    BY <1>3, TransportAssumption DEF Serve, TypeOK
  <2>2. writer' \in [Writers -> Places]  BY <1>3 DEF Serve, TypeOK, Places
  <2> QED  BY <1>3, <2>1, <2>2 DEF Serve, TypeOK, shared, theirs, Places
<1> QED  BY <1>1, <1>2, <1>3

LEMMA TypeSend ==
  ASSUME TypeOK, NEW p \in Packets, NEW from, NEW to \in {"plain", "init", "kex"},
         Send(p, from, to), inits' \in [server : Nat, client : Nat]
  PROVE  TypeOK'
<1>1. flight' \in Seq(Packets) /\ Len(flight') <= MaxFlight
  BY TransportAssumption DEF Send, TypeOK
<1> QED  BY <1>1 DEF Send, TypeOK, shared, passed

ClientNext == ClientSends \/ ClientInit \/ ClientKex \/ ClientNewKeys \/ ClientLeaves

LEMMA TypeClient ==
  ASSUME TypeOK, ClientNext
  PROVE  TypeOK'
<1>1. inits \in [server : Nat, client : Nat]  BY DEF TypeOK
<1>2. CASE ClientSends  BY <1>1, <1>2, TypeSend DEF ClientSends, Packets
<1>3. CASE ClientInit
  <2>1. inits' \in [server : Nat, client : Nat]  BY <1>1, <1>3 DEF ClientInit
  <2> QED  BY <1>3, <2>1, TypeSend DEF ClientInit, Packets
<1>4. CASE ClientKex  BY <1>1, <1>4, TypeSend DEF ClientKex, Packets
<1>5. CASE ClientNewKeys  BY <1>1, <1>5, TypeSend DEF ClientNewKeys, Packets
<1>6. CASE ClientLeaves  BY <1>6 DEF TypeOK, ClientLeaves, shared, theirs, passed
<1> QED  BY <1>2, <1>3, <1>4, <1>5, <1>6 DEF ClientNext

LEMMA TypeKept == TypeOK /\ [Next]_vars => TypeOK'
<1> SUFFICES ASSUME TypeOK, [Next]_vars PROVE TypeOK'  OBVIOUS
<1>1. CASE UNCHANGED vars  BY <1>1 DEF TypeOK, vars, shared, theirs, passed
<1>2. CASE Next
  BY <1>2, TypeWriters, TypeReader, TypeLoop, TypeClient DEF Next, ClientNext
<1> QED  BY <1>1, <1>2

\* Every variable keeps its type, queues their capacity (newHandshakeTransport).
THEOREM TypeCorrect == Spec => []TypeOK
BY TypeInitially, TypeKept, PTL DEF Spec

-----------------------------------------------------------------------------
(* Who writes                                                               *)

\* A writer proceeds: it takes the mutex only when no exchange is under way.
LEMMA ProceedKeeps ==
  ASSUME IInv, NEW w \in Writers, mu = Nobody,
         WantKeys \/ UNCHANGED <<sentInit, inits>>, Proceed(w), UNCHANGED reader
  PROVE  WriterHasLock' /\ ExchangeAnnounced'
<1>1. \A v \in Writers : writer[v] # "write"
  BY TransportAssumption DEF IInv, WriterHasLock
<1>2. writer \in [Writers -> Places]  BY DEF IInv, TypeOK, Places
<1>3. WriterHasLock'
  <2>1. CASE sentInit'
    BY <1>1, <1>2, <2>1 DEF Proceed, WriterHasLock
  <2>2. CASE ~sentInit'
    BY <1>1, <1>2, <2>2 DEF Proceed, WriterHasLock
  <2> QED  BY <2>1, <2>2
<1>4. sentInit => sentInit'  BY DEF WantKeys
<1>5. ExchangeAnnounced'  BY <1>4 DEF IInv, ExchangeAnnounced
<1> QED  BY <1>3, <1>5

LEMMA WritersKeep ==
  ASSUME IInv, NEW w \in Writers, Call(w) \/ WriterNext(w)
  PROVE  WriterHasLock' /\ ExchangeAnnounced'
<1>0. writer \in [Writers -> Places]  BY DEF IInv, TypeOK, Places
<1>1. CASE Call(w)
  BY <1>0, <1>1 DEF IInv, WriterHasLock, ExchangeAnnounced, Call, shared
<1>2. CASE Enter(w)  BY <1>2, ProceedKeeps DEF Enter
<1>3. CASE Woken(w)
  <2>1. mu = Nobody /\ UNCHANGED <<sentInit, inits>> /\ Proceed(w) /\ UNCHANGED reader
    BY <1>3 DEF Woken
  <2> QED  BY <2>1, ProceedKeeps
<1>4. CASE Written(w)
  <2>1. \A v \in Writers : writer'[v] # "write"
    BY <1>0, <1>4 DEF IInv, WriterHasLock, Written
  <2> QED  BY <1>4, <2>1 DEF IInv, WriterHasLock, ExchangeAnnounced, Written
<1> QED  BY <1>1, <1>2, <1>3, <1>4 DEF WriterNext

\* An exchange is announced with the mutex held, when nobody writes.
LEMMA ReaderKeeps ==
  ASSUME IInv, RequestKeyChange \/ ReaderNext \/ ExchangeFails
  PROVE  WriterHasLock' /\ ExchangeAnnounced'
<1>0. mu = Nobody => \A w \in Writers : writer[w] # "write"
  BY TransportAssumption DEF IInv, WriterHasLock
<1>1. CASE RequestKeyChange
  BY <1>0, <1>1 DEF IInv, WriterHasLock, ExchangeAnnounced, RequestKeyChange, WantKeys
<1>2. CASE EnterExchange
  BY <1>0, <1>2 DEF IInv, WriterHasLock, ExchangeAnnounced, EnterExchange
<1>3. ASSUME Unblock, reader' \notin Exchanging
      PROVE  WriterHasLock' /\ ExchangeAnnounced'
  <2>1. \A w \in Writers : writer'[w] # "write"
    BY <1>0, <1>3 DEF Unblock, Broadcast
  <2> QED  BY <1>3, <2>1 DEF WriterHasLock, ExchangeAnnounced
<1>4. CASE ExchangeEnds  BY <1>3, <1>4 DEF ExchangeEnds, Exchanging
<1>5. CASE Abort  BY <1>3, <1>5 DEF Abort, Exchanging
<1>6. ASSUME UNCHANGED <<shared, writer>>,
             reader' \in Exchanging => reader \in Exchanging
      PROVE  WriterHasLock' /\ ExchangeAnnounced'
  BY <1>6 DEF IInv, WriterHasLock, ExchangeAnnounced, shared
<1>7. CASE Read \/ ReadFails \/ PutPacket \/ ExchangeFails
  <2>1. reader' \notin Exchanging /\ UNCHANGED <<shared, writer>>
    BY <1>7 DEF Read, ReadFails, PutPacket, ExchangeFails, Exchanging
  <2> QED  BY <1>6, <2>1
<1>8. CASE \/ ReadKex("dh", "dh", "reply") \/ WriteKex
           \/ ReadKex("newkeys", "newkeys", "done")
  <2>1. reader \in Exchanging /\ UNCHANGED <<shared, writer>>
    BY <1>8 DEF ReadKex, WriteKex, Exchanging
  <2> QED  BY <1>6, <2>1
<1> QED  BY <1>1, <1>2, <1>4, <1>5, <1>7, <1>8 DEF ReaderNext

LEMMA OthersKeep ==
  ASSUME IInv, Take \/ HandOver \/ (\E w \in Writers : Serve(w)) \/ ClientNext
  PROVE  WriterHasLock' /\ ExchangeAnnounced'
<1>0. writer \in [Writers -> Places]  BY DEF IInv, TypeOK, Places
<1>1. CASE Take \/ HandOver \/ (\E w \in Writers : Serve(w))
  <2>1. \A v \in Writers : writer'[v] = "write" => writer[v] = "write"
    BY <1>0, <1>1 DEF Take, Handled, HandOver, Serve
  <2>2. UNCHANGED <<mu, sentInit, reader>>
    BY <1>1 DEF Take, HandOver, Serve, shared
  <2> QED  BY <2>1, <2>2 DEF IInv, WriterHasLock, ExchangeAnnounced
<1>2. CASE ClientNext
  <2>1. UNCHANGED <<mu, sentInit, writer, reader>>
    BY <1>2 DEF ClientNext, ClientSends, ClientInit, ClientKex, ClientNewKeys,
                ClientLeaves, Send, shared
  <2> QED  BY <2>1 DEF IInv, WriterHasLock, ExchangeAnnounced
<1> QED  BY <1>1, <1>2

LEMMA Initially == Init => IInv
<1>1. Init => WriterHasLock /\ ExchangeAnnounced
  BY DEF Init, WriterHasLock, ExchangeAnnounced, Exchanging
<1> QED  BY <1>1, TypeInitially DEF IInv

LEMMA Kept == IInv /\ [Next]_vars => IInv'
<1> SUFFICES ASSUME IInv, [Next]_vars PROVE IInv'  OBVIOUS
<1>1. TypeOK'  BY TypeKept DEF IInv
<1>2. WriterHasLock' /\ ExchangeAnnounced'
  <2>1. CASE UNCHANGED vars
    BY <2>1 DEF IInv, WriterHasLock, ExchangeAnnounced, vars, shared
  <2>2. CASE Next
    BY <2>2, WritersKeep, ReaderKeeps, OthersKeep DEF Next, ClientNext
  <2> QED  BY <2>1, <2>2
<1> QED  BY <1>1, <1>2 DEF IInv

\* From our KEXINIT to the end of an exchange no writer writes, and at other times
\* one at most, for any number of writers and any length of the queue.
THEOREM ExchangesAreAlone == Spec => []ExchangeIsAlone
<1>1. IInv => ExchangeIsAlone
  BY DEF IInv, WriterHasLock, ExchangeAnnounced, Exchanging, ExchangeIsAlone
<1> QED  BY <1>1, Initially, Kept, PTL DEF Spec
=============================================================================
