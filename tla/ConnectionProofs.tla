-------------------------- MODULE ConnectionProofs --------------------------
(* Proofs about Connection, for every value of its constants. *)
EXTENDS Connection, SequenceTheorems, TLAPS

-----------------------------------------------------------------------------
(* The inductive invariant: who points to which channel, and until when. *)

Made(o) == o \in 1 .. made

InQueue(o) == \E i \in 1 .. Len(openq) : openq[i] = o

\* On its way to handleChannels
Waiting(o) == (mux.pc = "open" /\ mux.o = o) \/ InQueue(o)

\* What the loop holds is there, and new if it is a channel to be queued.
HandsOK ==
  /\ mux.pc = "open" => Made(mux.o) /\ ~ InQueue(mux.o)
  /\ mux.pc = "request" => Made(mux.o) /\ mux.r \in Req /\ chan[mux.o].open
  /\ mux.pc = "answer" => mux.o = NoChan \/ (Made(mux.o) /\ chan[mux.o].open)

\* A channel is queued once.
QueueOK == /\ \A i \in 1 .. Len(openq) : Made(openq[i])
           /\ \A i, j \in 1 .. Len(openq) : openq[i] = openq[j] => i = j

\* handleChannel is called for sessions.
SessionsOnly ==
  /\ acc # NoChan => Made(acc) /\ chan[acc].session
  /\ \A o \in Chans : handler[o] # "none" => Made(o) /\ chan[o].session

\* The table and its channels agree, until the loop has ended.
TableOK ==
  /\ \A l \in Chans : table[l] # NoChan =>
       Made(table[l]) /\ chan[table[l]].lid = l /\ chan[table[l]].open
  /\ \A o \in 1 .. made : /\ ~ chan[o].open => chan[o].sentClose
                          /\ up /\ chan[o].open => table[chan[o].lid] = o

\* What the client knows is right.
ClientOK ==
  \A k \in Ids : client[k].st # "free" =>
    /\ Made(client[k].o) /\ chan[client[k].o].rid = k
    /\ up /\ client[k].st \in {"open", "closed"} =>
         client[k].lid \in Chans /\ table[client[k].lid] = client[k].o

\* A channel on which the server may still send is the one the client means.
Current ==
  \A o \in 1 .. made : up /\ Writable(o) /\ (chan[o].session \/ Waiting(o)) =>
    client[chan[o].rid].st # "free" /\ client[chan[o].rid].o = o

\* With handleChannels, or with a goroutine of its own
Taken(o) == acc = o \/ handler[o] # "none"

\* The client knows what has been accepted.
Accepted ==
  \A o \in 1 .. made : up /\ Writable(o) /\ Taken(o) => client[chan[o].rid].st = "open"

Clean == ~ stray /\ ~ panicked

IInv == /\ TypeOK
        /\ HandsOK /\ QueueOK /\ SessionsOnly
        /\ TableOK /\ ClientOK /\ Current /\ Accepted
        /\ Clean

-----------------------------------------------------------------------------
(* A channel queue *)

LEMMA QueueAppend ==
  ASSUME NEW o \in Chans, openq \in Seq(Chans), openq' = Append(openq, o)
  PROVE  /\ openq' \in Seq(Chans) /\ Len(openq') = Len(openq) + 1
         /\ \A p : InQueue(p)' <=> InQueue(p) \/ p = o
<1>1. /\ openq' \in Seq(Chans) /\ Len(openq') = Len(openq) + 1 /\ Len(openq) \in Nat
      /\ \A i \in 1 .. Len(openq) : openq'[i] = openq[i]
      /\ openq'[Len(openq) + 1] = o
  OBVIOUS
<1>2. \A p : InQueue(p)' <=> InQueue(p) \/ p = o
  BY <1>1 DEF InQueue
<1> QED
  BY <1>1, <1>2

LEMMA QueueTail ==
  ASSUME TypeQueues, QueueOK, openq # <<>>, openq' = Tail(openq)
  PROVE  /\ openq' \in Seq(Chans) /\ Len(openq') <= QueueCap
         /\ Head(openq) \in Chans /\ InQueue(Head(openq))
         /\ \A p : InQueue(p)' <=> InQueue(p) /\ p # Head(openq)
         /\ (made' = made => QueueOK')
<1>1. openq \in Seq(Chans) /\ Len(openq) <= QueueCap /\ QueueCap \in Nat
  BY ConnectionAssumption DEF TypeQueues
<1>2. /\ openq' \in Seq(Chans) /\ Len(openq') = Len(openq) - 1
      /\ Len(openq) \in Nat \ {0}
      /\ Head(openq) = openq[1] /\ Head(openq) \in Chans
      /\ \A i \in 1 .. Len(openq') : openq'[i] = openq[i + 1]
  BY <1>1, HeadTailProperties, EmptySeq
<1>3. InQueue(Head(openq))
  BY <1>2 DEF InQueue
<1>4. \A p : InQueue(p)' => InQueue(p) /\ p # Head(openq)
  BY <1>2 DEF InQueue, QueueOK
<1>5. ASSUME NEW p, InQueue(p), p # Head(openq)
      PROVE  InQueue(p)'
  <2>1. PICK i \in 1 .. Len(openq) : openq[i] = p
    BY <1>5 DEF InQueue
  <2>2. i - 1 \in 1 .. Len(openq') /\ openq'[i - 1] = p
    BY <1>2, <1>5, <2>1
  <2> QED
    BY <2>2 DEF InQueue
<1>6. made' = made => QueueOK'
  BY <1>2 DEF QueueOK, Made
<1> QED
  BY <1>1, <1>2, <1>3, <1>4, <1>5, <1>6

-----------------------------------------------------------------------------
(* Steps that change little *)

\* Tables, numbers and what the client knows agree as long as no channel is made,
\* renumbered, closed or reopened.
LEMMA SameRoutes ==
  ASSUME TableOK, ClientOK, Current, Accepted,
         UNCHANGED <<client, table, made>>, up' => up,
         \A o \in 1 .. made :
           /\ chan'[o].rid = chan[o].rid /\ chan'[o].lid = chan[o].lid
           /\ chan'[o].session = chan[o].session /\ chan'[o].open = chan[o].open
           /\ chan[o].sentClose => chan'[o].sentClose
           /\ Waiting(o)' => Waiting(o)
           /\ Taken(o)' => Taken(o)
  PROVE  TableOK' /\ ClientOK' /\ Current' /\ Accepted'
<1>1. TableOK'
  BY DEF TableOK, Made
<1>2. ClientOK'
  BY DEF ClientOK, Made
<1>3. Current'
  BY DEF Current, Writable
<1>4. Accepted'
  BY DEF Accepted, Writable
<1> QED
  BY <1>1, <1>2, <1>3, <1>4

\* Nor does it matter what else the loop reads and the handlers do.
LEMMA SameQueues ==
  ASSUME QueueOK, SessionsOnly, UNCHANGED <<openq, made, acc, handler>>,
         \A o \in 1 .. made : chan'[o].session = chan[o].session
  PROVE  QueueOK' /\ SessionsOnly'
BY DEF QueueOK, SessionsOnly, Made

-----------------------------------------------------------------------------
(* Every step preserves it. *)

Types == TypeClient /\ TypeTable /\ TypeChan /\ TypeQueues /\ TypeHandlers /\ TypeHist
Routes == /\ HandsOK /\ QueueOK /\ SessionsOnly
          /\ TableOK /\ ClientOK /\ Current /\ Accepted

LEMMA Numbers ==
  /\ MaxChans \in Nat /\ QueueCap \in Nat \ {0} /\ MaxReqs \in Nat
  /\ Chans = 1 .. MaxChans /\ NoChan = 0
BY ConnectionAssumption DEF Chans, NoChan

LEMMA MadeChans == ASSUME TypeTable PROVE \A o : Made(o) => o \in Chans /\ o # NoChan
BY Numbers DEF TypeTable, Made

LEMMA OpenStep ==
  ASSUME IInv, NEW k \in Ids, NEW session \in BOOLEAN, Open(k, session)
  PROVE  IInv'
<1> USE Numbers
<1>0. Types /\ Routes /\ Clean
  BY DEF IInv, TypeOK, Types, Routes
<1>1. PICK l \in Chans :
        /\ table[l] = NoChan /\ table' = [table EXCEPT ![l] = made + 1]
        /\ chan' = [chan EXCEPT ![made + 1] =
             [rid |-> k, lid |-> l, session |-> session, sentClose |-> FALSE,
              open |-> TRUE, q |-> <<>>]]
  BY DEF Open, IsFreeSlot
<1>2. /\ up /\ client[k].st = "free" /\ made' = made + 1 /\ made + 1 \in Chans
      /\ client' = [client EXCEPT ![k] = [st |-> "opening", o |-> made + 1, lid |-> 0]]
      /\ mux' = [pc |-> "open", o |-> made + 1, r |-> NoReq]
      /\ UNCHANGED <<up, stalled, openq, globq, unread, acc, handler, sent, answers, stray, panicked>>
  BY <1>0 DEF Open, Types, TypeTable, hist
<1>3. \A o : Made(o) => o \in Chans /\ o # made + 1 /\ chan'[o] = chan[o]
  BY <1>0, <1>1 DEF Types, TypeChan, TypeTable, Made
<1>4. chan'[made + 1] = [rid |-> k, lid |-> l, session |-> session, sentClose |-> FALSE,
                         open |-> TRUE, q |-> <<>>]
  BY <1>0, <1>1, <1>2 DEF Types, TypeChan
<1>5. \A o : Made(o)' <=> Made(o) \/ o = made + 1
  BY <1>0, <1>2 DEF Types, Made, TypeTable
<1>6. \A o : InQueue(o)' <=> InQueue(o)
  BY <1>2 DEF InQueue
<1>7. TypeClient' /\ TypeTable'
  BY <1>0, <1>1, <1>2 DEF Types, TypeClient, ClientType, TypeTable
<1>8. TypeChan'
  <2>1. chan' \in [Chans -> ChanType]
    BY <1>0, <1>1, <1>2 DEF Types, TypeChan, ChanType
  <2>2. \A o \in 1 .. made' : chan'[o].rid \in Ids /\ chan'[o].lid \in Chans
    BY <1>0, <1>3, <1>4, <1>5 DEF Types, TypeChan, Made
  <2>3. \A o \in Chans : chan'[o] = chan[o] \/ chan'[o].q = <<>>
    BY <1>0, <1>1 DEF Types, TypeChan
  <2>4. \A o \in Chans : Len(chan'[o].q) <= QueueCap
    BY <1>0, <2>3, EmptySeq DEF Types, TypeChan
  <2> QED
    BY <2>1, <2>2, <2>4 DEF TypeChan
<1>9. TypeQueues' /\ TypeHandlers' /\ TypeHist'
  BY <1>0, <1>2 DEF Types, TypeQueues, TypeHandlers, TypeHist, MuxType
<1>10. HandsOK'
  <2>1. ~ InQueue(made + 1)
    BY <1>0, <1>5, <1>2 DEF Routes, QueueOK, InQueue, Made, Types, TypeTable
  <2> QED
    BY <1>2, <1>5, <1>6, <2>1 DEF HandsOK
<1>11. QueueOK' /\ SessionsOnly'
  BY <1>0, <1>2, <1>3, <1>5 DEF Routes, QueueOK, SessionsOnly
<1>12. TableOK'
  <2>1. \A m \in Chans : m # l => table'[m] = table[m]
    BY <1>0, <1>1 DEF Types, TypeTable
  <2>2. table'[l] = made + 1
    BY <1>0, <1>1 DEF Types, TypeTable
  <2>3. \A o : Made(o) /\ chan[o].open => chan[o].lid \in Chans /\ chan[o].lid # l
    BY <1>0, <1>1, <1>2, <1>3 DEF Types, TypeChan, Routes, TableOK, Made
  <2>4. \A m \in Chans : table'[m] # NoChan =>
          /\ table'[m] \in 1 .. made'
          /\ chan'[table'[m]].lid = m /\ chan'[table'[m]].open
    BY <1>0, <1>3, <1>4, <1>5, <2>1, <2>2 DEF Routes, TableOK, Made
  <2>5. \A o : Made(o)' => /\ ~ chan'[o].open => chan'[o].sentClose
                           /\ up' /\ chan'[o].open => table'[chan'[o].lid] = o
    BY <1>0, <1>2, <1>3, <1>4, <1>5, <2>1, <2>2, <2>3 DEF Routes, TableOK, Made
  <2> QED
    BY <2>4, <2>5 DEF TableOK, Made
<1>13. ClientOK'
  <2>1. \A m \in Ids : m # k => client'[m] = client[m]
    BY <1>0, <1>2 DEF Types, TypeClient
  <2>2. client'[k] = [st |-> "opening", o |-> made + 1, lid |-> 0]
    BY <1>0, <1>2 DEF Types, TypeClient
  <2>3. \A m \in Chans : table[m] # NoChan => table'[m] = table[m]
    BY <1>0, <1>1 DEF Types, TypeTable
  <2>4. ASSUME NEW m \in Ids, client'[m].st # "free", m # k
        PROVE  /\ client'[m].o \in 1 .. made' /\ chan'[client'[m].o].rid = m
               /\ up' /\ client'[m].st \in {"open", "closed"} =>
                    client'[m].lid \in Chans /\ table'[client'[m].lid] = client'[m].o
    BY <1>0, <1>2, <1>3, <1>5, <2>1, <2>3, <2>4, MadeChans DEF Routes, ClientOK, Types, Made
  <2> QED
    BY <1>4, <1>5, <2>2, <2>4 DEF ClientOK, Made
<1>14. Current'
  <2>1. ASSUME NEW o \in 1 .. made', up', Writable(o)', chan'[o].session \/ Waiting(o)'
        PROVE  client'[chan'[o].rid].st # "free" /\ client'[chan'[o].rid].o = o
    <3>1. CASE o = made + 1
      BY <1>0, <1>2, <1>4, <3>1 DEF Types, TypeClient
    <3>2. CASE o # made + 1
      <4>1. Made(o) /\ chan'[o] = chan[o]
        BY <1>3, <1>5, <3>2 DEF Made
      <4>2. Writable(o) /\ (chan[o].session \/ Waiting(o))
        BY <1>2, <1>6, <2>1, <3>2, <4>1 DEF Writable, Waiting
      <4>3. client[chan[o].rid].st # "free" /\ client[chan[o].rid].o = o
        BY <1>0, <1>2, <4>1, <4>2 DEF Routes, Current, Made
      <4> QED
        BY <1>0, <1>2, <4>1, <4>3 DEF Types, TypeClient, TypeChan, Made
    <3> QED
      BY <3>1, <3>2
  <2> QED
    BY <2>1 DEF Current
<1>15. Accepted'
  <2>1. ASSUME NEW o \in 1 .. made', Writable(o)', Taken(o)'
        PROVE  client'[chan'[o].rid].st = "open"
    <3>1. o \in Chans /\ Taken(o)
      BY <1>2, <1>3, <1>5, <2>1 DEF Taken, Made
    <3>2. Made(o) /\ chan[o].session
      BY <1>0, <3>1 DEF Routes, SessionsOnly, Taken, Types, TypeTable, Made
    <3>3. Writable(o) /\ chan'[o] = chan[o]
      BY <1>3, <2>1, <3>2 DEF Writable
    <3>4. client[chan[o].rid].st = "open"
      BY <1>0, <1>2, <3>1, <3>2, <3>3 DEF Routes, Accepted, Made
    <3>5. chan[o].rid \in Ids /\ chan[o].rid # k
      BY <1>0, <1>2, <3>2, <3>4 DEF Types, TypeChan, Made
    <3> QED
      BY <1>0, <1>2, <3>3, <3>4, <3>5 DEF Types, TypeClient
  <2> QED
    BY <2>1 DEF Accepted
<1>16. Clean'
  BY <1>0, <1>2 DEF Clean
<1> QED
  BY <1>7, <1>8, <1>9, <1>10, <1>11, <1>12, <1>13, <1>14, <1>15, <1>16 DEF IInv, TypeOK

LEMMA RequestStep ==
  ASSUME IInv, NEW k \in Ids, NEW kind \in Kinds, NEW want \in BOOLEAN, Request(k, kind, want)
  PROVE  IInv'
<1> USE Numbers
<1> DEFINE o == client[k].o
           r == [n |-> Len(sent[o]) + 1, kind |-> kind, want |-> want]
<1>0. Types /\ Routes /\ Clean
  BY DEF IInv, TypeOK, Types, Routes
<1>1. /\ up /\ client[k].st \in {"open", "closed"} /\ Len(sent[o]) < MaxReqs
      /\ sent' = [sent EXCEPT ![o] = Append(@, r)]
      /\ mux' = [pc |-> "request", o |-> table[client[k].lid], r |-> r]
      /\ stray' = (stray \/ table[client[k].lid] # o)
      /\ UNCHANGED <<up, stalled, client, table, made, chan, openq, globq, unread, acc, handler,
                     answers, panicked>>
  BY DEF Request
<1>2. Made(o) /\ o \in Chans /\ table[client[k].lid] = o /\ chan[o].open
  BY <1>0, <1>1, MadeChans DEF Types, Routes, ClientOK, TableOK
<1>3. r \in Req
  <2>1. Len(sent[o]) \in Nat
    BY <1>0, <1>2, LenProperties DEF Types, TypeHist
  <2> QED
    BY <1>1, <2>1 DEF Req
<1>4. TypeClient' /\ TypeTable' /\ TypeChan' /\ TypeHandlers'
  BY <1>0, <1>1 DEF Types, TypeClient, TypeTable, TypeChan, TypeHandlers
<1>5. TypeQueues'
  BY <1>0, <1>1, <1>2, <1>3, MadeChans DEF Types, TypeQueues, MuxType
<1>6. stray' = FALSE
  BY <1>0, <1>1, <1>2 DEF Clean
<1>7. TypeHist' /\ Clean'
  <2>1. Append(sent[o], r) \in Seq(Req)
    BY <1>0, <1>2, <1>3 DEF Types, TypeHist
  <2> QED
    BY <1>0, <1>1, <1>6, <2>1 DEF Types, TypeHist, Clean
<1>8. HandsOK'
  BY <1>1, <1>2, <1>3 DEF HandsOK, Made
<1>9. QueueOK' /\ SessionsOnly'
  BY <1>0, <1>1, SameQueues DEF Routes
<1>10. TableOK' /\ ClientOK' /\ Current' /\ Accepted'
  <2>1. \A p : Waiting(p)' => Waiting(p)
    BY <1>1 DEF Waiting, InQueue
  <2> QED
    BY <1>0, <1>1, <2>1, SameRoutes DEF Routes, Taken
<1> QED
  BY <1>4, <1>5, <1>7, <1>8, <1>9, <1>10 DEF IInv, TypeOK

\* SSH_MSG_GLOBAL_REQUEST, and the ends of steps that only empty the loop's hands
LEMMA HandsStep ==
  ASSUME IInv, UNCHANGED <<client, table, made, chan, acc, handler, hist>>, up' => up,
         TypeClient', TypeQueues',
         HandsOK', QueueOK', \A o : Waiting(o)' => Waiting(o)
  PROVE  IInv'
<1>0. Types /\ Routes /\ Clean
  BY DEF IInv, TypeOK, Types, Routes
<1>1. TypeTable' /\ TypeChan' /\ TypeHandlers' /\ TypeHist' /\ Clean'
  BY <1>0 DEF Types, TypeTable, TypeChan, TypeHandlers, TypeHist, Clean, hist
<1>2. SessionsOnly'
  BY <1>0 DEF Routes, SessionsOnly, Made
<1>3. TableOK' /\ ClientOK' /\ Current' /\ Accepted'
  BY <1>0, SameRoutes DEF Routes, Taken
<1> QED
  BY <1>1, <1>2, <1>3 DEF IInv, TypeOK

LEMMA GlobalStep ==
  ASSUME IInv, Global \/ GlobalAnswer
  PROVE  IInv'
<1>0. Types /\ Routes
  BY DEF IInv, TypeOK, Types, Routes
<1>1. /\ \E pc \in {"global", "answer"} : mux' = [pc |-> pc, o |-> NoChan, r |-> NoReq]
      /\ UNCHANGED <<up, stalled, client, table, made, chan, openq, globq, unread, acc,
                     handler, hist>>
  BY DEF Global, GlobalAnswer
<1>2. TypeClient'
  BY <1>0, <1>1, Numbers DEF Types, TypeClient
<1>3. TypeQueues'
  BY <1>0, <1>1, Numbers DEF Types, TypeQueues, MuxType
<1>4. HandsOK' /\ QueueOK' /\ \A o : Waiting(o)' => Waiting(o)
  BY <1>0, <1>1 DEF Routes, HandsOK, QueueOK, Waiting, InQueue, Made
<1> QED
  BY <1>1, <1>2, <1>3, <1>4, HandsStep

LEMMA AnswerStep ==
  ASSUME IInv, NEW k \in Ids, Answer(k)
  PROVE  IInv'
<1> DEFINE o == client[k].o
<1>0. Types /\ Routes /\ Clean
  BY DEF IInv, TypeOK, Types, Routes
<1>1. /\ up /\ client[k].st \in {"open", "closed"}
      /\ mux' = [pc |-> "answer", o |-> table[client[k].lid], r |-> NoReq]
      /\ stray' = (stray \/ table[client[k].lid] # o)
      /\ UNCHANGED <<up, stalled, client, table, made, chan, openq, globq, unread, acc,
                     handler, sent, answers, panicked>>
  BY DEF Answer
<1>2. Made(o) /\ o \in Chans /\ table[client[k].lid] = o /\ chan[o].open
  BY <1>0, <1>1, MadeChans DEF Types, Routes, ClientOK, TableOK
<1>3. UNCHANGED hist
  BY <1>0, <1>1, <1>2 DEF Clean, Types, TypeHist, hist
<1>4. TypeClient'
  BY <1>0, <1>1 DEF Types, TypeClient
<1>5. TypeQueues'
  BY <1>0, <1>1, <1>2, Numbers DEF Types, TypeQueues, MuxType
<1>6. HandsOK' /\ QueueOK' /\ \A p : Waiting(p)' => Waiting(p)
  BY <1>0, <1>1, <1>2 DEF Routes, HandsOK, QueueOK, Waiting, InQueue, Made
<1> QED
  BY <1>1, <1>3, <1>4, <1>5, <1>6, HandsStep

LEMMA PutOpenStep ==
  ASSUME IInv, PutOpen
  PROVE  IInv'
<1>0. Types /\ Routes
  BY DEF IInv, TypeOK, Types, Routes
<1>1. /\ mux.pc = "open" /\ Len(openq) < QueueCap /\ openq' = Append(openq, mux.o)
      /\ mux' = Reading
      /\ UNCHANGED <<up, stalled, client, table, made, chan, globq, unread, acc, handler, hist>>
  BY DEF PutOpen
<1>2. Made(mux.o) /\ mux.o \in Chans /\ ~ InQueue(mux.o)
  BY <1>0, <1>1, MadeChans DEF Types, Routes, HandsOK
<1>3. openq \in Seq(Chans)
  BY <1>0 DEF Types, TypeQueues
<1>4. /\ openq' \in Seq(Chans) /\ Len(openq') = Len(openq) + 1
      /\ \A p : InQueue(p)' <=> InQueue(p) \/ p = mux.o
  BY <1>1, <1>2, <1>3, QueueAppend
<1>5. TypeClient' /\ TypeQueues'
  BY <1>0, <1>1, <1>3, <1>4, Numbers, LenProperties
     DEF Types, TypeClient, TypeQueues, MuxType, Reading
<1>6. HandsOK' /\ \A o : Waiting(o)' => Waiting(o)
  BY <1>1, <1>4 DEF HandsOK, Waiting, Reading
<1>7. QueueOK'
  <2>1. /\ \A i \in 1 .. Len(openq) : openq'[i] = openq[i]
        /\ openq'[Len(openq) + 1] = mux.o /\ Len(openq) \in Nat
    BY <1>1, <1>2, <1>3, LenProperties
  <2>2. \A i \in 1 .. Len(openq') : i \in 1 .. Len(openq) \/ i = Len(openq) + 1
    BY <1>4, <2>1
  <2>3. \A i \in 1 .. Len(openq) : openq[i] # mux.o
    BY <1>2 DEF InQueue
  <2> QED
    BY <1>0, <1>1, <1>2, <2>1, <2>2, <2>3 DEF Routes, QueueOK, Made
<1> QED
  BY <1>1, <1>5, <1>6, <1>7, HandsStep

LEMMA PutGlobalStep ==
  ASSUME IInv, PutGlobal
  PROVE  IInv'
<1>0. Types /\ Routes
  BY DEF IInv, TypeOK, Types, Routes
<1>1. /\ globq < QueueCap /\ globq' = globq + 1 /\ mux' = Reading
      /\ UNCHANGED <<up, stalled, client, table, made, chan, openq, unread, acc, handler, hist>>
  BY DEF PutGlobal
<1>2. TypeClient' /\ TypeQueues'
  BY <1>0, <1>1, Numbers DEF Types, TypeClient, TypeQueues, MuxType, Reading
<1>3. HandsOK' /\ QueueOK' /\ \A o : Waiting(o)' => Waiting(o)
  BY <1>0, <1>1 DEF Routes, HandsOK, QueueOK, Waiting, InQueue, Made, Reading
<1> QED
  BY <1>1, <1>2, <1>3, HandsStep

LEMMA PutAnswerStep ==
  ASSUME IInv, PutAnswer
  PROVE  IInv'
<1>0. Types /\ Routes /\ Clean
  BY DEF IInv, TypeOK, Types, Routes
<1>1. /\ mux.pc = "answer" /\ unread[mux.o] < AnswerCap(mux.o)
      /\ unread' = [unread EXCEPT ![mux.o] = @ + 1]
      /\ panicked' = (panicked \/ (mux.o # NoChan /\ ~ chan[mux.o].open))
      /\ mux' = Reading
      /\ UNCHANGED <<up, stalled, client, table, made, chan, openq, globq, acc, handler,
                     sent, answers, stray>>
  BY DEF PutAnswer
<1>2. UNCHANGED hist
  BY <1>0, <1>1 DEF Routes, HandsOK, Clean, Types, TypeHist, hist
<1>3. TypeClient'
  BY <1>0, <1>1 DEF Types, TypeClient
<1>4. TypeQueues'
  <2>1. mux.o \in 0 .. MaxChans /\ mux' \in MuxType
    BY <1>0, <1>1, Numbers DEF Types, TypeQueues, MuxType, Reading
  <2>2. /\ unread' \in [0 .. MaxChans -> Nat] /\ unread'[mux.o] = unread[mux.o] + 1
        /\ \A o \in 0 .. MaxChans : o # mux.o => unread'[o] = unread[o]
    BY <1>0, <1>1, <2>1 DEF Types, TypeQueues
  <2>3. AnswerCap(mux.o) \in Nat
    BY Numbers DEF AnswerCap
  <2>4. \A o \in 0 .. MaxChans : unread'[o] <= AnswerCap(o)
    BY <1>0, <1>1, <2>1, <2>2, <2>3 DEF Types, TypeQueues
  <2>5. \A o \in 0 .. MaxChans : AnswerCap(o)' = AnswerCap(o)
    BY DEF AnswerCap
  <2> QED
    BY <1>0, <1>1, <2>1, <2>2, <2>4, <2>5 DEF Types, TypeQueues
<1>5. HandsOK' /\ QueueOK' /\ \A o : Waiting(o)' => Waiting(o)
  BY <1>0, <1>1 DEF Routes, HandsOK, QueueOK, Waiting, InQueue, Made, Reading
<1> QED
  BY <1>1, <1>2, <1>3, <1>4, <1>5, HandsStep

\* The end of the client, and that of the server: nothing is sent any more.
LEMMA GoneStep ==
  ASSUME IInv, up' = FALSE, client' = [k \in Ids |-> Free],
         UNCHANGED <<stalled, made, chan, hist>>,
         TypeTable', TypeQueues', TypeHandlers', HandsOK', QueueOK', SessionsOnly',
         \A l \in Chans : table'[l] # NoChan => table'[l] = table[l]
  PROVE  IInv'
<1>0. Types /\ Routes /\ Clean
  BY DEF IInv, TypeOK, Types, Routes
<1>1. TypeClient' /\ TypeChan' /\ TypeHist' /\ Clean'
  <2>1. Free \in ClientType
    BY Numbers DEF Free, ClientType
  <2>2. TypeClient'
    BY <1>0, <2>1 DEF Types, TypeClient
  <2> QED
    BY <1>0, <2>2 DEF Types, TypeChan, TypeHist, Clean, hist
<1>2. TableOK'
  <2>1. \A l \in Chans : table'[l] # NoChan =>
          Made(table'[l]) /\ chan[table'[l]].lid = l /\ chan[table'[l]].open
    BY <1>0 DEF Routes, TableOK
  <2> QED
    BY <1>0, <2>1 DEF Routes, TableOK, Made
<1>3. ClientOK' /\ Current' /\ Accepted'
  BY DEF ClientOK, Current, Accepted, Free
<1> QED
  BY <1>1, <1>2, <1>3 DEF IInv, TypeOK

LEMMA LeaveStep ==
  ASSUME IInv, Leave
  PROVE  IInv'
<1>1. /\ up' = FALSE /\ client' = [k \in Ids |-> Free]
      /\ UNCHANGED <<stalled, mux, table, made, chan, openq, globq, unread, acc, handler, hist>>
  BY DEF Leave, server
<1>2. /\ TypeTable' /\ TypeQueues' /\ TypeHandlers'
      /\ HandsOK' /\ QueueOK' /\ SessionsOnly'
  BY <1>1 DEF IInv, TypeOK, TypeTable, TypeQueues, TypeHandlers, HandsOK, QueueOK,
              SessionsOnly, Made, InQueue
<1> QED
  BY <1>1, <1>2, GoneStep

LEMMA ServerDiesStep ==
  ASSUME IInv, ServerDies
  PROVE  IInv'
<1>1. /\ up' = FALSE /\ client' = [k \in Ids |-> Free]
      /\ mux' = [pc |-> "ended", o |-> NoChan, r |-> NoReq]
      /\ table' = [l \in Chans |-> NoChan]
      /\ openq' = <<>> /\ globq' = 0 /\ acc' = NoChan
      /\ handler' = [p \in Chans |-> "none"]
      /\ UNCHANGED <<stalled, made, chan, unread, hist>>
  BY DEF ServerDies, Reading
<1>2. TypeTable' /\ TypeHandlers'
  BY <1>1, Numbers DEF IInv, TypeOK, TypeTable, TypeHandlers
<1>3. TypeQueues'
  <2>1. mux' \in MuxType
    BY <1>1, Numbers DEF MuxType
  <2>2. openq' \in Seq(Chans) /\ Len(openq') <= QueueCap
    BY <1>1, Numbers
  <2> QED
    BY <1>1, <2>1, <2>2, Numbers DEF IInv, TypeOK, TypeQueues
<1>4. HandsOK' /\ QueueOK' /\ SessionsOnly'
  BY <1>1 DEF HandsOK, QueueOK, SessionsOnly
<1>5. \A l \in Chans : table'[l] = NoChan
  BY <1>1
<1> QED
  BY <1>1, <1>2, <1>3, <1>4, <1>5, GoneStep

LEMMA handleRequestsStep ==
  ASSUME IInv, handleRequests \/ Stall
  PROVE  IInv'
<1>0. Types /\ Routes
  BY DEF IInv, TypeOK, Types, Routes
<1>1. UNCHANGED <<client, mux, table, made, chan, openq, unread, acc, handler, hist>>
  BY DEF handleRequests, Stall, server
<1>2. up' = up /\ (stalled' = stalled \/ stalled' = TRUE)
  BY DEF handleRequests, Stall
<1>3. globq' = globq \/ (globq > 0 /\ globq' = globq - 1)
  BY DEF handleRequests, Stall, server
<1>4. TypeClient' /\ TypeQueues'
  <2>1. TypeClient'
    BY <1>0, <1>1, <1>2 DEF Types, TypeClient
  <2>2. globq' \in 0 .. QueueCap
    BY <1>0, <1>3, Numbers DEF Types, TypeQueues
  <2> QED
    BY <1>0, <1>1, <2>1, <2>2 DEF Types, TypeQueues
<1>5. HandsOK' /\ QueueOK' /\ \A o : Waiting(o)' => Waiting(o)
  BY <1>0, <1>1 DEF Routes, HandsOK, QueueOK, Waiting, InQueue, Made
<1>6. up' => up
  BY <1>2
<1> QED
  BY <1>1, <1>4, <1>5, <1>6, HandsStep

\* A step that changes one queue of requests.
LEMMA OneQueue ==
  ASSUME TypeTable, TypeChan, UNCHANGED made, NEW o \in Chans,
         NEW s \in Seq(Req), Len(s) <= QueueCap,
         chan' = [chan EXCEPT ![o].q = s]
  PROVE  /\ TypeChan'
         /\ \A p \in Chans :
              /\ chan'[p].rid = chan[p].rid /\ chan'[p].lid = chan[p].lid
              /\ chan'[p].session = chan[p].session /\ chan'[p].open = chan[p].open
              /\ chan'[p].sentClose = chan[p].sentClose
<1>1. chan' \in [Chans -> ChanType]
  BY DEF TypeChan, ChanType
<1>2. \A p \in Chans :
        /\ chan'[p].rid = chan[p].rid /\ chan'[p].lid = chan[p].lid
        /\ chan'[p].session = chan[p].session /\ chan'[p].open = chan[p].open
        /\ chan'[p].sentClose = chan[p].sentClose
        /\ (chan'[p].q = chan[p].q \/ chan'[p].q = s)
  BY DEF TypeChan, ChanType
<1>3. \A p \in 1 .. made : p \in Chans
  BY Numbers DEF TypeTable
<1> QED
  BY <1>1, <1>2, <1>3 DEF TypeChan

LEMMA PutRequestStep ==
  ASSUME IInv, PutRequest
  PROVE  IInv'
<1>0. Types /\ Routes /\ Clean
  BY DEF IInv, TypeOK, Types, Routes
<1>1. /\ mux.pc = "request" /\ Len(chan[mux.o].q) < QueueCap
      /\ chan' = [chan EXCEPT ![mux.o].q = Append(@, mux.r)]
      /\ panicked' = (panicked \/ ~ chan[mux.o].open)
      /\ mux' = Reading
      /\ UNCHANGED <<up, stalled, client, table, made, openq, globq, unread, acc, handler,
                     sent, answers, stray>>
  BY DEF PutRequest
<1>2. Made(mux.o) /\ mux.o \in Chans /\ mux.r \in Req /\ chan[mux.o].open
  BY <1>0, <1>1, MadeChans DEF Types, Routes, HandsOK
<1> DEFINE s == Append(chan[mux.o].q, mux.r)
<1>3. s \in Seq(Req) /\ Len(s) <= QueueCap
  <2>1. chan[mux.o].q \in Seq(Req)
    BY <1>0, <1>2 DEF Types, TypeChan, ChanType
  <2> QED
    BY <1>1, <1>2, <2>1, Numbers, LenProperties
<1>4. chan' = [chan EXCEPT ![mux.o].q = s]
  BY <1>1
<1> HIDE DEF s
<1>5. /\ TypeChan'
      /\ \A p \in Chans :
           /\ chan'[p].rid = chan[p].rid /\ chan'[p].lid = chan[p].lid
           /\ chan'[p].session = chan[p].session /\ chan'[p].open = chan[p].open
           /\ chan'[p].sentClose = chan[p].sentClose
  BY <1>0, <1>1, <1>2, <1>3, <1>4, OneQueue DEF Types
<1>6. TypeClient' /\ TypeTable' /\ TypeHandlers'
  BY <1>0, <1>1 DEF Types, TypeClient, TypeTable, TypeHandlers
<1>7. TypeQueues'
  BY <1>0, <1>1, Numbers DEF Types, TypeQueues, MuxType, Reading
<1>8. panicked' = FALSE
  BY <1>0, <1>1, <1>2 DEF Clean
<1>9. TypeHist' /\ Clean'
  BY <1>0, <1>1, <1>8 DEF Types, TypeHist, Clean
<1>10. HandsOK' /\ \A o : Waiting(o)' => Waiting(o)
  BY <1>1 DEF HandsOK, Waiting, Reading, InQueue
<1>11. \A p \in 1 .. made : p \in Chans
  BY <1>0, MadeChans DEF Types, Made
<1>12. QueueOK' /\ SessionsOnly'
  BY <1>0, <1>1, <1>5, <1>11, SameQueues DEF Routes
<1>13. TableOK' /\ ClientOK' /\ Current' /\ Accepted'
  BY <1>0, <1>1, <1>5, <1>10, <1>11, SameRoutes DEF Routes, Taken
<1> QED
  BY <1>5, <1>6, <1>7, <1>9, <1>10, <1>12, <1>13 DEF IInv, TypeOK

\* A channel on which the server may still send is found by what it sends.
LEMMA NeverMisses ==
  ASSUME IInv, NEW o, Made(o), Writable(o), chan[o].session \/ Waiting(o)
  PROVE  ~ Misses(o)
BY DEF IInv, Current, Misses, Made

LEMMA HandleStep ==
  ASSUME IInv, NEW o \in Chans, Handle(o)
  PROVE  IInv'
<1>0. Types /\ Routes /\ Clean
  BY DEF IInv, TypeOK, Types, Routes
<1>1. /\ handler[o] = "running" /\ chan[o].q # <<>>
      /\ chan' = [chan EXCEPT ![o].q = Tail(@)]
      /\ Reply(o, Head(chan[o].q))
      /\ UNCHANGED <<up, stalled, client, mux, table, made, openq, globq, unread, acc, handler, sent,
                     panicked>>
  BY DEF Handle
<1>2. Made(o) /\ chan[o].session
  BY <1>0, <1>1 DEF Routes, SessionsOnly
<1> DEFINE s == Tail(chan[o].q)
           r == Head(chan[o].q)
<1>3. s \in Seq(Req) /\ Len(s) <= QueueCap /\ r \in Req
  <2>1. chan[o].q \in Seq(Req) /\ Len(chan[o].q) <= QueueCap
    BY <1>0 DEF Types, TypeChan, ChanType
  <2>2. s \in Seq(Req) /\ r \in Req /\ Len(s) = Len(chan[o].q) - 1 /\ Len(chan[o].q) \in Nat
    BY <1>1, <2>1, HeadTailProperties, LenProperties
  <2> QED
    BY <2>1, <2>2, Numbers
<1>4. chan' = [chan EXCEPT ![o].q = s]
  BY <1>1
<1> HIDE DEF s
<1>5. /\ TypeChan'
      /\ \A p \in Chans :
           /\ chan'[p].rid = chan[p].rid /\ chan'[p].lid = chan[p].lid
           /\ chan'[p].session = chan[p].session /\ chan'[p].open = chan[p].open
           /\ chan'[p].sentClose = chan[p].sentClose
  BY <1>0, <1>1, <1>3, <1>4, OneQueue DEF Types
<1>6. TypeClient' /\ TypeTable' /\ TypeHandlers' /\ TypeQueues'
  BY <1>0, <1>1 DEF Types, TypeClient, TypeTable, TypeHandlers, TypeQueues
<1>7. TypeHist' /\ Clean'
  <2>1. CASE Answered(r) /\ Writable(o) /\ up
    <3>1. answers' = [answers EXCEPT ![o] = Append(@, r)] /\ stray' = (stray \/ Misses(o))
      BY <1>1, <2>1 DEF Reply
    <3>2. ~ Misses(o)
      BY <1>2, <2>1, NeverMisses
    <3>3. stray' = FALSE
      BY <1>0, <3>1, <3>2, Zenon DEF Clean
    <3>4. answers' \in [Chans -> Seq(Req)]
      BY <1>0, <1>3, <3>1 DEF Types, TypeHist
    <3> QED
      BY <1>0, <1>1, <3>3, <3>4 DEF Types, TypeHist, Clean
  <2>2. CASE ~ (Answered(r) /\ Writable(o) /\ up)
    BY <1>0, <1>1, <2>2 DEF Reply, Types, TypeHist, Clean
  <2> QED
    BY <2>1, <2>2
<1>8. HandsOK' /\ \A p : Waiting(p)' => Waiting(p)
  <2>1. \A p : Made(p) => p \in Chans
    BY <1>0, MadeChans DEF Types
  <2> QED
    BY <1>0, <1>1, <1>5, <2>1 DEF Routes, HandsOK, Waiting, InQueue, Made
<1>9. \A p \in 1 .. made : p \in Chans
  BY <1>0, MadeChans DEF Types, Made
<1>10. QueueOK' /\ SessionsOnly'
  BY <1>0, <1>1, <1>5, <1>9, SameQueues DEF Routes
<1>11. TableOK' /\ ClientOK' /\ Current' /\ Accepted'
  BY <1>0, <1>1, <1>5, <1>8, <1>9, SameRoutes DEF Routes, Taken
<1> QED
  BY <1>5, <1>6, <1>7, <1>8, <1>10, <1>11 DEF IInv, TypeOK

LEMMA HandlerStep ==
  ASSUME IInv, handleChannel \/ \E o \in Chans : HandlerEnds(o)
  PROVE  IInv'
<1>0. Types /\ Routes /\ Clean
  BY DEF IInv, TypeOK, Types, Routes
<1>1. UNCHANGED <<up, stalled, client, mux, table, made, chan, openq, globq, unread, hist>>
  BY DEF handleChannel, HandlerEnds
<1>2. TypeHandlers' /\ SessionsOnly'
  <2>1. CASE handleChannel
    <3>1. Made(acc) /\ acc \in Chans /\ chan[acc].session
      BY <1>0, <2>1, MadeChans DEF handleChannel, Types, Routes, SessionsOnly
    <3>2. acc' = NoChan /\ handler' = [handler EXCEPT ![acc] = "running"]
      BY <2>1 DEF handleChannel
    <3> QED
      BY <1>0, <1>1, <3>1, <3>2, Numbers
         DEF Types, TypeHandlers, Routes, SessionsOnly, Made
  <2>2. ASSUME NEW o \in Chans, HandlerEnds(o)
        PROVE  TypeHandlers' /\ SessionsOnly'
    BY <1>0, <1>1, <2>2 DEF HandlerEnds, Types, TypeHandlers, Routes, SessionsOnly, Made
  <2> QED
    BY <2>1, <2>2
<1>3. TypeClient' /\ TypeTable' /\ TypeChan' /\ TypeQueues' /\ TypeHist' /\ Clean'
  BY <1>0, <1>1
     DEF Types, TypeClient, TypeTable, TypeChan, TypeQueues, TypeHist, Clean, hist
<1>4. HandsOK' /\ QueueOK' /\ \A o : Waiting(o)' => Waiting(o)
  BY <1>0, <1>1 DEF Routes, HandsOK, QueueOK, Waiting, InQueue, Made
<1>5. TableOK' /\ ClientOK' /\ Current' /\ Accepted'
  <2>1. \A o \in 1 .. made : Taken(o)' => Taken(o)
    <3>1. CASE handleChannel
      BY <1>0, <3>1, Numbers DEF handleChannel, Types, TypeHandlers, TypeTable, Taken
    <3>2. ASSUME NEW o \in Chans, HandlerEnds(o)
          PROVE  \A p \in 1 .. made : Taken(p)' => Taken(p)
      BY <1>0, <3>2, Numbers DEF HandlerEnds, Types, TypeHandlers, TypeTable, Taken
    <3> QED
      BY <3>1, <3>2
  <2> QED
    BY <1>0, <1>1, <1>4, <2>1, SameRoutes DEF Routes
<1> QED
  BY <1>2, <1>3, <1>4, <1>5 DEF IInv, TypeOK

\* The end of channel o: the slot is free and its number at the client too.
LEMMA CloseStep ==
  ASSUME IInv, NEW k \in Ids, Close(k)
  PROVE  IInv'
<1> USE Numbers
<1> DEFINE o == table[client[k].lid]
<1>0. Types /\ Routes /\ Clean
  BY DEF IInv, TypeOK, Types, Routes
<1>1. /\ up /\ mux.pc = "read" /\ client[k].st \in {"open", "closed"}
      /\ client' = [client EXCEPT ![k] = Free]
      /\ stray' = (stray \/ o # client[k].o \/ (Writable(o) /\ Misses(o)))
      /\ table' = [table EXCEPT ![chan[o].lid] = NoChan]
      /\ chan' = [chan EXCEPT ![o].sentClose = TRUE, ![o].open = FALSE]
      /\ panicked' = (panicked \/ ~ chan[o].open)
      /\ UNCHANGED <<up, stalled, mux, made, openq, globq, unread, acc, handler, sent, answers>>
  BY DEF Close, RemoveChan
<1>2. /\ o = client[k].o /\ Made(o) /\ o \in Chans /\ chan[o].rid = k
      /\ client[k].lid \in Chans /\ chan[o].lid = client[k].lid /\ chan[o].open
  BY <1>0, <1>1, MadeChans DEF Types, Routes, ClientOK, TableOK
<1> DEFINE l == client[k].lid
<1>3. /\ \A m \in Ids : m # k => client'[m] = client[m]
      /\ client'[k] = Free
      /\ \A m \in Chans : m # l => table'[m] = table[m]
      /\ table'[l] = NoChan
  BY <1>0, <1>1, <1>2 DEF Types, TypeClient, TypeTable
<1>4. /\ \A p \in Chans : p # o => chan'[p] = chan[p]
      /\ chan'[o] = [chan[o] EXCEPT !.sentClose = TRUE, !.open = FALSE]
      /\ chan' \in [Chans -> ChanType]
  <2>1. chan \in [Chans -> ChanType] /\ o \in Chans
    BY <1>0, <1>2 DEF Types, TypeChan
  <2>2. chan' = [chan EXCEPT ![o] = [chan[o] EXCEPT !.sentClose = TRUE, !.open = FALSE]]
    BY <1>1, <2>1
  <2>3. [chan[o] EXCEPT !.sentClose = TRUE, !.open = FALSE] \in ChanType
    BY <2>1 DEF ChanType
  <2> HIDE DEF o
  <2> QED
    BY <2>1, <2>2, <2>3
<1>5. /\ chan'[o].rid = chan[o].rid /\ chan'[o].lid = chan[o].lid
      /\ chan'[o].session = chan[o].session /\ chan'[o].q = chan[o].q
      /\ chan'[o].sentClose = TRUE /\ chan'[o].open = FALSE
  BY <1>0, <1>2, <1>4 DEF Types, TypeChan, ChanType
<1>6. \A p : Made(p) => p \in Chans /\ p # NoChan
  BY <1>0, MadeChans DEF Types
<1>7. TypeClient' /\ TypeTable'
  BY <1>0, <1>1, <1>2 DEF Types, TypeClient, TypeTable, ClientType, Free
<1>8. TypeChan'
  <2>1. \A p \in Chans : /\ chan'[p].rid = chan[p].rid /\ chan'[p].lid = chan[p].lid
                         /\ chan'[p].q = chan[p].q
    BY <1>4, <1>5
  <2> QED
    BY <1>0, <1>1, <1>4, <1>6, <2>1 DEF Types, TypeChan, Made
<1>9. TypeQueues' /\ TypeHandlers'
  BY <1>0, <1>1 DEF Types, TypeQueues, TypeHandlers
<1>10. TypeHist' /\ Clean'
  <2>1. panicked' = FALSE
    BY <1>0, <1>1, <1>2 DEF Clean
  <2>2. ~ Misses(o)
    BY <1>1, <1>2 DEF Misses
  <2>3. stray' = FALSE
    BY <1>0, <1>1, <1>2, <2>2, Zenon DEF Clean
  <2> QED
    BY <1>0, <1>1, <2>1, <2>3 DEF Types, TypeHist, Clean
<1>11. HandsOK' /\ QueueOK'
  BY <1>0, <1>1 DEF Routes, HandsOK, QueueOK, Made
<1>12. SessionsOnly'
  BY <1>0, <1>1, <1>4, <1>5, <1>6 DEF Routes, SessionsOnly, Made
<1>13. TableOK'
  <2>1. \A m \in Chans : table'[m] # NoChan =>
          /\ table'[m] = table[m] /\ table[m] # NoChan /\ table[m] # o
    BY <1>0, <1>2, <1>3 DEF Routes, TableOK
  <2>2. \A m \in Chans : table'[m] # NoChan =>
          /\ table'[m] \in 1 .. made
          /\ chan'[table'[m]].lid = m /\ chan'[table'[m]].open
    BY <1>0, <1>4, <1>6, <2>1 DEF Routes, TableOK, Made
  <2>3. ASSUME NEW p \in 1 .. made, p # o
        PROVE  /\ ~ chan'[p].open => chan'[p].sentClose
               /\ chan'[p].open => table'[chan'[p].lid] = p
    <3>1. p \in Chans /\ chan'[p] = chan[p] /\ chan[p].lid \in Chans
      BY <1>0, <1>4, <1>6, <2>3 DEF Types, TypeChan, Made
    <3>2. /\ ~ chan[p].open => chan[p].sentClose
          /\ chan[p].open => table[chan[p].lid] = p
      BY <1>0, <1>1 DEF Routes, TableOK
    <3>3. chan[p].open => chan[p].lid # l
      BY <2>3, <3>2
    <3> QED
      BY <1>3, <3>1, <3>2, <3>3
  <2> QED
    BY <1>1, <1>5, <2>2, <2>3 DEF TableOK, Made
<1>14. ClientOK'
  <2>1. ASSUME NEW m \in Ids, client'[m].st # "free"
        PROVE  /\ client'[m].o \in 1 .. made /\ chan'[client'[m].o].rid = m
               /\ client'[m].st \in {"open", "closed"} =>
                    client'[m].lid \in Chans /\ table'[client'[m].lid] = client'[m].o
    <3>1. m # k /\ client'[m] = client[m]
      BY <1>3, <2>1 DEF Free
    <3>2. Made(client[m].o) /\ chan[client[m].o].rid = m /\ client[m].o # o
      BY <1>0, <1>2, <2>1, <3>1 DEF Routes, ClientOK
    <3>3. client[m].st \in {"open", "closed"} =>
            client[m].lid \in Chans /\ table[client[m].lid] = client[m].o /\ client[m].lid # l
      BY <1>0, <1>1, <1>2, <2>1, <3>1, <3>2 DEF Routes, ClientOK
    <3> QED
      BY <1>3, <1>4, <1>6, <3>1, <3>2, <3>3 DEF Made
  <2> QED
    BY <1>1, <2>1 DEF ClientOK, Made
<1>15. Current'
  <2>1. ASSUME NEW p \in 1 .. made, Writable(p)', chan'[p].session \/ Waiting(p)'
        PROVE  client'[chan'[p].rid].st # "free" /\ client'[chan'[p].rid].o = p
    <3>1. p # o /\ chan'[p] = chan[p] /\ p \in Chans
      BY <1>4, <1>5, <1>6, <2>1 DEF Writable, Made
    <3>2. Waiting(p)' <=> Waiting(p)
      BY <1>1 DEF Waiting, InQueue
    <3>3. client[chan[p].rid].st # "free" /\ client[chan[p].rid].o = p
      BY <1>0, <1>1, <2>1, <3>1, <3>2 DEF Routes, Current, Writable
    <3>4. chan[p].rid \in Ids /\ chan[p].rid # k
      BY <1>0, <1>2, <3>1, <3>3 DEF Types, TypeChan
    <3> QED
      BY <1>3, <3>1, <3>3, <3>4
  <2> QED
    BY <1>1, <2>1 DEF Current
<1>16. Accepted'
  <2>1. ASSUME NEW p \in 1 .. made, Writable(p)', Taken(p)'
        PROVE  client'[chan'[p].rid].st = "open"
    <3>1. p # o /\ chan'[p] = chan[p] /\ p \in Chans /\ Taken(p)
      BY <1>1, <1>4, <1>5, <1>6, <2>1 DEF Writable, Made, Taken
    <3>2. chan[p].session
      BY <1>0, <3>1 DEF Routes, SessionsOnly, Taken, Types, TypeTable
    <3>3. client[chan[p].rid].st = "open" /\ client[chan[p].rid].o = p
      BY <1>0, <1>1, <2>1, <3>1, <3>2 DEF Routes, Current, Accepted, Writable
    <3>4. chan[p].rid \in Ids /\ chan[p].rid # k
      BY <1>0, <1>2, <3>1, <3>3 DEF Types, TypeChan
    <3> QED
      BY <1>3, <3>1, <3>3, <3>4
  <2> QED
    BY <1>1, <2>1 DEF Accepted
<1> QED
  BY <1>7, <1>8, <1>9, <1>10, <1>11, <1>12, <1>13, <1>14, <1>15, <1>16 DEF IInv, TypeOK

LEMMA LoopEndsStep ==
  ASSUME IInv, LoopEnds
  PROVE  IInv'
<1> USE Numbers
<1> DEFINE all == {o \in Chans : \E l \in Chans : table[l] = o}
<1>0. Types /\ Routes /\ Clean
  BY DEF IInv, TypeOK, Types, Routes
<1>1. /\ ~ up /\ mux.pc = "read"
      /\ chan' = [o \in Chans |->
            IF o \in all THEN [chan[o] EXCEPT !.sentClose = TRUE, !.open = FALSE]
            ELSE chan[o]]
      /\ panicked' = (panicked \/ \E o \in all : ~ chan[o].open)
      /\ table' = [l \in Chans |-> NoChan]
      /\ mux' = [Reading EXCEPT !.pc = "ended"]
      /\ UNCHANGED <<up, stalled, client, made, openq, globq, unread, acc, handler, sent, answers, stray>>
  BY DEF LoopEnds
<1>2. \A o \in all : o # NoChan /\ Made(o) /\ chan[o].open
  BY <1>0 DEF Types, TypeTable, Routes, TableOK
<1> HIDE DEF all
<1>3. \A o \in Chans :
        /\ chan'[o] \in ChanType
        /\ chan'[o].rid = chan[o].rid /\ chan'[o].lid = chan[o].lid
        /\ chan'[o].session = chan[o].session /\ chan'[o].q = chan[o].q
        /\ (~ chan[o].open => chan[o].sentClose) => (~ chan'[o].open => chan'[o].sentClose)
  BY <1>0, <1>1 DEF Types, TypeChan, ChanType
<1>4. \A p : Made(p) => p \in Chans
  BY <1>0, MadeChans DEF Types
<1>5. TypeClient' /\ TypeTable'
  <2>1. TypeClient'
    BY <1>0, <1>1 DEF Types, TypeClient
  <2>2. table' \in [Chans -> 0 .. MaxChans]
    <3>1. table' = [l \in Chans |-> NoChan]
      BY <1>1
    <3>2. NoChan \in 0 .. MaxChans
      BY Numbers
    <3> QED
      BY <3>1, <3>2
  <2> QED
    BY <1>0, <1>1, <2>1, <2>2 DEF Types, TypeTable
<1>6. TypeChan'
  BY <1>0, <1>1, <1>3, <1>4 DEF Types, TypeChan, Made
<1>7. TypeQueues' /\ TypeHandlers'
  <2>1. mux' = [pc |-> "ended", o |-> NoChan, r |-> NoReq]
    BY <1>1 DEF Reading
  <2>2. mux' \in MuxType
    BY <2>1 DEF MuxType
  <2> QED
    BY <1>0, <1>1, <2>2 DEF Types, TypeQueues, TypeHandlers
<1>8. TypeHist' /\ Clean'
  <2>1. panicked' = FALSE
    BY <1>0, <1>1, <1>2 DEF Clean
  <2> QED
    BY <1>0, <1>1, <2>1 DEF Types, TypeHist, Clean
<1>9. HandsOK' /\ QueueOK'
  BY <1>0, <1>1 DEF Routes, HandsOK, QueueOK, Made, Reading
<1>10. SessionsOnly'
  BY <1>0, <1>1, <1>3, <1>4 DEF Routes, SessionsOnly, Made
<1>11. TableOK'
  BY <1>0, <1>1, <1>3, <1>4 DEF Routes, TableOK, Made
<1>12. ClientOK' /\ Current' /\ Accepted'
  BY <1>0, <1>1, <1>3, <1>4 DEF Routes, ClientOK, Current, Accepted, Made
<1> QED
  BY <1>5, <1>6, <1>7, <1>8, <1>9, <1>10, <1>11, <1>12 DEF IInv, TypeOK

\* What handleChannels takes from its queue, and what it leaves there.
LEMMA TakeStep ==
  ASSUME IInv, NEW o, openq # <<>>, Head(openq) = o, openq' = Tail(openq),
         UNCHANGED <<mux, made, chan, globq, unread>>
  PROVE  /\ Made(o) /\ o \in Chans /\ chan[o].rid \in Ids
         /\ Waiting(o) /\ ~ Waiting(o)'
         /\ \A p : Waiting(p)' => Waiting(p)
         /\ TypeQueues' /\ HandsOK' /\ QueueOK'
<1>0. Types /\ Routes
  BY DEF IInv, TypeOK, Types, Routes
<1>1. /\ openq' \in Seq(Chans) /\ Len(openq') <= QueueCap
      /\ InQueue(o) /\ \A p : InQueue(p)' <=> InQueue(p) /\ p # o
      /\ QueueOK'
  BY <1>0, QueueTail DEF Types, Routes
<1>2. Made(o) /\ o \in Chans /\ chan[o].rid \in Ids
  <2>1. Made(o)
    BY <1>0, <1>1 DEF Routes, QueueOK, InQueue
  <2> QED
    BY <1>0, <2>1, MadeChans DEF Types, TypeChan, Made
<1>3. TypeQueues'
  BY <1>0, <1>1 DEF Types, TypeQueues
<1>4. HandsOK'
  BY <1>0, <1>1 DEF Routes, HandsOK, Made
<1>5. Waiting(o) /\ ~ Waiting(o)' /\ \A p : Waiting(p)' => Waiting(p)
  BY <1>0, <1>1 DEF Routes, HandsOK, Waiting
<1> QED
  BY <1>1, <1>2, <1>3, <1>4, <1>5

\* Every channel that counts has a number of its own at the client.
LEMMA OwnNumber ==
  ASSUME IInv, up, NEW o, Made(o), ~ Misses(o),
         NEW p \in 1 .. made, p # o, Writable(p), chan[p].session \/ Waiting(p)
  PROVE  chan[p].rid \in Ids /\ chan[p].rid # chan[o].rid
<1>1. client[chan[p].rid].o = p
  BY DEF IInv, Current
<1>2. client[chan[o].rid].o = o
  BY DEF Misses
<1> QED
  BY <1>1, <1>2 DEF IInv, TypeOK, TypeChan

LEMMA RejectStep ==
  ASSUME IInv, NEW o \in Chans, Reject(o)
  PROVE  IInv'
<1>0. Types /\ Routes /\ Clean
  BY DEF IInv, TypeOK, Types, Routes
<1>1. /\ openq # <<>> /\ Head(openq) = o /\ openq' = Tail(openq) /\ ~ chan[o].session
      /\ IF Writable(o) THEN Deliver(o, Free) ELSE UNCHANGED <<client, stray>>
      /\ UNCHANGED <<up, stalled, mux, table, made, chan, globq, unread, acc, handler, sent,
                     answers, panicked>>
  BY DEF Reject
<1>2. /\ Made(o) /\ chan[o].rid \in Ids /\ Waiting(o) /\ ~ Waiting(o)'
      /\ \A p : Waiting(p)' => Waiting(p)
      /\ TypeQueues' /\ HandsOK' /\ QueueOK'
  BY <1>1, TakeStep
<1>3. /\ stray' = stray
      /\ \/ client' = client
         \/ up /\ Writable(o) /\ ~ Misses(o) /\ client' = [client EXCEPT ![chan[o].rid] = Free]
  <2>0. stray = FALSE
    BY <1>0 DEF Types, TypeHist, Clean
  <2>1. CASE Writable(o)
    <3>1. ~ Misses(o)
      BY <1>2, <2>1, NeverMisses
    <3>2. stray' = FALSE
      BY <1>0, <1>1, <2>1, <3>1, Zenon DEF Deliver, Clean
    <3> QED
      BY <1>1, <2>0, <2>1, <3>1, <3>2 DEF Deliver
  <2> QED
    BY <1>1, <2>1
<1>4. \A k \in Ids : client'[k] = client[k] \/ client'[k] = Free
  BY <1>0, <1>3 DEF Types, TypeClient
<1>5. TypeClient'
  <2>1. Free \in ClientType
    BY Numbers DEF Free, ClientType
  <2> QED
    BY <1>0, <1>1, <1>3, <2>1 DEF Types, TypeClient
<1>6. TypeTable' /\ TypeChan' /\ TypeHandlers' /\ TypeHist' /\ Clean'
  BY <1>0, <1>1, <1>3 DEF Types, TypeTable, TypeChan, TypeHandlers, TypeHist, Clean
<1>7. SessionsOnly' /\ TableOK'
  BY <1>0, <1>1 DEF Routes, SessionsOnly, TableOK, Made
<1>8. ClientOK'
  BY <1>0, <1>1, <1>4 DEF Routes, ClientOK, Made, Free
<1>9. ASSUME NEW p \in 1 .. made, up, Writable(p), chan[p].session \/ Waiting(p)'
      PROVE  client'[chan[p].rid] = client[chan[p].rid]
  <2>1. p # o
    BY <1>1, <1>2, <1>9
  <2>2. CASE up /\ ~ Misses(o) /\ client' = [client EXCEPT ![chan[o].rid] = Free]
    <3>1. chan[p].rid \in Ids /\ chan[p].rid # chan[o].rid
      BY <1>2, <1>9, <2>1, <2>2, OwnNumber
    <3> QED
      BY <1>0, <2>2, <3>1 DEF Types, TypeClient
  <2> QED
    BY <1>3, <2>2
<1>10. Current'
  BY <1>0, <1>1, <1>2, <1>9 DEF Routes, Current, Writable
<1>11. Accepted'
  <2>1. \A p \in 1 .. made : Taken(p) => chan[p].session
    BY <1>0, Numbers DEF Routes, SessionsOnly, Taken, Types, TypeTable
  <2> QED
    BY <1>0, <1>1, <1>9, <2>1 DEF Routes, Accepted, Writable, Taken
<1> QED
  BY <1>2, <1>5, <1>6, <1>7, <1>8, <1>10, <1>11 DEF IInv, TypeOK

LEMMA AcceptStep ==
  ASSUME IInv, NEW o \in Chans, Accept(o)
  PROVE  IInv'
<1> DEFINE known == [st |-> "open", o |-> o, lid |-> chan[o].lid]
<1>0. Types /\ Routes /\ Clean
  BY DEF IInv, TypeOK, Types, Routes
<1>1. /\ openq # <<>> /\ Head(openq) = o /\ openq' = Tail(openq) /\ chan[o].session
      /\ acc = NoChan
      /\ UNCHANGED <<up, stalled, mux, table, made, chan, globq, unread, handler, sent,
                     answers, panicked>>
  BY DEF Accept
<1>2. /\ Made(o) /\ chan[o].rid \in Ids /\ Waiting(o)
      /\ \A p : Waiting(p)' => Waiting(p)
      /\ TypeQueues' /\ HandsOK' /\ QueueOK'
  BY <1>1, TakeStep
<1>3. /\ stray' = stray
      /\ \/ client' = client
         \/ up /\ ~ Misses(o) /\ client' = [client EXCEPT ![chan[o].rid] = known]
      /\ \/ acc' = acc
         \/ acc' = o /\ Writable(o) /\ (up => client' = [client EXCEPT ![chan[o].rid] = known])
      /\ client' = client \/ Writable(o)
  <2>0. stray = FALSE
    BY <1>0 DEF Types, TypeHist, Clean
  <2>1. CASE Writable(o) /\ Deliver(o, known) /\ acc' = o
    <3>1. ~ Misses(o)
      BY <1>2, <2>1, NeverMisses
    <3>2. stray' = FALSE
      BY <1>0, <2>1, <3>1, Zenon DEF Deliver, Clean
    <3> QED
      BY <2>0, <2>1, <3>1, <3>2 DEF Deliver
  <2>2. CASE UNCHANGED <<client, stray, acc>>
    BY <2>2
  <2> QED
    BY <2>1, <2>2 DEF Accept
<1>4. \A k \in Ids : client'[k] = client[k] \/ (k = chan[o].rid /\ client'[k] = known)
  BY <1>0, <1>3 DEF Types, TypeClient
<1>5. TypeClient' /\ TypeHandlers'
  <2>1. known \in ClientType
    BY <1>0, <1>2, Numbers DEF ClientType, Types, TypeChan, Made
  <2>2. TypeClient'
    BY <1>0, <1>1, <1>3, <2>1 DEF Types, TypeClient
  <2> QED
    BY <1>0, <1>1, <1>3, <2>2, Numbers DEF Types, TypeHandlers
<1>6. TypeTable' /\ TypeChan' /\ TypeHist' /\ Clean'
  BY <1>0, <1>1, <1>3 DEF Types, TypeTable, TypeChan, TypeHist, Clean
<1>7. SessionsOnly' /\ TableOK'
  BY <1>0, <1>1, <1>2, <1>3 DEF Routes, SessionsOnly, TableOK, Made
<1>8. ClientOK'
  <2>1. up /\ Writable(o) => chan[o].lid \in Chans /\ table[chan[o].lid] = o
    BY <1>0, <1>2 DEF Routes, TableOK, Made, Types, TypeChan, Writable
  <2>2. \A k \in Ids : client'[k] = client[k] \/ Writable(o)
    BY <1>3
  <2> QED
    BY <1>0, <1>1, <1>2, <1>4, <2>1, <2>2 DEF Routes, ClientOK, Made
<1>9. ASSUME NEW p \in 1 .. made, up, Writable(p), chan[p].session \/ Waiting(p), p # o
      PROVE  client'[chan[p].rid] = client[chan[p].rid]
  <2>1. CASE up /\ ~ Misses(o) /\ client' = [client EXCEPT ![chan[o].rid] = known]
    <3>1. chan[p].rid \in Ids /\ chan[p].rid # chan[o].rid
      BY <1>2, <1>9, <2>1, OwnNumber
    <3> QED
      BY <1>0, <2>1, <3>1 DEF Types, TypeClient
  <2> QED
    BY <1>3, <2>1
<1>10. Current'
  <2>1. ASSUME NEW p \in 1 .. made, up, Writable(p), chan[p].session \/ Waiting(p)
        PROVE  client'[chan[p].rid].st # "free" /\ client'[chan[p].rid].o = p
    <3>1. client[chan[p].rid].st # "free" /\ client[chan[p].rid].o = p
      BY <1>0, <2>1 DEF Routes, Current
    <3>2. CASE p = o
      BY <1>2, <1>4, <3>1, <3>2
    <3>3. CASE p # o
      BY <1>9, <2>1, <3>1, <3>3
    <3> QED
      BY <3>2, <3>3
  <2> QED
    BY <1>1, <1>2, <2>1 DEF Current, Writable
<1>11. Accepted'
  <2>1. ASSUME NEW p \in 1 .. made, up, Writable(p), Taken(p)'
        PROVE  client'[chan[p].rid].st = "open"
    <3>1. CASE acc' = o /\ p = o
      <4>1. acc' # acc
        BY <1>1, <3>1, Numbers
      <4>2. client' = [client EXCEPT ![chan[o].rid] = known]
        BY <1>3, <2>1, <4>1
      <4> QED
        BY <1>0, <1>2, <3>1, <4>2 DEF Types, TypeClient
    <3>2. CASE Taken(p)
      <4>1. chan[p].session /\ client[chan[p].rid].st = "open" /\ chan[p].rid \in Ids
        BY <1>0, <2>1, <3>2, Numbers
           DEF Routes, SessionsOnly, Accepted, Taken, Types, TypeTable, TypeChan
      <4> QED
        BY <1>4, <4>1
    <3> QED
      BY <1>1, <1>3, <2>1, <3>1, <3>2 DEF Taken
  <2> QED
    BY <1>1, <2>1 DEF Accepted, Writable
<1> QED
  BY <1>2, <1>5, <1>6, <1>7, <1>8, <1>10, <1>11 DEF IInv, TypeOK

LEMMA CloseChannelStep ==
  ASSUME IInv, NEW o \in Chans, CloseChannel(o)
  PROVE  IInv'
<1> DEFINE k == chan[o].rid
<1>0. Types /\ Routes /\ Clean
  BY DEF IInv, TypeOK, Types, Routes
<1>1. /\ handler[o] # "none" /\ Writable(o) /\ Deliver(o, Closed(k))
      /\ chan' = [chan EXCEPT ![o].sentClose = TRUE]
      /\ UNCHANGED <<up, stalled, mux, table, made, openq, globq, unread, acc, handler, sent,
                     answers, panicked>>
  BY DEF CloseChannel
<1>2. Made(o) /\ chan[o].session /\ k \in Ids
  BY <1>0, <1>1 DEF Routes, SessionsOnly, Types, TypeChan, Made
<1>3. ~ Misses(o)
  BY <1>1, <1>2, NeverMisses
<1>4. stray' = stray
  <2>1. stray' = FALSE
    BY <1>0, <1>1, <1>3, Zenon DEF Deliver, Clean
  <2> QED
    BY <1>0, <2>1 DEF Types, TypeHist, Clean
<1>5. client' = IF up THEN [client EXCEPT ![k] = [client[k] EXCEPT !.st = "closed"]]
                ELSE client
  BY <1>1, <1>3 DEF Deliver, Closed
<1>6. /\ \A p \in Chans : p # o => chan'[p] = chan[p]
      /\ \A p \in Chans :
           /\ chan'[p].rid = chan[p].rid /\ chan'[p].lid = chan[p].lid
           /\ chan'[p].session = chan[p].session /\ chan'[p].q = chan[p].q
           /\ chan'[p].open = chan[p].open
      /\ chan'[o].sentClose = TRUE
      /\ chan' \in [Chans -> ChanType]
  <2>1. chan \in [Chans -> ChanType] /\ chan' = [chan EXCEPT ![o].sentClose = TRUE]
    BY <1>0, <1>1 DEF Types, TypeChan
  <2>2. chan' \in [Chans -> ChanType]
    BY <2>1 DEF ChanType
  <2>3. /\ \A p \in Chans : p # o => chan'[p] = chan[p]
        /\ chan'[o].sentClose = TRUE
    BY <2>1 DEF ChanType
  <2>4. \A p \in Chans :
          /\ chan'[p].rid = chan[p].rid /\ chan'[p].lid = chan[p].lid
          /\ chan'[p].session = chan[p].session /\ chan'[p].q = chan[p].q
          /\ chan'[p].open = chan[p].open
    BY <2>1 DEF ChanType
  <2> QED
    BY <2>2, <2>3, <2>4
<1>7. \A p \in 1 .. made : p \in Chans
  BY <1>0, MadeChans DEF Types, Made
<1>8. TypeClient'
  <2>1. [client[k] EXCEPT !.st = "closed"] \in ClientType
    BY <1>0, <1>2 DEF Types, TypeClient, ClientType
  <2> QED
    BY <1>0, <1>1, <1>2, <1>5, <2>1 DEF Types, TypeClient
<1>9. TypeTable' /\ TypeQueues' /\ TypeHandlers' /\ TypeHist' /\ Clean'
  BY <1>0, <1>1, <1>4 DEF Types, TypeTable, TypeQueues, TypeHandlers, TypeHist, Clean
<1>10. TypeChan'
  BY <1>0, <1>1, <1>6, <1>7 DEF Types, TypeChan
<1>11. HandsOK' /\ QueueOK' /\ SessionsOnly'
  BY <1>0, <1>1, <1>6, <1>7 DEF Routes, HandsOK, QueueOK, SessionsOnly, Made, InQueue
<1>12. TableOK'
  <2>1. \A p \in 1 .. made : chan[p].sentClose => chan'[p].sentClose
    BY <1>6, <1>7
  <2>2. \A l \in Chans : table[l] # NoChan => table[l] \in Chans
    BY <1>0, Numbers DEF Types, TypeTable
  <2> QED
    BY <1>0, <1>1, <1>6, <1>7, <2>1, <2>2 DEF Routes, TableOK, Made
<1>13. ASSUME up
       PROVE  client[k].st = "open" /\ client[k].o = o
  BY <1>0, <1>1, <1>2, <1>13 DEF Routes, Accepted, Current, Taken, Made
<1>14. \A m \in Ids :
         /\ client'[m].o = client[m].o /\ client'[m].lid = client[m].lid
         /\ client'[m].st = client[m].st \/ (up /\ m = k /\ client'[m].st = "closed")
  BY <1>0, <1>2, <1>5 DEF Types, TypeClient, ClientType
<1>15. ClientOK'
  <2>1. ASSUME NEW m \in Ids, client'[m].st # "free"
        PROVE  /\ client[m].st # "free"
               /\ up /\ client'[m].st \in {"open", "closed"} =>
                    client[m].st \in {"open", "closed"}
    BY <1>13, <1>14, <2>1
  <2>2. ASSUME NEW m \in Ids, client'[m].st # "free"
        PROVE  Made(client[m].o) /\ chan'[client[m].o].rid = m
    BY <1>0, <1>6, <1>7, <2>1, <2>2 DEF Routes, ClientOK, Made
  <2> QED
    BY <1>0, <1>1, <1>14, <2>1, <2>2 DEF Routes, ClientOK, Made
<1>16. ASSUME NEW p \in 1 .. made, up, Writable(p)'
       PROVE  p # o /\ Writable(p) /\ chan'[p] = chan[p] /\ p \in Chans /\ chan[p].rid \in Ids
  BY <1>0, <1>6, <1>7, <1>16 DEF Writable, Types, TypeChan
<1>17. Current'
  <2>1. \A p : Waiting(p)' <=> Waiting(p)
    BY <1>1 DEF Waiting, InQueue
  <2>2. ASSUME NEW p \in 1 .. made, up, Writable(p)', chan'[p].session \/ Waiting(p)'
        PROVE  client'[chan'[p].rid].st # "free" /\ client'[chan'[p].rid].o = p
    <3>1. client[chan[p].rid].st # "free" /\ client[chan[p].rid].o = p
      BY <1>0, <1>16, <2>1, <2>2 DEF Routes, Current
    <3> QED
      BY <1>14, <1>16, <2>2, <3>1
  <2> QED
    BY <1>1, <2>2 DEF Current
<1>18. Accepted'
  <2>1. ASSUME NEW p \in 1 .. made, up, Writable(p)', Taken(p)
        PROVE  client'[chan'[p].rid].st = "open"
    <3>1. chan[p].session
      BY <1>0, <2>1, Numbers DEF Routes, SessionsOnly, Taken, Types, TypeTable
    <3>2. client[chan[p].rid].st = "open" /\ client[chan[p].rid].o = p
      BY <1>0, <1>16, <2>1, <3>1 DEF Routes, Current, Accepted
    <3> QED
      BY <1>13, <1>14, <1>16, <2>1, <3>2
  <2> QED
    BY <1>1, <2>1 DEF Accepted, Taken
<1> QED
  BY <1>8, <1>9, <1>10, <1>11, <1>12, <1>15, <1>17, <1>18 DEF IInv, TypeOK

-----------------------------------------------------------------------------
(* The theorems *)

\* IInv holds of every state of a connection.
THEOREM Inductive == Spec => []IInv
<1>1. Init => IInv
  <2> SUFFICES ASSUME Init PROVE IInv
    OBVIOUS
  <2>1. TypeClient /\ TypeTable /\ TypeHandlers
    <3>1. TypeClient
      <4>1. Free \in ClientType
        BY Numbers DEF Free, ClientType
      <4> QED
        BY <4>1 DEF Init, TypeClient
    <3> QED
      BY <3>1, Numbers DEF Init, TypeTable, TypeHandlers
  <2>2. TypeChan
    <3>1. Unmade \in ChanType /\ Len(Unmade.q) = 0
      BY Numbers DEF ChanType, Unmade
    <3> QED
      BY <3>1, Numbers DEF Init, TypeChan
  <2>3. TypeQueues
    <3>1. Reading \in MuxType
      BY Numbers DEF MuxType, Reading
    <3>2. \A o \in 0 .. MaxChans : unread[o] <= AnswerCap(o)
      BY Numbers DEF Init, AnswerCap
    <3> QED
      BY <3>1, <3>2, Numbers DEF Init, TypeQueues
  <2>4. TypeHist
    BY EmptySeq DEF Init, TypeHist
  <2>5. HandsOK /\ QueueOK /\ SessionsOnly
    BY DEF Init, HandsOK, QueueOK, SessionsOnly, Reading
  <2>6. TableOK /\ ClientOK /\ Current /\ Accepted /\ Clean
    BY DEF Init, TableOK, ClientOK, Current, Accepted, Clean, Free
  <2> QED
    BY <2>1, <2>2, <2>3, <2>4, <2>5, <2>6 DEF IInv, TypeOK
<1>2. IInv /\ [Next]_vars => IInv'
  <2> SUFFICES ASSUME IInv, [Next]_vars
               PROVE  IInv'
    OBVIOUS
  <2>1. CASE Client
    BY <2>1, OpenStep, RequestStep, AnswerStep, CloseStep, GlobalStep, LeaveStep,
       handleRequestsStep DEF Client
  <2>2. CASE Loop
    BY <2>2, PutOpenStep, PutRequestStep, PutGlobalStep, PutAnswerStep, LoopEndsStep
       DEF Loop
  <2>3. CASE Accepts
    BY <2>3, HandlerStep, RejectStep, AcceptStep, ServerDiesStep DEF Accepts, StartFails
  <2>4. CASE handleRequests
    BY <2>4, handleRequestsStep
  <2>5. ASSUME NEW o \in Chans, Handle(o) \/ Panics(o) \/ HandlerEnds(o) \/ CloseChannel(o)
        PROVE  IInv'
    BY <2>5, HandleStep, HandlerStep, CloseChannelStep, ServerDiesStep DEF Panics
  <2>6. CASE UNCHANGED vars
    <3>1. /\ TypeOK' /\ SessionsOnly' /\ Clean'
      BY <2>6 DEF vars, server, hist, IInv, TypeOK, TypeClient, TypeTable, TypeChan,
                  TypeQueues, TypeHandlers, TypeHist, SessionsOnly, Clean, Made
    <3>2. HandsOK' /\ QueueOK' /\ \A o : Waiting(o)' => Waiting(o)
      BY <2>6 DEF vars, server, IInv, HandsOK, QueueOK, Waiting, InQueue, Made
    <3>3. TableOK' /\ ClientOK' /\ Current' /\ Accepted'
      BY <2>6, <3>2, SameRoutes DEF vars, server, IInv, Taken
    <3> QED
      BY <3>1, <3>2, <3>3 DEF IInv
  <2> QED
    BY <2>1, <2>2, <2>3, <2>4, <2>5, <2>6 DEF Next
<1> QED
  BY <1>1, <1>2, PTL DEF Spec

\* The types, and that no queue outgrows its capacity.
THEOREM TypeCorrect == Spec => []TypeOK
<1>1. IInv => TypeOK
  BY DEF IInv
<1> QED
  BY <1>1, Inductive, PTL

\* Every packet of the mux and of the goroutines of sshd.go reaches the channel it
\* was sent for, however often numbers are used again.
THEOREM PacketsFindTheirChannel == Spec => []PacketsReachTheirChannel
<1>1. IInv => PacketsReachTheirChannel
  BY DEF IInv, Clean, PacketsReachTheirChannel
<1> QED
  BY <1>1, Inductive, PTL

\* The loop never closes a queue twice nor sends on a closed one: no panic.
THEOREM ClosedOnce == Spec => []QueuesCloseOnce
<1>1. IInv => QueuesCloseOnce
  BY DEF IInv, Clean, QueuesCloseOnce
<1> QED
  BY <1>1, Inductive, PTL

-----------------------------------------------------------------------------
(* The order of the answers                                                 *)

\* A request's number is its place among those sent on its channel.
SentNumbered(o) == \A i \in 1 .. Len(sent[o]) : sent[o][i].n = i

\* Nothing has been sent on a channel that has not been made.
UnmadeSilent(o) == ~ Made(o) => sent[o] = <<>> /\ answers[o] = <<>> /\ chan[o].q = <<>>

\* The order on channel o, with what it rests on
OrderOK(o) == /\ SentNumbered(o)
              /\ UnmadeSilent(o)
              /\ up /\ Writable(o) => InOrder(o)

AnswersInv == IInv /\ \A o \in Chans : OrderOK(o)

\* What is pending on a channel, with and without the loop's packet
LEMMA PendingIs ==
  ASSUME TypeOK, NEW o \in Chans, mux.pc = "request" => mux.r \in Req
  PROVE  /\ chan[o].q \in Seq(Req) /\ Pending(o) \in Seq(Req)
         /\ mux.pc = "request" /\ mux.o = o => Pending(o) = Append(chan[o].q, mux.r)
         /\ ~ (mux.pc = "request" /\ mux.o = o) => Pending(o) = chan[o].q
<1>1. chan[o].q \in Seq(Req)  BY DEF TypeOK, TypeChan, ChanType
<1>2. CASE mux.pc = "request" /\ mux.o = o
  <2>1. Pending(o) = chan[o].q \o <<mux.r>>  BY <1>2 DEF Pending
  <2> QED  BY <1>1, <1>2, <2>1
<1>3. CASE ~ (mux.pc = "request" /\ mux.o = o)
  <2>1. Pending(o) = chan[o].q \o <<>>  BY <1>3 DEF Pending
  <2> QED  BY <1>1, <1>3, <2>1
<1> QED  BY <1>1, <1>2, <1>3

\* The types of what is sent, answered and pending
LEMMA OrderTypes ==
  ASSUME IInv, NEW o \in Chans
  PROVE  /\ sent[o] \in Seq(Req) /\ Len(sent[o]) \in Nat
         /\ answers[o] \in Seq(Req) /\ Len(answers[o]) \in Nat
         /\ chan[o].q \in Seq(Req) /\ Pending(o) \in Seq(Req) /\ Len(Pending(o)) \in Nat
<1>1. sent[o] \in Seq(Req) /\ answers[o] \in Seq(Req)  BY DEF IInv, TypeOK, TypeHist
<1>2. chan[o].q \in Seq(Req) /\ Pending(o) \in Seq(Req)  BY PendingIs DEF IInv, HandsOK
<1> QED  BY <1>1, <1>2

\* What an order is made of: k requests served, l pending, a answered
LEMMA OrderIs ==
  ASSUME IInv, NEW o \in Chans, InOrder(o)
  PROVE  \E n, k, l, a \in Nat :
           /\ n = Len(sent[o]) /\ l = Len(Pending(o)) /\ a = Len(answers[o])
           /\ k = Served(o) /\ n = k + l
<1>1. /\ Len(sent[o]) \in Nat /\ Len(Pending(o)) \in Nat /\ Len(answers[o]) \in Nat
      /\ Served(o) \in Nat /\ Served(o) = Len(sent[o]) - Len(Pending(o))
  BY OrderTypes DEF InOrder, Served
<1>2. Len(sent[o]) = Served(o) + Len(Pending(o))  BY <1>1
<1> QED  BY <1>1, <1>2

\* What has to be shown of a step that changes the order on o
LEMMA OrderAfter ==
  ASSUME NEW o, NEW k \in Nat, NEW l, NEW a,
         Served(o)' = k, Len(Pending(o)') = l, Len(answers'[o]) = a,
         \A i \in 1 .. l : Pending(o)'[i] = sent'[o][k + i],
         {answers'[o][i] : i \in 1 .. a} = {x \in {sent'[o][i] : i \in 1 .. k} : Answered(x)},
         \A i, j \in 1 .. a : i < j => answers'[o][i].n < answers'[o][j].n
  PROVE  InOrder(o)'
<1>1. Served(o)' \in Nat  OBVIOUS
<1>2. \A i \in 1 .. Len(Pending(o)') : Pending(o)'[i] = sent'[o][Served(o)' + i]  OBVIOUS
<1>3. {answers'[o][i] : i \in 1 .. Len(answers'[o])} =
        {x \in {sent'[o][i] : i \in 1 .. Served(o)'} : Answered(x)}
  OBVIOUS
<1>4. \A i, j \in 1 .. Len(answers'[o]) : i < j => answers'[o][i].n < answers'[o][j].n  OBVIOUS
<1> QED  BY <1>1, <1>2, <1>3, <1>4, Zenon DEF InOrder

\* t is s and r.
Longer(s, r, t) ==
  /\ Len(t) = Len(s) + 1 /\ t[Len(s) + 1] = r
  /\ \A i \in 1 .. Len(s) : t[i] = s[i]

\* Append makes a sequence longer by one.
LEMMA AppendIsLonger ==
  ASSUME NEW S, NEW s \in Seq(S), NEW r \in S
  PROVE  Longer(s, r, Append(s, r))
BY AppendProperties DEF Longer

\* t is s without its head r.
Shorter(s, r, t) ==
  /\ Len(s) # 0 /\ r = s[1] /\ Len(t) = Len(s) - 1
  /\ \A i \in 1 .. Len(s) - 1 : t[i] = s[i + 1]

\* Tail makes it shorter by one.
LEMMA TailIsShorter ==
  ASSUME NEW S, NEW s \in Seq(S), s # <<>>
  PROVE  Shorter(s, Head(s), Tail(s))
BY HeadTailProperties, EmptySeq DEF Shorter

\* So is what ends with something more.
LEMMA ShorterToo ==
  ASSUME NEW S, NEW s \in Seq(S), NEW t \in Seq(S), NEW r, NEW e \in S, Shorter(s, r, t)
  PROVE  Shorter(s \o <<e>>, r, t \o <<e>>)
<1>1. PICK n \in Nat : n = Len(s)  OBVIOUS
<1>2. n # 0 /\ r = s[1] /\ Len(t) = n - 1 /\ \A i \in 1 .. n - 1 : t[i] = s[i + 1]
  BY <1>1 DEF Shorter
<1>3. PICK u, v : u = s \o <<e>> /\ v = t \o <<e>>  OBVIOUS
<1>4. Len(u) = n + 1 /\ u[n + 1] = e /\ \A i \in 1 .. n : u[i] = s[i]  BY <1>1, <1>3
<1>5. Len(v) = n /\ v[n] = e /\ \A i \in 1 .. n - 1 : v[i] = t[i]  BY <1>2, <1>3
<1>6. u[1] = s[1]  BY <1>1, <1>2, <1>4
<1>7. ASSUME NEW i \in 1 .. n PROVE v[i] = u[i + 1]
  <2>1. CASE i = n  BY <1>4, <1>5, <2>1
  <2>2. CASE i \in 1 .. n - 1
    <3>1. i + 1 \in 1 .. n  BY <1>1, <2>2
    <3> QED  BY <1>2, <1>4, <1>5, <2>2, <3>1
  <2> QED  BY <1>1, <2>1, <2>2
<1>8. Shorter(u, r, v)
  <2>1. Len(u) # 0 /\ Len(v) = Len(u) - 1  BY <1>1, <1>4, <1>5
  <2>2. \A i \in 1 .. Len(u) - 1 : v[i] = u[i + 1]  BY <1>1, <1>4, <1>7
  <2> QED  BY <1>2, <1>6, <2>1, <2>2 DEF Shorter
<1> QED  BY <1>3, <1>8

\* The client sends one more request.
LEMMA OneMoreSent ==
  ASSUME IInv, NEW o \in Chans, NEW r \in Req, InOrder(o),
         Longer(sent[o], r, sent'[o]), answers'[o] = answers[o],
         Longer(Pending(o), r, Pending(o)')
  PROVE  InOrder(o)'
<1>1. PICK n, k, l, a \in Nat :
        /\ n = Len(sent[o]) /\ l = Len(Pending(o)) /\ a = Len(answers[o])
        /\ k = Served(o) /\ n = k + l
  BY OrderIs
<1>2. /\ Len(sent'[o]) = n + 1 /\ sent'[o][n + 1] = r
      /\ \A i \in 1 .. n : sent'[o][i] = sent[o][i]
  BY <1>1 DEF Longer
<1>3. /\ Len(Pending(o)') = l + 1 /\ Pending(o)'[l + 1] = r
      /\ \A i \in 1 .. l : Pending(o)'[i] = Pending(o)[i]
  BY <1>1 DEF Longer
<1>4. Served(o)' = k
  <2>1. Served(o)' = (n + 1) - (l + 1)  BY <1>2, <1>3 DEF Served
  <2> QED  BY <1>1, <2>1
<1>5. ASSUME NEW i \in 1 .. l + 1 PROVE Pending(o)'[i] = sent'[o][k + i]
  <2>1. CASE i = l + 1
    <3>1. k + i = n + 1  BY <1>1, <2>1
    <3> QED  BY <1>2, <1>3, <2>1, <3>1
  <2>2. CASE i \in 1 .. l
    <3>1. k + i \in 1 .. n  BY <1>1, <2>2
    <3>2. Pending(o)[i] = sent[o][k + i]  BY <1>1, <2>2 DEF InOrder
    <3>3. Pending(o)'[i] = Pending(o)[i]  BY <1>3, <2>2
    <3>4. sent'[o][k + i] = sent[o][k + i]  BY <1>2, <3>1
    <3> QED  BY <3>2, <3>3, <3>4
  <2> QED  BY <2>1, <2>2
<1>6. {sent'[o][i] : i \in 1 .. k} = {sent[o][i] : i \in 1 .. k}
  <2>1. 1 .. k \subseteq 1 .. n  BY <1>1
  <2>2. \A i \in 1 .. k : sent'[o][i] = sent[o][i]  BY <1>2, <2>1
  <2> QED  BY <2>2
<1>7. /\ {answers[o][i] : i \in 1 .. a} = {x \in {sent[o][i] : i \in 1 .. k} : Answered(x)}
      /\ \A i, j \in 1 .. a : i < j => answers[o][i].n < answers[o][j].n
  BY <1>1 DEF InOrder
<1>8. Len(answers'[o]) = a  BY <1>1
<1>9. {answers'[o][i] : i \in 1 .. a} = {x \in {sent'[o][i] : i \in 1 .. k} : Answered(x)}
  BY <1>6, <1>7
<1>10. \A i, j \in 1 .. a : i < j => answers'[o][i].n < answers'[o][j].n
  BY <1>7
<1> QED  BY <1>3, <1>4, <1>5, <1>8, <1>9, <1>10, OrderAfter

\* The goroutine takes the first request and answers it, or passes over it.
LEMMA OneMoreServed ==
  ASSUME IInv, NEW o \in Chans, InOrder(o), SentNumbered(o), sent'[o] = sent[o],
         NEW r, Shorter(Pending(o), r, Pending(o)'),
         Answered(r) => Longer(answers[o], r, answers'[o]),
         ~ Answered(r) => answers'[o] = answers[o]
  PROVE  InOrder(o)'
<1>1. PICK n, k, l, a \in Nat :
        /\ n = Len(sent[o]) /\ l = Len(Pending(o)) /\ a = Len(answers[o])
        /\ k = Served(o) /\ n = k + l
  BY OrderIs
<1>2. /\ l # 0 /\ r = Pending(o)[1] /\ Len(Pending(o)') = l - 1
      /\ \A i \in 1 .. l - 1 : Pending(o)'[i] = Pending(o)[i + 1]
  BY <1>1 DEF Shorter
<1>3. 1 \in 1 .. l /\ k + 1 \in 1 .. n  BY <1>1, <1>2
<1>4. r = sent[o][k + 1] /\ r.n = k + 1
  <2>1. Pending(o)[1] = sent[o][k + 1]  BY <1>1, <1>3 DEF InOrder
  <2>2. sent[o][k + 1].n = k + 1  BY <1>1, <1>3 DEF SentNumbered
  <2> QED  BY <1>2, <2>1, <2>2
<1>5. Served(o)' = k + 1
  <2>1. Served(o)' = n - (l - 1)  BY <1>1, <1>2 DEF Served
  <2> QED  BY <1>1, <2>1
<1>6. ASSUME NEW i \in 1 .. l - 1 PROVE Pending(o)'[i] = sent'[o][k + 1 + i]
  <2>1. i + 1 \in 1 .. l /\ k + (i + 1) = k + 1 + i  BY <1>1
  <2>2. Pending(o)[i + 1] = sent[o][k + (i + 1)]  BY <1>1, <2>1 DEF InOrder
  <2> QED  BY <1>2, <2>1, <2>2
<1>7. PICK Old : Old = {sent[o][i] : i \in 1 .. k}  OBVIOUS
<1>8. {sent'[o][i] : i \in 1 .. k + 1} = Old \union {r}
  <2>1. 1 .. k + 1 = (1 .. k) \union {k + 1}  BY <1>1
  <2> QED  BY <1>4, <1>7, <2>1
<1>9. \A x \in Old : x.n \in 1 .. k
  <2>1. 1 .. k \subseteq 1 .. n  BY <1>1
  <2>2. \A i \in 1 .. k : sent[o][i].n = i  BY <1>1, <2>1 DEF SentNumbered
  <2> QED  BY <1>7, <2>2
<1>10. /\ {answers[o][i] : i \in 1 .. a} = {x \in Old : Answered(x)}
       /\ \A i, j \in 1 .. a : i < j => answers[o][i].n < answers[o][j].n
  BY <1>1, <1>7 DEF InOrder
<1>11. PICK m \in Nat : m = k + 1  BY <1>1
<1>12. PICK u : u = l - 1  OBVIOUS
<1>13. /\ Served(o)' = m /\ Len(Pending(o)') = u
       /\ \A i \in 1 .. u : Pending(o)'[i] = sent'[o][m + i]
  BY <1>2, <1>5, <1>6, <1>11, <1>12
<1>14. {sent'[o][i] : i \in 1 .. m} = Old \union {r}  BY <1>8, <1>11
<1>15. CASE ~ Answered(r)
  <2>1. answers'[o] = answers[o] /\ Len(answers'[o]) = a  BY <1>1, <1>15
  <2>2. {x \in Old \union {r} : Answered(x)} = {x \in Old : Answered(x)}  BY <1>15
  <2>3. {answers'[o][i] : i \in 1 .. a} =
          {x \in {sent'[o][i] : i \in 1 .. m} : Answered(x)}
    BY <1>14, <1>10, <2>1, <2>2
  <2>4. \A i, j \in 1 .. a : i < j => answers'[o][i].n < answers'[o][j].n
    BY <1>10, <2>1
  <2> QED  BY <1>13, <2>1, <2>3, <2>4, OrderAfter
<1>16. CASE Answered(r)
  <2>2. /\ Len(answers'[o]) = a + 1 /\ answers'[o][a + 1] = r
        /\ \A i \in 1 .. a : answers'[o][i] = answers[o][i]
    BY <1>1, <1>16 DEF Longer
  <2>3. {x \in Old \union {r} : Answered(x)} = {x \in Old : Answered(x)} \union {r}  BY <1>16
  <2>4. {answers'[o][i] : i \in 1 .. a + 1} = {answers[o][i] : i \in 1 .. a} \union {r}
    <3>1. 1 .. a + 1 = (1 .. a) \union {a + 1}  BY <1>1
    <3> QED  BY <2>2, <3>1
  <2>5. ASSUME NEW i \in 1 .. a + 1, NEW j \in 1 .. a + 1, i < j
        PROVE  answers'[o][i].n < answers'[o][j].n
    <3>1. i \in 1 .. a  BY <1>1, <2>5
    <3>2. CASE j \in 1 .. a  BY <1>10, <2>2, <2>5, <3>1, <3>2
    <3>3. CASE j = a + 1
      <4>1. answers[o][i] \in Old  BY <1>10, <3>1
      <4>2. answers[o][i].n \in 1 .. k  BY <1>9, <4>1
      <4>3. answers[o][i].n < k + 1  BY <1>1, <4>2
      <4> QED  BY <1>4, <2>2, <3>1, <3>3, <4>3
    <3> QED  BY <1>1, <3>2, <3>3
  <2>6. {answers'[o][i] : i \in 1 .. a + 1} =
          {x \in {sent'[o][i] : i \in 1 .. m} : Answered(x)}
    BY <1>14, <1>10, <2>3, <2>4
  <2>7. \A i, j \in 1 .. a + 1 : i < j => answers'[o][i].n < answers'[o][j].n
    BY <2>5
  <2>8. PICK b : b = a + 1  OBVIOUS
  <2>9. /\ Len(answers'[o]) = b
        /\ {answers'[o][i] : i \in 1 .. b} =
             {x \in {sent'[o][i] : i \in 1 .. m} : Answered(x)}
        /\ \A i, j \in 1 .. b : i < j => answers'[o][i].n < answers'[o][j].n
    BY <2>2, <2>6, <2>7, <2>8
  <2> QED  BY <1>13, <2>9, OrderAfter
<1> QED  BY <1>15, <1>16

\* Most steps leave the requests and answers on o as and where they are.
LEMMA SameOrder ==
  ASSUME NEW o \in Chans, OrderOK(o), up' => up, Writable(o)' => Writable(o),
         Made(o) => Made(o)', sent'[o] = sent[o], answers'[o] = answers[o],
         Pending(o)' = Pending(o), chan'[o].q = chan[o].q \/ Made(o)
  PROVE  OrderOK(o)'
<1>1. InOrder(o)' = InOrder(o)  BY DEF InOrder, Served
<1> QED  BY <1>1 DEF OrderOK, SentNumbered, UnmadeSilent

\* The loop has no request in its hands, or keeps it.
LEMMA SamePending ==
  ASSUME NEW o, chan'[o].q = chan[o].q,
         mux' = mux \/ (mux.pc # "request" /\ mux'.pc # "request")
  PROVE  Pending(o)' = Pending(o)
BY DEF Pending

\* Steps that leave the requests to themselves
LEMMA OthersKeep ==
  ASSUME IInv, \A o \in Chans : OrderOK(o), up' => up, UNCHANGED <<sent, answers>>,
         mux' = mux \/ (mux.pc # "request" /\ mux'.pc # "request"), made' = made,
         \A o \in Chans : /\ chan'[o].q = chan[o].q
                          /\ chan[o].sentClose => chan'[o].sentClose
  PROVE  \A o \in Chans : OrderOK(o)'
<1> SUFFICES ASSUME NEW o \in Chans PROVE OrderOK(o)'
  OBVIOUS
<1>1. Pending(o)' = Pending(o)  BY SamePending
<1>2. (Writable(o)' => Writable(o)) /\ (Made(o) => Made(o)')  BY DEF Writable, Made
<1> QED  BY <1>1, <1>2, SameOrder

\* A new channel has nothing to answer.
LEMMA OpenKeeps ==
  ASSUME IInv, IInv', \A o \in Chans : OrderOK(o), NEW k \in Ids, NEW session \in BOOLEAN,
         Open(k, session)
  PROVE  \A o \in Chans : OrderOK(o)'
<1> SUFFICES ASSUME NEW o \in Chans PROVE OrderOK(o)'
  OBVIOUS
<1>1. /\ made' = made + 1 /\ made < MaxChans /\ mux.pc = "read" /\ mux'.pc = "open"
      /\ UNCHANGED <<up, sent, answers>>
      /\ \E l \in Chans : chan' = [chan EXCEPT ![made + 1] =
            [rid |-> k, lid |-> l, session |-> session, sentClose |-> FALSE,
             open |-> TRUE, q |-> <<>>]]
  BY DEF Open, hist
<1>2. made \in 0 .. MaxChans /\ chan \in [Chans -> ChanType] /\ OrderOK(o)
  BY DEF IInv, TypeOK, TypeTable, TypeChan
<1>3. CASE o = made + 1
  <2>1. ~ Made(o) /\ Made(o)'  BY <1>1, <1>2, <1>3, Numbers DEF Made
  <2>2. chan'[o].q = <<>>  BY <1>1, <1>2, <1>3
  <2>3. sent'[o] = <<>> /\ answers'[o] = <<>>  BY <1>1, <1>2, <2>1 DEF OrderOK, UnmadeSilent
  <2>4. Pending(o)' = <<>>
    <3>1. Pending(o)' = <<>> \o <<>>  BY <1>1, <2>2 DEF Pending
    <3> QED  BY <3>1
  <2>5. Len(sent'[o]) = 0 /\ Len(answers'[o]) = 0 /\ Len(Pending(o)') = 0  BY <2>3, <2>4
  <2>6. Served(o)' = 0  BY <2>5 DEF Served
  <2>7. /\ \A i \in 1 .. 0 : Pending(o)'[i] = sent'[o][0 + i]
        /\ {answers'[o][i] : i \in 1 .. 0} = {x \in {sent'[o][i] : i \in 1 .. 0} : Answered(x)}
        /\ \A i, j \in 1 .. 0 : i < j => answers'[o][i].n < answers'[o][j].n
    OBVIOUS
  <2>8. InOrder(o)'  BY <2>5, <2>6, <2>7, OrderAfter
  <2>9. SentNumbered(o)'  BY <2>5 DEF SentNumbered
  <2> QED  BY <2>1, <2>8, <2>9 DEF OrderOK, UnmadeSilent
<1>4. CASE o # made + 1
  <2>1. chan'[o] = chan[o]  BY <1>1, <1>2, <1>4
  <2>2. Pending(o)' = Pending(o)
    <3>1. mux.pc # "request" /\ mux'.pc # "request"  BY <1>1
    <3> QED  BY <2>1, <3>1, SamePending
  <2>3. (Writable(o)' => Writable(o)) /\ (Made(o) => Made(o)')
    BY <1>1, <1>2, <2>1, Numbers DEF Writable, Made
  <2> QED  BY <1>1, <1>2, <2>1, <2>2, <2>3, SameOrder
<1> QED  BY <1>3, <1>4

\* A request is numbered, kept by the client and taken by the loop in one step.
LEMMA RequestKeeps ==
  ASSUME IInv, IInv', \A o \in Chans : OrderOK(o), NEW k \in Ids, NEW kind \in Kinds,
         NEW want \in BOOLEAN, Request(k, kind, want)
  PROVE  \A o \in Chans : OrderOK(o)'
<1> SUFFICES ASSUME NEW o \in Chans PROVE OrderOK(o)'
  OBVIOUS
<1> DEFINE p == client[k].o
           r == [n |-> Len(sent[p]) + 1, kind |-> kind, want |-> want]
<1>1. /\ up /\ client[k].st \in {"open", "closed"}
      /\ mux.pc = "read" /\ sent' = [sent EXCEPT ![p] = Append(@, r)]
      /\ mux' = [pc |-> "request", o |-> table[client[k].lid], r |-> r]
      /\ UNCHANGED <<up, made, chan, answers>>
  BY DEF Request
<1>2. p \in Chans /\ Made(p) /\ table[client[k].lid] = p
  BY <1>1, MadeChans DEF IInv, TypeOK, ClientOK
<1>3. /\ mux'.pc = "request" /\ mux'.o = p /\ mux'.r = r
      /\ sent \in [Chans -> Seq(Req)] /\ OrderOK(o) /\ OrderOK(p)
  BY <1>1, <1>2 DEF IInv, TypeOK, TypeHist
<1>4. Writable(o)' = Writable(o) /\ Made(o)' = Made(o)  BY <1>1 DEF Writable, Made
<1>5. r \in Req  BY <1>3 DEF IInv, HandsOK
<1>6. r.n = Len(sent[p]) + 1  OBVIOUS
<1>7. Pending(o) = chan[o].q  BY <1>1, PendingIs DEF IInv
<1> HIDE DEF r, p
<1>8. CASE o = p
  <2>1. Pending(o)' = Append(chan'[o].q, r)
    <3>1. Pending(o)' = chan'[o].q \o <<r>>  BY <1>3, <1>8 DEF Pending
    <3>2. chan'[o].q \in Seq(Req)  BY <1>1, OrderTypes
    <3> QED  BY <1>5, <3>1, <3>2
  <2>2. Pending(o)' = Append(Pending(o), r)  BY <1>1, <1>7, <2>1
  <2>3. sent'[o] = Append(sent[o], r)  BY <1>1, <1>3, <1>8
  <2>4. sent[o] \in Seq(Req) /\ Pending(o) \in Seq(Req)  BY OrderTypes
  <2>5. Longer(sent[o], r, sent'[o])  BY <1>5, <2>3, <2>4, AppendIsLonger
  <2>6. Longer(Pending(o), r, Pending(o)')  BY <1>5, <2>2, <2>4, AppendIsLonger
  <2>7. up' /\ Writable(o)' => InOrder(o)'
    <3> SUFFICES ASSUME up', Writable(o)' PROVE InOrder(o)'  OBVIOUS
    <3>1. InOrder(o)  BY <1>1, <1>3, <1>4 DEF OrderOK
    <3>2. answers'[o] = answers[o]  BY <1>1
    <3> QED  BY <1>5, <2>5, <2>6, <3>1, <3>2, OneMoreSent
  <2>8. SentNumbered(o)'
    <3>1. PICK n \in Nat : n = Len(sent[o])  BY <2>4
    <3>2. /\ Len(sent'[o]) = n + 1 /\ sent'[o][n + 1] = r
          /\ \A i \in 1 .. n : sent'[o][i] = sent[o][i]
      BY <2>5, <3>1 DEF Longer
    <3>3. \A i \in 1 .. n : sent[o][i].n = i  BY <1>3, <3>1 DEF OrderOK, SentNumbered
    <3>4. r.n = n + 1  BY <1>6, <1>8, <3>1
    <3> HIDE DEF OrderOK
    <3>5. \A i \in 1 .. n + 1 : i \in 1 .. n \/ i = n + 1  OBVIOUS
    <3>6. \A i \in 1 .. n + 1 : sent'[o][i].n = i  BY <3>2, <3>3, <3>4, <3>5
    <3> QED  BY <3>2, <3>6 DEF SentNumbered
  <2> QED  BY <1>2, <1>4, <1>8, <2>7, <2>8 DEF OrderOK, UnmadeSilent
<1>9. CASE o # p
  <2>1. Pending(o)' = Pending(o)  BY <1>1, <1>3, <1>9 DEF Pending
  <2>2. sent'[o] = sent[o] /\ answers'[o] = answers[o] /\ chan'[o].q = chan[o].q
    BY <1>1, <1>3, <1>9
  <2>3. up' => up  BY <1>1
  <2> QED  BY <1>3, <1>4, <2>1, <2>2, <2>3, SameOrder
<1> QED  BY <1>8, <1>9

\* The request goes from the hands of the loop to the end of the queue.
LEMMA PutRequestKeeps ==
  ASSUME IInv, \A o \in Chans : OrderOK(o), PutRequest
  PROVE  \A o \in Chans : OrderOK(o)'
<1> SUFFICES ASSUME NEW o \in Chans PROVE OrderOK(o)'
  OBVIOUS
<1>1. /\ mux.pc = "request" /\ mux' = Reading /\ UNCHANGED <<up, made, sent, answers>>
      /\ chan' = [chan EXCEPT ![mux.o].q = Append(@, mux.r)]
  BY DEF PutRequest
<1>2. Made(mux.o) /\ mux.o \in Chans /\ mux.r \in Req /\ chan \in [Chans -> ChanType]
  BY <1>1, MadeChans DEF IInv, HandsOK, TypeOK, TypeChan
<1>3. Pending(o)' = chan'[o].q
  <2>1. mux'.pc # "request"  BY <1>1 DEF Reading
  <2>2. Pending(o)' = chan'[o].q \o <<>>  BY <2>1 DEF Pending
  <2>3. chan'[o].q \in Seq(Req)
    <3>1. chan[o].q \in Seq(Req) /\ Append(chan[o].q, mux.r) \in Seq(Req)  BY <1>2, OrderTypes
    <3>2. chan'[o].q = chan[o].q \/ chan'[o].q = Append(chan[o].q, mux.r)  BY <1>1, <1>2
    <3> QED  BY <3>1, <3>2
  <2> QED  BY <2>2, <2>3
<1>4. Pending(o)' = Pending(o)
  <2>1. CASE o = mux.o
    <3>1. chan'[o].q = Append(chan[o].q, mux.r)  BY <1>1, <1>2, <2>1
    <3>2. Pending(o) = Append(chan[o].q, mux.r)  BY <1>1, <1>2, <2>1, PendingIs DEF IInv
    <3> QED  BY <1>3, <3>1, <3>2
  <2>2. CASE o # mux.o
    <3>1. chan'[o].q = chan[o].q  BY <1>1, <1>2, <2>2
    <3>2. Pending(o) = chan[o].q  BY <1>2, <2>2, PendingIs DEF IInv
    <3> QED  BY <1>3, <3>1, <3>2
  <2> QED  BY <2>1, <2>2
<1>5. /\ Writable(o)' => Writable(o)
      /\ Made(o) => Made(o)'
      /\ chan'[o].q = chan[o].q \/ Made(o)
  BY <1>1, <1>2 DEF Writable, Made
<1>6. (up' => up) /\ sent'[o] = sent[o] /\ answers'[o] = answers[o]  BY <1>1
<1> QED  BY <1>4, <1>5, <1>6, SameOrder

\* The goroutine takes the first request of its queue.
LEMMA HandleKeeps ==
  ASSUME IInv, \A o \in Chans : OrderOK(o), NEW p \in Chans, Handle(p)
  PROVE  \A o \in Chans : OrderOK(o)'
<1> SUFFICES ASSUME NEW o \in Chans PROVE OrderOK(o)'
  OBVIOUS
<1> DEFINE r == Head(chan[p].q)
<1>1. /\ chan[p].q # <<>> /\ chan' = [chan EXCEPT ![p].q = Tail(@)] /\ Reply(p, r)
      /\ UNCHANGED <<up, mux, made, sent>>
  BY DEF Handle
<1>2. /\ chan \in [Chans -> ChanType] /\ answers \in [Chans -> Seq(Req)]
      /\ OrderOK(o) /\ OrderOK(p)
  BY DEF IInv, TypeOK, TypeChan, TypeHist
<1>3. Made(p)  BY <1>1, <1>2 DEF OrderOK, UnmadeSilent
<1>4. Writable(o)' = Writable(o) /\ Made(o)' = Made(o) /\ up' = up /\ sent'[o] = sent[o]
  BY <1>1, <1>2 DEF Writable, Made
<1>5. CASE o # p
  <2>1. chan'[o] = chan[o]  BY <1>1, <1>2, <1>5
  <2>2. answers'[o] = answers[o]  BY <1>1, <1>2, <1>5 DEF Reply
  <2>3. Pending(o)' = Pending(o)  BY <1>1, <2>1, SamePending
  <2> QED  BY <1>2, <1>4, <2>1, <2>2, <2>3, SameOrder
<1>6. CASE o = p
  <2>1. SentNumbered(o)' /\ UnmadeSilent(o)'
    BY <1>2, <1>3, <1>4, <1>6 DEF OrderOK, SentNumbered, UnmadeSilent
  <2>2. ASSUME up', Writable(o)' PROVE InOrder(o)'
    <3>1. InOrder(o) /\ SentNumbered(o) /\ up /\ Writable(o)  BY <1>2, <1>4, <2>2 DEF OrderOK
    <3>2. chan[o].q \in Seq(Req) /\ chan'[o].q = Tail(chan[o].q) /\ answers[o] \in Seq(Req)
      BY <1>1, <1>2, <1>6, OrderTypes
    <3>3. r \in Req /\ Shorter(chan[o].q, r, chan'[o].q)
      <4>1. r \in Req  BY <1>1, <1>6, <3>2, HeadTailProperties
      <4> QED  BY <1>1, <1>6, <3>2, <4>1, TailIsShorter
    <3>4. Answered(r) => Longer(answers[o], r, answers'[o])
      <4> SUFFICES ASSUME Answered(r) PROVE Longer(answers[o], r, answers'[o])  OBVIOUS
      <4>1. answers' = [answers EXCEPT ![p] = Append(@, r)]  BY <1>1, <1>6, <3>1 DEF Reply
      <4>2. answers'[o] = Append(answers[o], r)  BY <1>2, <1>6, <4>1
      <4> QED  BY <3>2, <3>3, <4>2, AppendIsLonger
    <3>5. ~ Answered(r) => answers'[o] = answers[o]  BY <1>1 DEF Reply
    <3>6. Shorter(Pending(o), r, Pending(o)')
      <4>1. CASE mux.pc = "request" /\ mux.o = o
        <5>1. /\ Pending(o) = chan[o].q \o <<mux.r>> /\ Pending(o)' = chan'[o].q \o <<mux.r>>
              /\ mux.r \in Req /\ chan'[o].q \in Seq(Req)
          BY <1>1, <3>2, <4>1 DEF Pending, IInv, HandsOK
        <5> QED  BY <3>2, <3>3, <5>1, ShorterToo
      <4>2. CASE ~ (mux.pc = "request" /\ mux.o = o)
        <5>1. Pending(o) = chan[o].q \o <<>> /\ Pending(o)' = chan'[o].q \o <<>>
          BY <1>1, <4>2 DEF Pending
        <5>2. Pending(o) = chan[o].q /\ Pending(o)' = chan'[o].q
          <6>1. chan'[o].q \in Seq(Req)  BY <1>1, <1>6, <3>2
          <6> QED  BY <3>2, <5>1, <6>1
        <5> QED  BY <3>3, <5>2
      <4> QED  BY <4>1, <4>2
    <3> HIDE DEF r
    <3> QED  BY <1>4, <3>1, <3>4, <3>5, <3>6, OneMoreServed
  <2> QED  BY <2>1, <2>2 DEF OrderOK
<1> QED  BY <1>5, <1>6

\* Every step keeps the order.
LEMMA OrderKeeps ==
  ASSUME AnswersInv, IInv', [Next]_vars
  PROVE  AnswersInv'
<1> SUFFICES \A o \in Chans : OrderOK(o)'
  BY DEF AnswersInv
<1>1. IInv /\ \A o \in Chans : OrderOK(o)  BY DEF AnswersInv
<1>2. chan \in [Chans -> ChanType]  BY <1>1 DEF IInv, TypeOK, TypeChan
<1>3. CASE UNCHANGED vars  BY <1>1, <1>3, OthersKeep DEF vars, server, hist
<1>4. CASE Client
  <2>1. ASSUME NEW k \in Ids, NEW session \in BOOLEAN, Open(k, session)
        PROVE  \A o \in Chans : OrderOK(o)'
    BY <1>1, <2>1, OpenKeeps
  <2>2. ASSUME NEW k \in Ids, NEW kind \in Kinds, NEW want \in BOOLEAN, Request(k, kind, want)
        PROVE  \A o \in Chans : OrderOK(o)'
    BY <1>1, <2>2, RequestKeeps
  <2>3. ASSUME NEW k \in Ids, Close(k)
        PROVE  \A o \in Chans : OrderOK(o)'
    <3>1. /\ UNCHANGED <<up, mux, made, sent, answers>>
          /\ chan' = [chan EXCEPT ![table[client[k].lid]].sentClose = TRUE,
                                  ![table[client[k].lid]].open = FALSE]
      BY <2>3 DEF Close
    <3>2. \A o \in Chans : /\ chan'[o].q = chan[o].q
                           /\ chan[o].sentClose => chan'[o].sentClose
      BY <1>2, <3>1 DEF ChanType
    <3> QED  BY <1>1, <3>1, <3>2, OthersKeep
  <2>4. ASSUME Global \/ GlobalAnswer \/ \E k \in Ids : Answer(k)
        PROVE  \A o \in Chans : OrderOK(o)'
    <3>1. mux.pc # "request" /\ mux'.pc # "request"
      BY <2>4 DEF Global, GlobalAnswer, Answer
    <3>2. UNCHANGED <<up, made, chan, sent, answers>>
      BY <2>4 DEF Global, GlobalAnswer, Answer, hist
    <3> QED  BY <1>1, <3>1, <3>2, OthersKeep
  <2>5. CASE Leave \/ Stall
    <3>1. UNCHANGED <<mux, made, chan, sent, answers>> /\ (up' => up)
      BY <2>5 DEF Leave, Stall, server, hist
    <3> QED  BY <1>1, <3>1, OthersKeep
  <2> QED  BY <1>4, <2>1, <2>2, <2>3, <2>4, <2>5 DEF Client
<1>5. CASE Loop
  <2>1. CASE PutOpen \/ PutGlobal \/ PutAnswer
    <3>1. mux.pc # "request" /\ mux'.pc # "request"
      BY <2>1 DEF PutOpen, PutGlobal, PutAnswer, Reading
    <3>2. UNCHANGED <<up, made, chan, sent, answers>>
      BY <2>1 DEF PutOpen, PutGlobal, PutAnswer, hist
    <3> QED  BY <1>1, <3>1, <3>2, OthersKeep
  <2>2. CASE PutRequest  BY <1>1, <2>2, PutRequestKeeps
  <2>3. CASE LoopEnds
    <3>1. mux.pc # "request" /\ mux'.pc # "request" /\ UNCHANGED <<up, made, sent, answers>>
      BY <2>3 DEF LoopEnds, Reading
    <3>2. \A o \in Chans : /\ chan'[o].q = chan[o].q
                           /\ chan[o].sentClose => chan'[o].sentClose
      BY <1>2, <2>3 DEF LoopEnds, ChanType
    <3> QED  BY <1>1, <3>1, <3>2, OthersKeep
  <2> QED  BY <1>5, <2>1, <2>2, <2>3 DEF Loop
<1>6. CASE handleRequests  BY <1>1, <1>6, OthersKeep DEF handleRequests, hist
<1>7. CASE Accepts /\ ~ StartFails
  <2>1. UNCHANGED <<up, mux, made, chan, sent, answers>>
    BY <1>7 DEF Accepts, handleChannel, Reject, Accept, hist
  <2> QED  BY <1>1, <2>1, OthersKeep
<1>8. ASSUME NEW p \in Chans, Handle(p)
      PROVE  \A o \in Chans : OrderOK(o)'
  BY <1>1, <1>8, HandleKeeps
<1>9. ASSUME NEW p \in Chans, HandlerEnds(p)
      PROVE  \A o \in Chans : OrderOK(o)'
  BY <1>1, <1>9, OthersKeep DEF HandlerEnds, hist
<1>10. ASSUME NEW p \in Chans, CloseChannel(p)
       PROVE  \A o \in Chans : OrderOK(o)'
  <2>1. UNCHANGED <<up, mux, made, sent, answers>> /\ chan' = [chan EXCEPT ![p].sentClose = TRUE]
    BY <1>10 DEF CloseChannel
  <2>2. \A o \in Chans : /\ chan'[o].q = chan[o].q
                         /\ chan[o].sentClose => chan'[o].sentClose
    BY <1>2, <2>1 DEF ChanType
  <2> QED  BY <1>1, <2>1, <2>2, OthersKeep
<1>11. ASSUME StartFails \/ \E p \in Chans : Panics(p)
       PROVE  \A o \in Chans : OrderOK(o)'
  <2>1. up' = FALSE /\ UNCHANGED <<made, chan, sent, answers>>
    BY <1>11 DEF StartFails, Panics, ServerDies, hist
  <2> QED  BY <1>1, <2>1 DEF OrderOK, SentNumbered, UnmadeSilent, Made
<1> QED
  BY <1>3, <1>4, <1>5, <1>6, <1>7, <1>8, <1>9, <1>10, <1>11 DEF Next

\* It holds at first.
LEMMA OrderInitially == Init => \A o \in Chans : OrderOK(o)
<1> SUFFICES ASSUME Init, NEW o \in Chans PROVE OrderOK(o)
  OBVIOUS
<1>1. sent[o] = <<>> /\ answers[o] = <<>> /\ chan[o].q = <<>> /\ Pending(o) = <<>> \o <<>>
  BY DEF Init, Unmade, Reading, Pending
<1>2. Len(Pending(o)) = 0 /\ Len(sent[o]) = 0 /\ Len(answers[o]) = 0
  <2>1. Pending(o) = <<>>  BY <1>1
  <2> QED  BY <1>1, <2>1
<1>3. Served(o) = 0  BY <1>2 DEF Served
<1>4. InOrder(o)  BY <1>2, <1>3 DEF InOrder
<1>5. SentNumbered(o) /\ UnmadeSilent(o)  BY <1>1, <1>2 DEF SentNumbered, UnmadeSilent
<1> QED  BY <1>4, <1>5 DEF OrderOK

\* The goroutine of a channel answers pty-req and shell in the order in which the
\* client has sent them, each once, and none is lost between the mux and it.
THEOREM AnswersComeInOrder == Spec => []AnsweredInOrder
<1>1. Spec => []AnswersInv
  <2>1. Init /\ IInv => AnswersInv  BY OrderInitially DEF AnswersInv
  <2>2. AnswersInv /\ IInv' /\ [Next]_vars => AnswersInv'  BY OrderKeeps
  <2> QED  BY <2>1, <2>2, Inductive, PTL DEF Spec
<1>2. AnswersInv => AnsweredInOrder
  BY DEF AnswersInv, OrderOK, AnsweredInOrder
<1> QED
  BY <1>1, <1>2, PTL
=============================================================================
