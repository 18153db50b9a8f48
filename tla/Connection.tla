----------------------------- MODULE Connection -----------------------------
(* One SSH connection after authentication: the mux loop of
   golang.org/x/crypto/ssh with its table of channels and its bounded queues,
   and the goroutines of sshd.go that empty them: handleRequests, handleChannels
   and, for every channel, the one that answers pty-req and shell.

   A packet of the client and the mux loop's reading of it are one step, and so
   are a packet of the server and its arrival; a client that has not seen a
   packet yet is one that does not act on it yet.  Both ends number channels for
   themselves and use numbers again, so a channel is told by `o', its place in
   the order of opening, which no packet carries.  Data are in Session. *)
EXTENDS Naturals, Sequences, FiniteSets, SequencesExt

CONSTANTS Ids,        \* the client's channel numbers
          Kinds,      \* types of requests on a channel
          QueueCap,   \* capacity of every queue: 16 in the code
          MaxChans,   \* bound: channels opened
          MaxReqs,    \* bound: requests on each channel
          MaxAll,     \* bound: requests on all channels together
          MaxUnread   \* bound: queues in which the client leaves answers nobody takes

ASSUME ConnectionAssumption == /\ QueueCap \in Nat \ {0}
                               /\ MaxChans \in Nat
                               /\ MaxReqs \in Nat
                               /\ MaxAll \in Nat
                               /\ MaxUnread \in Nat

VARIABLES up,       \* the client is there
          stalled,  \* what the server writes waits for good
          client,   \* what it knows under each of its numbers [st, o, lid]
          mux,      \* the loop and the packet in its hands [pc, o, r]
          table,    \* chanList: the channel in each slot, or NoChan
          made,     \* channels created
          chan,     \* channels [rid, lid, session, sentClose, open, q]
          openq,    \* incomingChannels
          globq,    \* incomingRequests: how many
          unread,   \* answers to what the server has not asked, which nobody takes:
                    \* in msg of each channel and, under NoChan, in globalResponses
          acc,      \* handleChannels: the channel in its hands, or NoChan
          handler,  \* the goroutine of each channel
          \* history
          sent,     \* requests the client has sent on each channel
          answers,  \* requests for which it has got an answer
          stray,    \* a packet for one channel has reached another, or none
          panicked  \* a Go channel has been closed twice

server == <<mux, table, made, chan, openq, globq, unread, acc, handler>>
hist == <<sent, answers, stray, panicked>>
vars == <<up, stalled, client, server, hist>>

NoChan == 0
Chans == 1 .. MaxChans

Free == [st |-> "free", o |-> NoChan, lid |-> 0]
Unmade == [rid |-> 0, lid |-> 0, session |-> FALSE, sentClose |-> FALSE,
           open |-> FALSE, q |-> <<>>]
NoReq == [n |-> 0, kind |-> "none", want |-> FALSE]
Reading == [pc |-> "read", o |-> NoChan, r |-> NoReq]

Init == /\ up = TRUE
        /\ stalled = FALSE
        /\ client = [k \in Ids |-> Free]
        /\ mux = Reading
        /\ table = [l \in Chans |-> NoChan]
        /\ made = 0
        /\ chan = [o \in Chans |-> Unmade]
        /\ openq = <<>>
        /\ globq = 0
        /\ unread = [o \in 0 .. MaxChans |-> 0]
        /\ acc = NoChan
        /\ handler = [o \in Chans |-> "none"]
        /\ sent = [o \in Chans |-> <<>>]
        /\ answers = [o \in Chans |-> <<>>]
        /\ stray = FALSE
        /\ panicked = FALSE

-----------------------------------------------------------------------------
(* What the server sends *)

\* Mutant: no check in writePacket
Writable_always(o) == TRUE

\* writePacket refuses what is sent on a channel after its close message.
Writable(o) == ~ chan[o].sentClose

\* A write of channel o returns: it is refused, or what is written is taken.
Sendable(o) == Writable(o) => ~ stalled

\* The packet of channel o finds another channel, or none, under its number.
Misses(o) == up /\ client[chan[o].rid].o # o

\* The client's knowledge of o becomes c, if the packet arrives.
Deliver(o, c) == /\ client' = IF up /\ ~ Misses(o)
                              THEN [client EXCEPT ![chan[o].rid] = c]
                              ELSE client
                 /\ stray' = (stray \/ Misses(o))

Closed(k) == [client[k] EXCEPT !.st = "closed"]

-----------------------------------------------------------------------------
(* The client's packets and onePacket *)

\* chanList.add takes the first free slot.
IsFreeSlot(l) == /\ table[l] = NoChan
                 /\ \A m \in Chans : m < l => table[m] # NoChan

\* SSH_MSG_CHANNEL_OPEN; the loop makes the channel and goes on to queue it.
Open(k, session) ==
  /\ up /\ mux.pc = "read" /\ client[k].st = "free" /\ made < MaxChans
  /\ made' = made + 1
  /\ client' = [client EXCEPT ![k] = [st |-> "opening", o |-> made + 1, lid |-> 0]]
  /\ \E l \in Chans :
       /\ IsFreeSlot(l)
       /\ table' = [table EXCEPT ![l] = made + 1]
       /\ chan' = [chan EXCEPT ![made + 1] =
            [rid |-> k, lid |-> l, session |-> session, sentClose |-> FALSE,
             open |-> TRUE, q |-> <<>>]]
  /\ mux' = [pc |-> "open", o |-> made + 1, r |-> NoReq]
  /\ UNCHANGED <<up, stalled, openq, globq, unread, acc, handler, hist>>

SentInAll == MapThenSumSet(LAMBDA o : Len(sent[o]), Chans)

\* SSH_MSG_CHANNEL_REQUEST; the client may not have seen the server's close.
Request(k, kind, want) ==
  /\ up /\ mux.pc = "read" /\ client[k].st \in {"open", "closed"}
  /\ LET o == client[k].o
         r == [n |-> Len(sent[o]) + 1, kind |-> kind, want |-> want]
     IN /\ Len(sent[o]) < MaxReqs /\ SentInAll < MaxAll
        /\ sent' = [sent EXCEPT ![o] = Append(@, r)]
        /\ mux' = [pc |-> "request", o |-> table[client[k].lid], r |-> r]
        /\ stray' = (stray \/ table[client[k].lid] # o)
  /\ UNCHANGED <<up, stalled, client, table, made, chan, openq, globq, unread, acc,
                 handler, answers, panicked>>

\* SSH_MSG_GLOBAL_REQUEST, such as the keepalive of OpenSSH
Global ==
  /\ up /\ mux.pc = "read"
  /\ mux' = [pc |-> "global", o |-> NoChan, r |-> NoReq]
  /\ UNCHANGED <<up, stalled, client, table, made, chan, openq, globq, unread, acc,
                 handler, hist>>

\* The bound on the client's answers
Bounded(o) == Cardinality({p \in 0 .. MaxChans : p # o /\ unread[p] > 0}) < MaxUnread

\* SSH_MSG_REQUEST_SUCCESS or FAILURE.  The server makes no global requests.
GlobalAnswer ==
  /\ up /\ mux.pc = "read" /\ Bounded(NoChan)
  /\ mux' = [pc |-> "answer", o |-> NoChan, r |-> NoReq]
  /\ UNCHANGED <<up, stalled, client, table, made, chan, openq, globq, unread, acc,
                 handler, hist>>

\* SSH_MSG_CHANNEL_SUCCESS or FAILURE.  Nor does it make requests on a channel.
Answer(k) ==
  /\ up /\ mux.pc = "read" /\ client[k].st \in {"open", "closed"}
  /\ Bounded(client[k].o)
  /\ mux' = [pc |-> "answer", o |-> table[client[k].lid], r |-> NoReq]
  /\ stray' = (stray \/ table[client[k].lid] # client[k].o)
  /\ UNCHANGED <<up, stalled, client, table, made, chan, openq, globq, unread, acc,
                 handler, sent, answers, panicked>>

\* Mutant: the slot is not emptied.
RemoveChan_not(l) == table' = table

\* chanList.remove
RemoveChan(l) == table' = [table EXCEPT ![l] = NoChan]

\* SSH_MSG_CHANNEL_CLOSE: answered unless the server has sent its own; then the
\* number is free again at both ends.  A loop whose answer waits for good does
\* nothing any more, as when no packet comes.
Close(k) ==
  /\ up /\ mux.pc = "read" /\ client[k].st \in {"open", "closed"}
  /\ LET o == table[client[k].lid]
     IN /\ Sendable(o)
        /\ client' = [client EXCEPT ![k] = Free]
        /\ stray' = (stray \/ o # client[k].o \/ (Writable(o) /\ Misses(o)))
        /\ RemoveChan(chan[o].lid)
        /\ chan' = [chan EXCEPT ![o].sentClose = TRUE, ![o].open = FALSE]
        /\ panicked' = (panicked \/ ~ chan[o].open)
  /\ UNCHANGED <<up, stalled, mux, made, openq, globq, unread, acc, handler, sent,
                 answers>>

\* The connection breaks; what the client knew is of no account any more.
Leave == /\ up
         /\ up' = FALSE
         /\ client' = [k \in Ids |-> Free]
         /\ UNCHANGED <<stalled, server, hist>>

\* What the server writes waits for good: the client reads no more, or a key
\* exchange does not end (see Transport).
Stall == /\ up /\ ~ stalled
         /\ stalled' = TRUE
         /\ UNCHANGED <<up, client, server, hist>>

-----------------------------------------------------------------------------
(* The loop's sends on its queues, where it waits while they are full *)

PutOpen == /\ mux.pc = "open" /\ Len(openq) < QueueCap
           /\ openq' = Append(openq, mux.o)
           /\ mux' = Reading
           /\ UNCHANGED <<up, stalled, client, table, made, chan, globq, unread,
                          acc, handler, hist>>

\* Mutant: a request for which there is no room is dropped.
PutRequest_drops ==
  /\ mux.pc = "request"
  /\ chan' = IF Len(chan[mux.o].q) < QueueCap
             THEN [chan EXCEPT ![mux.o].q = Append(@, mux.r)]
             ELSE chan
  /\ panicked' = (panicked \/ ~ chan[mux.o].open)
  /\ mux' = Reading
  /\ UNCHANGED <<up, stalled, client, table, made, openq, globq, unread, acc,
                 handler, sent, answers, stray>>

PutRequest == /\ mux.pc = "request" /\ Len(chan[mux.o].q) < QueueCap
              /\ chan' = [chan EXCEPT ![mux.o].q = Append(@, mux.r)]
              /\ panicked' = (panicked \/ ~ chan[mux.o].open)
              /\ mux' = Reading
              /\ UNCHANGED <<up, stalled, client, table, made, openq, globq, unread,
                             acc, handler, sent, answers, stray>>

\* Mutant: room for one more
PutGlobal_oneMore == /\ mux.pc = "global" /\ globq <= QueueCap
                     /\ globq' = globq + 1
                     /\ mux' = Reading
                     /\ UNCHANGED <<up, stalled, client, table, made, chan, openq,
                                    unread, acc, handler, hist>>

PutGlobal == /\ mux.pc = "global" /\ globq < QueueCap
             /\ globq' = globq + 1
             /\ mux' = Reading
             /\ UNCHANGED <<up, stalled, client, table, made, chan, openq, unread,
                            acc, handler, hist>>

\* The room for answers nobody takes: globalResponses has 1.
AnswerCap(o) == IF o = NoChan THEN 1 ELSE QueueCap

\* The loop waits for good once there is none.
PutAnswer == /\ mux.pc = "answer" /\ unread[mux.o] < AnswerCap(mux.o)
             /\ unread' = [unread EXCEPT ![mux.o] = @ + 1]
             /\ panicked' = (panicked \/ (mux.o # NoChan /\ ~ chan[mux.o].open))
             /\ mux' = Reading
             /\ UNCHANGED <<up, stalled, client, table, made, chan, openq, globq,
                            acc, handler, sent, answers, stray>>

\* loop: after a read error every channel in the table is closed.
LoopEnds ==
  /\ ~ up /\ mux.pc = "read"
  /\ LET all == {o \in Chans : \E l \in Chans : table[l] = o}
     IN /\ chan' = [o \in Chans |->
              IF o \in all THEN [chan[o] EXCEPT !.sentClose = TRUE, !.open = FALSE]
              ELSE chan[o]]
        /\ panicked' = (panicked \/ \E o \in all : ~ chan[o].open)
  /\ table' = [l \in Chans |-> NoChan]
  /\ mux' = [Reading EXCEPT !.pc = "ended"]
  /\ UNCHANGED <<up, stalled, client, made, openq, globq, unread, acc, handler,
                 sent, answers, stray>>

-----------------------------------------------------------------------------
(* The goroutines of sshd.go *)

\* handleRequests takes a global request and does not answer it.
handleRequests == /\ globq > 0
                  /\ globq' = globq - 1
                  /\ UNCHANGED <<up, stalled, client, mux, table, made, chan, openq,
                                 unread, acc, handler, hist>>

\* handleChannels, anything but a session: Reject; the channel stays in its slot.
Reject(o) == /\ acc = NoChan /\ openq # <<>> /\ Head(openq) = o /\ ~ chan[o].session
             /\ Sendable(o)
             /\ openq' = Tail(openq)
             /\ IF Writable(o) THEN Deliver(o, Free) ELSE UNCHANGED <<client,
                                                                      stray>>
             /\ UNCHANGED <<up, stalled, mux, table, made, chan, globq, unread, acc,
                            handler, sent, answers, panicked>>

\* A session: Accept, which fails when the connection has gone in between.
Accept(o) ==
  /\ acc = NoChan /\ openq # <<>> /\ Head(openq) = o /\ chan[o].session
  /\ Sendable(o)
  /\ openq' = Tail(openq)
  /\ \/ /\ Writable(o)
        /\ Deliver(o, [st |-> "open", o |-> o, lid |-> chan[o].lid])
        /\ acc' = o
     \/ /\ ~ Writable(o) \/ ~ up
        /\ UNCHANGED <<client, stray, acc>>
  /\ UNCHANGED <<up, stalled, mux, table, made, chan, globq, unread, handler, sent,
                 answers, panicked>>

\* A goroutine panics, and the server is gone with all of them.
ServerDies == /\ up' = FALSE
              /\ client' = [k \in Ids |-> Free]
              /\ mux' = [Reading EXCEPT !.pc = "ended"]
              /\ table' = [l \in Chans |-> NoChan]
              /\ openq' = <<>>
              /\ globq' = 0
              /\ acc' = NoChan
              /\ handler' = [o \in Chans |-> "none"]
              /\ UNCHANGED <<stalled, made, chan, unread, hist>>

\* pty.Start fails, and closeChannel waits for a process that is not there.
StartFails == acc # NoChan /\ ServerDies

\* handleChannel has started docker exec and the goroutine.
handleChannel == /\ acc # NoChan
                 /\ handler' = [handler EXCEPT ![acc] = "running"]
                 /\ acc' = NoChan
                 /\ UNCHANGED <<up, stalled, client, mux, table, made, chan, openq,
                                globq, unread, hist>>

\* The requests the goroutine answers: a shell without arguments, pty-req
Answered(r) == r.want /\ r.kind \in {"shell", "pty_req"}

\* req.Reply, on a channel that may have been closed meanwhile
Reply(o, r) ==
  IF Answered(r) /\ Writable(o) /\ up
  THEN /\ answers' = [answers EXCEPT ![o] = Append(@, r)]
       /\ stray' = (stray \/ Misses(o))
  ELSE UNCHANGED <<answers, stray>>

\* Mutant: the goroutine returns when a reply fails.
Handle_untilClosed(o) ==
  /\ handler[o] = "running" /\ chan[o].q # <<>> /\ Writable(o)
  /\ Answered(Head(chan[o].q)) => Sendable(o)
  /\ chan' = [chan EXCEPT ![o].q = Tail(@)]
  /\ Reply(o, Head(chan[o].q))
  /\ UNCHANGED <<up, stalled, client, mux, table, made, openq, globq, unread, acc,
                 handler, sent, panicked>>

\* One round of the goroutine, in which an answer may have to wait
Handle(o) ==
  /\ handler[o] = "running" /\ chan[o].q # <<>>
  /\ Answered(Head(chan[o].q)) => Sendable(o)
  /\ chan' = [chan EXCEPT ![o].q = Tail(@)]
  /\ Reply(o, Head(chan[o].q))
  /\ UNCHANGED <<up, stalled, client, mux, table, made, openq, globq, unread, acc,
                 handler, sent, panicked>>

\* A pty-req or window-change whose payload is too short for the terminal's size:
\* an index out of range.  The client writes what it likes into the payload, which
\* is not in the model.
Panics(o) == /\ handler[o] = "running" /\ chan[o].q # <<>>
             /\ Head(chan[o].q).kind \in {"pty_req", "window_change"}
             /\ ServerDies

\* `range requests' ends when the queue is closed and empty.
HandlerEnds(o) == /\ handler[o] = "running" /\ chan[o].q = <<>> /\ ~ chan[o].open
                  /\ handler' = [handler EXCEPT ![o] = "done"]
                  /\ UNCHANGED <<up, stalled, client, mux, table, made, chan, openq,
                                 globq, unread, acc, hist>>

\* closeChannel, at the end of a copy
CloseChannel(o) ==
  /\ handler[o] # "none" /\ Writable(o) /\ Sendable(o)
  /\ chan' = [chan EXCEPT ![o].sentClose = TRUE]
  /\ Deliver(o, Closed(chan[o].rid))
  /\ UNCHANGED <<up, stalled, mux, table, made, openq, globq, unread, acc, handler,
                 sent, answers, panicked>>

-----------------------------------------------------------------------------
Client == \/ \E k \in Ids : \/ \E session \in BOOLEAN : Open(k, session)
                            \/ \E kind \in Kinds, want \in BOOLEAN : Request(k, kind, want)
                            \/ Answer(k)
                            \/ Close(k)
          \/ Global
          \/ GlobalAnswer
          \/ Leave
          \/ Stall

Loop == PutOpen \/ PutRequest \/ PutGlobal \/ PutAnswer \/ LoopEnds

Accepts == handleChannel \/ StartFails \/ \E o \in Chans : Reject(o) \/ Accept(o)

Next == \/ Client \/ Loop \/ handleRequests \/ Accepts
        \/ \E o \in Chans : Handle(o) \/ Panics(o) \/ HandlerEnds(o) \/ CloseChannel(o)

Spec == Init /\ [][Next]_vars

\* Goroutines run when they can.  Nothing is assumed of the client.
FairSpec == /\ Spec
            /\ WF_vars(Loop)
            /\ WF_vars(handleRequests)
            /\ WF_vars(Accepts)
            /\ \A o \in Chans : WF_vars(Handle(o)) /\ WF_vars(HandlerEnds(o))

-----------------------------------------------------------------------------
(* Properties *)

Req == [n : 1 .. MaxReqs, kind : Kinds, want : BOOLEAN]
ClientType == [st : {"free", "opening", "open", "closed"}, o : 0 .. MaxChans,
               lid : 0 .. MaxChans]
MuxType == [pc : {"read", "open", "request", "global", "answer", "ended"},
            o : 0 .. MaxChans, r : Req \cup {NoReq}]
ChanType == [rid : Ids \cup {0}, lid : 0 .. MaxChans, session : BOOLEAN,
             sentClose : BOOLEAN, open : BOOLEAN, q : Seq(Req)]

TypeClient == /\ up \in BOOLEAN /\ stalled \in BOOLEAN
              /\ client \in [Ids -> ClientType]
TypeTable == /\ table \in [Chans -> 0 .. MaxChans]
             /\ made \in 0 .. MaxChans
TypeChan == /\ chan \in [Chans -> ChanType]
            /\ \A o \in 1 .. made : chan[o].rid \in Ids /\ chan[o].lid \in Chans
            /\ \A o \in Chans : Len(chan[o].q) <= QueueCap
TypeQueues == /\ mux \in MuxType
              /\ openq \in Seq(Chans) /\ Len(openq) <= QueueCap
              /\ globq \in 0 .. QueueCap
              /\ unread \in [0 .. MaxChans -> Nat]
              /\ \A o \in 0 .. MaxChans : unread[o] <= AnswerCap(o)
TypeHandlers == /\ acc \in 0 .. MaxChans
                /\ handler \in [Chans -> {"none", "running", "done"}]
TypeHist == /\ sent \in [Chans -> Seq(Req)]
            /\ answers \in [Chans -> Seq(Req)]
            /\ stray \in BOOLEAN /\ panicked \in BOOLEAN

\* Type invariant; no queue is longer than its capacity.
TypeOK == /\ TypeClient /\ TypeTable /\ TypeChan
          /\ TypeQueues /\ TypeHandlers /\ TypeHist

\* Every packet reaches the channel it was sent for, although both ends give
\* out their numbers again while goroutines of closed channels still reply.
PacketsReachTheirChannel == ~ stray

\* `close of closed channel' and `send on closed channel' never happen: the
\* loop closes a channel's queue once, whether the client closes it or leaves.
QueuesCloseOnce == ~ panicked

Pending(o) == chan[o].q \o (IF mux.pc = "request" /\ mux.o = o THEN <<mux.r>> ELSE <<>>)

\* How many of the requests on o are neither queued nor in the loop's hands any more
Served(o) == Len(sent[o]) - Len(Pending(o))

\* What is pending on o are the last requests sent, and what has been answered are
\* those before them that the goroutine answers, in the order they were sent.
InOrder(o) ==
  /\ Served(o) \in Nat
  /\ \A i \in 1 .. Len(Pending(o)) : Pending(o)[i] = sent[o][Served(o) + i]
  /\ {answers[o][i] : i \in 1 .. Len(answers[o])} =
       {r \in {sent[o][i] : i \in 1 .. Served(o)} : Answered(r)}
  /\ \A i, j \in 1 .. Len(answers[o]) : i < j => answers[o][i].n < answers[o][j].n

\* As long as a channel is open the requests its goroutine answers are answered
\* in the order they were sent, none twice, and those not answered yet are still
\* queued.
AnsweredInOrder == \A o \in Chans : up /\ Writable(o) => InOrder(o)

\* The client has answered requests the server has not made until there is no room.
Unasked == mux.pc = "answer" /\ unread[mux.o] = AnswerCap(mux.o)

\* The loop does not stay blocked on a full queue, whatever the client has sent
\* ahead and whichever channels have been closed, but in two cases: the queue is
\* one that nobody reads, or those who would empty it wait to write for good.
LoopGoesOn == (mux.pc \in {"open", "request", "global", "answer"})
                ~> (mux.pc \in {"read", "ended"} \/ Unasked \/ stalled)

\* channel.go: Reply "must be called for all requests where WantReply is true":
\* the client, which gets nothing but answers and their order, has the i-th
\* answer for the i-th request that wants one.  Violated: requests of other types
\* are passed over, and the answer to the next one is taken for theirs.
AnswersMatch ==
  \A o \in Chans : IsPrefix(answers[o], SelectSeq(sent[o], LAMBDA r : r.want))
=============================================================================
