----------------------------- MODULE Transport -----------------------------
(***************************************************************************)
(* The server's handshakeTransport (golang.org/x/crypto/ssh): the mutex    *)
(* and the condition all writers of a connection share, the read loop that *)
(* exchanges keys, and the queue between it and the mux loop, which is a   *)
(* writer too.  Keys and ciphers are left out; when enough bytes have gone *)
(* by for the server to want new keys is left open.                        *)
(***************************************************************************)
EXTENDS Integers, Sequences

CONSTANTS
  Writers,    \* the goroutines that write
  Loop,       \* the mux loop, one of them
  Takers,     \* those who take what the loop hands on, and write an answer:
              \* handleChannels and the goroutines that answer requests
  Nobody,     \* the mutex is free; or a queue is read by nobody
  Cap,        \* packets in the queue `incoming' (16)
  QueueCap,   \* what each queue of the loop's own holds (16)
  MaxFlight,  \* bound: the client's packets under way
  MaxKex      \* bound: key exchanges either side begins

ASSUME TransportAssumption ==
  /\ Loop \in Writers /\ Nobody \notin Writers
  /\ Takers \subseteq Writers \ {Loop}
  /\ Cap \in Nat \ {0} /\ QueueCap \in Nat \ {0}
  /\ MaxFlight \in Nat \ {0} /\ MaxKex \in Nat

VARIABLES
  mu,         \* who holds handshakeTransport.mu
  sentInit,   \* sentInitMsg # nil: our KEXINIT is out, the exchange not over
  writeError, \* the exchange has failed
  writer,     \* where every writer is in writePacket
  reader,     \* where readLoop is
  got,        \* the packet it has read, "data" when it has none
  incoming,   \* the queue to the mux loop
  queue,      \* how much the loop has handed to every taker and he has not taken
  dest,       \* the taker the packet in the loop's hands is for
  flight,     \* what the client has sent and we have not read
  client,     \* where the client is in an exchange
  open,       \* the connection
  inits       \* KEXINITs so far [server, client]

shared == <<mu, sentInit, writeError>>
theirs == <<flight, client>>
passed == <<queue, dest>>
vars == <<shared, writer, reader, got, incoming, passed, theirs, open, inits>>

\* What the mux loop does with a packet: buffer or ignore it, answer it itself (a
\* close), or put it into a queue (a request, the opening of a channel; the answer to
\* a request, of which the server makes none, goes into a queue that nobody reads).
Plain == {"data", "close", "item"}

Init ==
  /\ mu = Nobody
  /\ sentInit = FALSE
  /\ writeError = FALSE
  /\ writer = [w \in Writers |-> "idle"]
  /\ reader = "read"
  /\ got = "data"
  /\ incoming = <<>>
  /\ queue = [w \in Takers |-> 0]
  /\ dest = Nobody
  /\ flight = <<>>
  /\ client = "plain"
  /\ open = TRUE
  /\ inits = [server |-> 1, client |-> 1]   \* the first exchange is over

-----------------------------------------------------------------------------
(* writePacket                                                              *)

\* A copy, or closeChannel
Call(w) ==
  /\ w \notin Takers \union {Loop}
  /\ writer[w] = "idle"
  /\ writer' = [writer EXCEPT ![w] = "lock"]
  /\ UNCHANGED <<shared, reader, got, incoming, theirs, passed, open, inits>>

\* sendKexInitLocked, because enough has been written; an error is ignored.
WantKeys ==
  /\ ~sentInit /\ open
  /\ inits.server < MaxKex
  /\ sentInit' = TRUE
  /\ inits' = [inits EXCEPT !.server = @ + 1]

\* With the mutex held: wait for the exchange to end, return the error of one
\* that has failed, or write. The return does not unlock the mutex.
Proceed(w) ==
  IF sentInit'
    THEN /\ writer' = [writer EXCEPT ![w] = "waiting"]
         /\ UNCHANGED mu
    ELSE /\ writer' = [writer EXCEPT ![w] = IF writeError THEN "idle" ELSE "write"]
         /\ mu' = w

Enter(w) ==
  /\ writer[w] = "lock"
  /\ mu = Nobody
  /\ WantKeys \/ UNCHANGED <<sentInit, inits>>
  /\ Proceed(w)
  /\ UNCHANGED <<writeError, reader, got, incoming, theirs, passed, open>>

\* Mutant: `if' for `for' around cond.Wait.
Woken_once(w) ==
  /\ writer[w] = "woken"
  /\ mu = Nobody
  /\ writer' = [writer EXCEPT ![w] = IF writeError THEN "idle" ELSE "write"]
  /\ mu' = w
  /\ UNCHANGED <<sentInit, writeError, reader, got, incoming, theirs, passed>>
  /\ UNCHANGED <<open, inits>>

\* cond.Wait has the mutex again; another exchange may have begun meanwhile.
Woken(w) ==
  /\ writer[w] = "woken"
  /\ mu = Nobody
  /\ UNCHANGED sentInit
  /\ Proceed(w)
  /\ UNCHANGED <<writeError, reader, got, incoming, theirs, passed, open, inits>>

Written(w) ==
  /\ writer[w] = "write"
  /\ writer' = [writer EXCEPT ![w] = "idle"]
  /\ mu' = Nobody
  /\ UNCHANGED <<sentInit, writeError, reader, got, incoming, theirs, passed>>
  /\ UNCHANGED <<open, inits>>

-----------------------------------------------------------------------------
(* readLoop and readOnePacket                                               *)

\* Enough has been read for new keys.
RequestKeyChange ==
  /\ reader = "read"
  /\ mu = Nobody
  /\ WantKeys
  /\ UNCHANGED <<mu, writeError, writer, reader, got, incoming, theirs, passed, open>>

Read ==
  /\ reader = "read"
  /\ flight # <<>>
  /\ got' = Head(flight)
  /\ flight' = Tail(flight)
  /\ reader' = IF got' = "kexinit" THEN "enter" ELSE "put"
  /\ UNCHANGED <<shared, writer, incoming, passed, client, open, inits>>

\* readLoop ends; what waits for the exchange is not told.
ReadFails ==
  /\ reader = "read"
  /\ ~open
  /\ reader' = "ended"
  /\ UNCHANGED <<shared, writer, got, incoming, theirs, passed, open, inits>>

\* Mutant: a queue without a capacity.
PutPacket_always ==
  /\ reader = "put"
  /\ incoming' = Append(incoming, got)
  /\ got' = "data"
  /\ reader' = "read"
  /\ UNCHANGED <<shared, writer, theirs, passed, open, inits>>

\* The queue may be full.
PutPacket ==
  /\ reader = "put"
  /\ Len(incoming) < Cap
  /\ incoming' = Append(incoming, got)
  /\ got' = "data"
  /\ reader' = "read"
  /\ UNCHANGED <<shared, writer, theirs, passed, open, inits>>

\* Mutant: an exchange begins only when we have not asked for one ourselves.
EnterExchange_waits ==
  /\ reader = "enter"
  /\ mu = Nobody
  /\ ~sentInit
  /\ sentInit' = TRUE
  /\ inits' = [inits EXCEPT !.server = @ + 1]
  /\ reader' = "dh"
  /\ UNCHANGED <<mu, writeError, writer, got, incoming, theirs, passed, open>>

\* enterKeyExchange: our KEXINIT, unless it is out already.
EnterExchange ==
  /\ reader = "enter"
  /\ mu = Nobody
  /\ sentInit' = TRUE
  /\ inits' = IF sentInit THEN inits ELSE [inits EXCEPT !.server = @ + 1]
  /\ reader' = "dh"
  /\ UNCHANGED <<mu, writeError, writer, got, incoming, theirs, passed, open>>

\* kex.Server reads the client's part, and then writes to the connection,
\* without the mutex, its own and NEWKEYS; then it waits for the client's.
ReadKex(at, packet, next) ==
  /\ reader = at
  /\ flight # <<>> /\ Head(flight) = packet
  /\ flight' = Tail(flight)
  /\ reader' = next
  /\ UNCHANGED <<shared, writer, got, incoming, passed, client, open, inits>>

WriteKex ==
  /\ reader = "reply"
  /\ reader' = "newkeys"
  /\ UNCHANGED <<shared, writer, got, incoming, theirs, passed, open, inits>>

\* No common algorithms, a signature that is wrong, or the connection is lost.
ExchangeFails ==
  /\ reader \in {"enter", "dh", "reply", "newkeys"}
  /\ reader' = "failed"
  /\ UNCHANGED <<shared, writer, got, incoming, theirs, passed, open, inits>>

Broadcast ==
  writer' = [w \in Writers |-> IF writer[w] = "waiting" THEN "woken" ELSE writer[w]]

\* Mutant: cond.Signal for cond.Broadcast.
Unblock_one ==
  /\ mu = Nobody
  /\ sentInit' = FALSE
  /\ \/ \E w \in Writers : /\ writer[w] = "waiting"
                          /\ writer' = [writer EXCEPT ![w] = "woken"]
     \/ (\A w \in Writers : writer[w] # "waiting") /\ UNCHANGED writer
  /\ UNCHANGED <<mu, theirs, incoming, passed, inits>>

\* Unblock writers.
Unblock ==
  /\ mu = Nobody
  /\ sentInit' = FALSE
  /\ Broadcast
  /\ UNCHANGED <<mu, theirs, incoming, passed, inits>>

\* The mux loop is told with a NEWKEYS packet, which it ignores.
ExchangeEnds ==
  /\ reader = "done"
  /\ Unblock
  /\ got' = "data"
  /\ reader' = "put"
  /\ UNCHANGED <<writeError, open>>

Abort ==
  /\ reader = "failed"
  /\ Unblock
  /\ writeError' = TRUE
  /\ open' = FALSE
  /\ reader' = "ended"
  /\ UNCHANGED got

-----------------------------------------------------------------------------
(* mux.loop and those who empty its queues; when `incoming' is closed the loop  *)
(* closes a connection that is lost.                                        *)

\* Where a packet takes the loop, and whom it is for
Handled(packet) ==
  \/ packet = "close" /\ writer' = [writer EXCEPT ![Loop] = "lock"] /\ UNCHANGED dest
  \/ /\ packet = "item"
     /\ writer' = [writer EXCEPT ![Loop] = "hand"]
     /\ dest' \in Takers \union {Nobody}
  \/ packet = "data" /\ UNCHANGED <<writer, dest>>

Take ==
  /\ writer[Loop] = "idle"
  /\ incoming # <<>>
  /\ incoming' = Tail(incoming)
  /\ Handled(Head(incoming))
  /\ UNCHANGED <<shared, reader, got, queue, theirs, open, inits>>

\* The queue it is for may be full; the loop waits.
HandOver ==
  /\ writer[Loop] = "hand"
  /\ dest \in Takers /\ queue[dest] < QueueCap
  /\ queue' = [queue EXCEPT ![dest] = @ + 1]
  /\ dest' = Nobody
  /\ writer' = [writer EXCEPT ![Loop] = "idle"]
  /\ UNCHANGED <<shared, reader, got, incoming, theirs, open, inits>>

\* Accept, Reject or Reply, or a request that is not answered
Serve(w) ==
  /\ w \in Takers
  /\ writer[w] = "idle"
  /\ queue[w] > 0
  /\ queue' = [queue EXCEPT ![w] = @ - 1]
  /\ \E place \in {"idle", "lock"} : writer' = [writer EXCEPT ![w] = place]
  /\ UNCHANGED <<shared, reader, got, incoming, dest, theirs, open, inits>>

-----------------------------------------------------------------------------
(* The client: nothing but the exchange between its KEXINIT and NEWKEYS.    *)

Send(packet, from, to) ==
  /\ open
  /\ client = from
  /\ Len(flight) < MaxFlight
  /\ flight' = Append(flight, packet)
  /\ client' = to
  /\ UNCHANGED <<shared, writer, reader, got, incoming, passed, open>>

ClientSends == \E p \in Plain : Send(p, "plain", "plain") /\ UNCHANGED inits

ClientInit ==
  /\ inits.client < inits.server \/ inits.client < MaxKex
  /\ Send("kexinit", "plain", "init")
  /\ inits' = [inits EXCEPT !.client = @ + 1]

ClientKex == /\ inits.server >= inits.client
             /\ Send("dh", "init", "kex")
             /\ UNCHANGED inits

ClientNewKeys == /\ reader = "newkeys"
                 /\ Send("newkeys", "kex", "plain")
                 /\ UNCHANGED inits

ClientLeaves ==
  /\ open
  /\ open' = FALSE
  /\ UNCHANGED <<shared, writer, reader, got, incoming, passed, theirs, inits>>

-----------------------------------------------------------------------------
WriterNext(w) == Enter(w) \/ Woken(w) \/ Written(w)

ReaderNext ==
  \/ Read \/ ReadFails \/ PutPacket \/ EnterExchange
  \/ ReadKex("dh", "dh", "reply") \/ WriteKex \/ ReadKex("newkeys", "newkeys", "done")
  \/ ExchangeEnds \/ Abort

ClientAnswers ==
  (inits.client < inits.server /\ ClientInit) \/ ClientKex \/ ClientNewKeys

Next ==
  \/ \E w \in Writers : Call(w) \/ Serve(w) \/ WriterNext(w)
  \/ RequestKeyChange \/ ReaderNext \/ ExchangeFails \/ Take \/ HandOver
  \/ ClientSends \/ ClientInit \/ ClientKex \/ ClientNewKeys \/ ClientLeaves

Spec == Init /\ [][Next]_vars

\* Goroutines get on, and get the mutex in their turn; an exchange on a lost
\* connection fails; a client that stays reads what is written to it, answers our
\* KEXINIT and takes part.
FairSpec ==
  /\ Spec
  /\ \A w \in Writers : SF_vars(WriterNext(w))
  /\ SF_vars(ReaderNext \/ (~open /\ ExchangeFails))
  /\ WF_vars(Take \/ HandOver)
  /\ \A w \in Takers : WF_vars(Serve(w))
  /\ SF_vars(ClientAnswers)

-----------------------------------------------------------------------------
Packets == Plain \union {"kexinit", "dh", "newkeys"}

\* Types and bounds of the queues.
TypeOK ==
  /\ mu \in Writers \union {Nobody}
  /\ sentInit \in BOOLEAN /\ writeError \in BOOLEAN /\ open \in BOOLEAN
  /\ writer \in [Writers -> {"idle", "hand", "lock", "waiting", "woken", "write"}]
  /\ reader \in {"read", "put", "enter", "dh", "reply", "newkeys", "done", "failed",
                 "ended"}
  /\ got \in Packets
  /\ incoming \in Seq(Packets) /\ Len(incoming) <= Cap
  /\ queue \in [Takers -> 0 .. QueueCap] /\ dest \in Takers \union {Nobody}
  /\ flight \in Seq(Packets) /\ Len(flight) <= MaxFlight
  /\ client \in {"plain", "init", "kex"}
  /\ inits \in [server : Nat, client : Nat]

\* "All writes will be blocked until the change is done" (handshake.go:196): from
\* our KEXINIT to the end of the exchange nobody but the exchange, which takes no
\* lock for it, writes to the connection, and at other times one writer at most.
ExchangeIsAlone ==
  \A w \in Writers : writer[w] = "write" =>
    /\ ~sentInit
    /\ reader \notin {"dh", "reply", "newkeys", "done"}
    /\ \A v \in Writers : writer[v] = "write" => v = w

InWritePacket(w) == writer[w] \notin {"idle", "hand"}

\* The loop waits for the exchange itself, or for somebody to empty a queue who
\* waits for the exchange, or for nobody.
LoopWaits ==
  \/ writer[Loop] = "waiting"
  \/ writer[Loop] = "hand" /\ dest = Nobody
  \/ /\ writer[Loop] = "hand" /\ dest \in Takers
     /\ queue[dest] = QueueCap /\ writer[dest] = "waiting"

\* The three ways in which this transport can stop for good.
LoopStuck == LoopWaits /\ reader = "put" /\ Len(incoming) = Cap
Abandoned == reader = "ended" /\ sentInit
LockLost == mu # Nobody /\ writer[mu] # "write"

\* A writer comes back unless the mux loop waits for good with the queue in front
\* of it full, so that the client's KEXINIT is not read, the connection is lost
\* between the two KEXINITs (handshake.go:153-156 tells no one), or a writer has
\* returned the error of a failed exchange with the mutex held (handshake.go:262).
WritersEnd ==
  \A w \in Writers :
    InWritePacket(w) ~> ~InWritePacket(w) \/ LoopStuck \/ Abandoned \/ LockLost

\* An exchange the server has begun or joined ends, with new keys or with the
\* connection, unless the mux loop waits for good.
ExchangesEnd == sentInit ~> ~sentInit \/ Abandoned \/ LoopStuck
=============================================================================
