------------------------------ MODULE Session ------------------------------
(* One session channel of an SSH connection, from its acceptance to its end:
   `docker exec' on a pseudo-terminal, the two goroutines that copy between the
   terminal and the channel, closeChannel behind a sync.Once, the channel of
   golang.org/x/crypto/ssh with its flow control, and a client that types,
   sends EOF, closes, or goes away at any moment.

   Data are counted in chunks, one chunk per read.  Requests on the channel
   (pty-req, shell, window-change, env) are handled by another goroutine and do
   not touch this state. *)
EXTENDS Naturals

CONSTANTS MaxOut,   \* bound: chunks the shell writes
          MaxIn,    \* bound: chunks the client types
          TtyCap,   \* chunks the terminal holds in each direction
          Window    \* chunks the client lets the server send ahead

ASSUME SessionAssumption == /\ MaxOut \in Nat
                            /\ MaxIn \in Nat
                            /\ TtyCap \in Nat \ {0}
                            /\ Window \in Nat \ {0}

VARIABLES shell,      \* the process `docker exec'
          ttyOut,     \* written by the shell, not read from the terminal
          ttyIn,      \* written to the terminal, not read by the shell
          out,        \* goroutine cp(channel, fp)
          in,         \* goroutine cp(fp, channel)
          once,       \* sync.Once of closeChannel
          pending,    \* c.pending: received, not read
          eof,        \* c.pending.closed
          sentClose,  \* c.sentClose
          win,        \* c.remoteWin.win
          removed,    \* c.close() has run: remoteWin closed
          client,     \* what the client has done last
          \* history
          wrote, got, \* chunks the shell has written, and sent to the client
          typed, fed, \* chunks the client has typed, and put into the terminal
          last        \* "none", "close": the close message has been sent,
                      \* "more": and something after it

tty == <<shell, ttyOut, ttyIn>>
copies == <<out, in, once>>
chan == <<pending, eof, sentClose, win, removed, client>>
hist == <<wrote, got, typed, fed, last>>
vars == <<tty, copies, chan, hist>>

Init == /\ shell = "none" /\ ttyOut = 0 /\ ttyIn = 0
        /\ out = "off" /\ in = "off" /\ once = "no"
        /\ pending = 0 /\ eof = FALSE /\ sentClose = FALSE
        /\ win = Window /\ removed = FALSE /\ client = "open"
        /\ wrote = 0 /\ got = 0 /\ typed = 0 /\ fed = 0
        /\ last = "none"

-----------------------------------------------------------------------------
(* The channel *)

\* Mutant: no check in writePacket
Writable_always == TRUE

\* writePacket refuses everything after the close message.
Writable == ~ sentClose

Sent == last' = IF last = "none" THEN "none" ELSE "more"

\* A packet other than close, if it goes out at all.
SendPacket == IF Writable THEN Sent ELSE UNCHANGED last

\* channel.Close(), and the loop's answer to the client's close
SendClose == /\ sentClose' = TRUE
             /\ last' = IF ~ Writable THEN last
                        ELSE IF last = "none" THEN "close" ELSE "more"

-----------------------------------------------------------------------------
(* handleChannel *)

Start == /\ shell = "none"
         /\ shell' = "running"
         /\ out' = "read" /\ in' = "read"
         /\ UNCHANGED <<ttyOut, ttyIn, once, chan, hist>>

\* pty.Start fails: closeChannel closes the channel and dereferences the nil
\* Process, which ends the whole server.
StartFails == /\ shell = "none"
              /\ shell' = "crashed"
              /\ SendClose
              /\ UNCHANGED <<ttyOut, ttyIn, copies, pending, eof, win, removed,
                             client, wrote, got, typed, fed>>

\* io.Copy(channel, fp) reads.
OutRead == /\ out = "read" /\ ttyOut > 0
           /\ ttyOut' = ttyOut - 1
           /\ out' = "write"
           /\ UNCHANGED <<shell, ttyIn, in, once, chan, hist>>

\* Mutant: the copy ends with the process, not with its output.
OutEOF_atExit == /\ out = "read" /\ shell \in {"exited", "reaped"}
                 /\ out' = "end"
                 /\ UNCHANGED <<tty, in, once, chan, hist>>

\* The terminal has been closed by the process and everything has been read.
OutEOF == /\ out = "read" /\ ttyOut = 0 /\ shell \in {"exited", "reaped"}
          /\ out' = "end"
          /\ UNCHANGED <<tty, in, once, chan, hist>>

\* WriteExtended waits for window space; reserve fails once the window is
\* closed, writePacket after a close message or on a dead connection.
OutWrite == /\ out = "write"
            /\ win > 0 \/ removed
            /\ IF removed \/ ~ Writable \/ client = "gone"
               THEN /\ out' = "end"
                    /\ UNCHANGED <<got, last>>
               ELSE /\ out' = "read"
                    /\ got' = got + 1
                    /\ Sent
            /\ win' = IF win > 0 THEN win - 1 ELSE 0
            /\ UNCHANGED <<tty, in, once, pending, eof, sentClose, removed, client,
                           wrote, typed, fed>>

\* io.Copy(fp, channel) reads and gives the client its window back.  If that
\* fails for another reason than io.EOF the chunk is the last one.
InRead == /\ in = "read" /\ pending > 0
          /\ pending' = pending - 1
          /\ in' \in IF client = "gone" THEN {"write", "lastwrite"} ELSE {"write"}
          /\ SendPacket
          /\ UNCHANGED <<tty, out, once, eof, sentClose, win, removed, client,
                         wrote, got, typed, fed>>

\* Mutant: buffer.Read looks at closed before it looks for data.
InEOF_first == /\ in = "read" /\ eof
               /\ in' = "end"
               /\ UNCHANGED <<tty, out, once, chan, hist>>

\* buffer.Read reports EOF when nothing is left.
InEOF == /\ in = "read" /\ pending = 0 /\ eof
         /\ in' = "end"
         /\ UNCHANGED <<tty, out, once, chan, hist>>

\* The terminal takes the chunk when it has room, and fails when the process has
\* closed it.
InWrite == /\ in \in {"write", "lastwrite"}
           /\ \/ /\ shell = "running" /\ ttyIn < TtyCap
                 /\ ttyIn' = ttyIn + 1
                 /\ fed' = fed + 1
                 /\ in' = IF in = "write" THEN "read" ELSE "end"
              \/ /\ shell \in {"exited", "reaped"}
                 /\ in' = "end"
                 /\ UNCHANGED <<ttyIn, fed>>
           /\ UNCHANGED <<shell, ttyOut, out, once, chan, wrote, got, typed, last>>

\* once.Do(closeChannel): the first runs it, the second waits until it is done.
Do(pc) == \/ once = "no" /\ once' = "running" /\ pc' = "close"
          \/ once = "done" /\ UNCHANGED once /\ pc' = "done"

OutEnds == /\ out = "end" /\ Do(out)
           /\ UNCHANGED <<tty, in, chan, hist>>

InEnds == /\ in = "end" /\ Do(in)
          /\ UNCHANGED <<tty, out, chan, hist>>

\* channel.Close()
CloseChannel == /\ \/ out = "close" /\ out' = "wait" /\ UNCHANGED in
                   \/ in = "close" /\ in' = "wait" /\ UNCHANGED out
                /\ SendClose
                /\ UNCHANGED <<tty, once, pending, eof, win, removed, client,
                               wrote, got, typed, fed>>

\* Mutant: closeChannel does not wait for the process.
Wait_not == /\ \/ out = "wait" /\ out' = "done" /\ UNCHANGED in
               \/ in = "wait" /\ in' = "done" /\ UNCHANGED out
            /\ once' = "done"
            /\ UNCHANGED <<tty, chan, hist>>

\* cmd.Process.Wait()
Wait == /\ shell = "exited"
        /\ shell' = "reaped"
        /\ \/ out = "wait" /\ out' = "done" /\ UNCHANGED in
           \/ in = "wait" /\ in' = "done" /\ UNCHANGED out
        /\ once' = "done"
        /\ UNCHANGED <<ttyOut, ttyIn, chan, hist>>

-----------------------------------------------------------------------------
(* The process: a shell, which may exit whenever it likes *)

ShellWrites == /\ shell = "running" /\ ttyOut < TtyCap /\ wrote < MaxOut
               /\ ttyOut' = ttyOut + 1
               /\ wrote' = wrote + 1
               /\ UNCHANGED <<shell, ttyIn, copies, chan, got, typed, fed, last>>

ShellReads == /\ shell = "running" /\ ttyIn > 0
              /\ ttyIn' = ttyIn - 1
              /\ UNCHANGED <<shell, ttyOut, copies, chan, hist>>

ShellExits == /\ shell = "running"
              /\ shell' = "exited"
              /\ UNCHANGED <<ttyOut, ttyIn, copies, chan, hist>>

-----------------------------------------------------------------------------
(* The client, and what the mux loop does with its packets *)

Up == shell # "crashed"

ClientTypes == /\ Up /\ client = "open" /\ ~ removed /\ typed < MaxIn
               /\ pending' = pending + 1
               /\ typed' = typed + 1
               /\ UNCHANGED <<tty, copies, eof, sentClose, win, removed, client,
                              wrote, got, fed, last>>

ClientEOF == /\ Up /\ client = "open"
             /\ client' = "eof"
             /\ eof' = TRUE
             /\ UNCHANGED <<tty, copies, pending, sentClose, win, removed, hist>>

\* Mutant: window given back twice
ClientReads_twice == /\ Up /\ client \in {"open", "eof"} /\ win < Window
                     /\ win' = win + 2
                     /\ UNCHANGED <<tty, copies, pending, eof, sentClose, removed,
                                    client, hist>>

\* The client has read and gives window back.
ClientReads == /\ Up /\ client \in {"open", "eof"} /\ win < Window
               /\ win' = win + 1
               /\ UNCHANGED <<tty, copies, pending, eof, sentClose, removed, client, hist>>

\* The client's close message, of its own accord or in answer: answered if that
\* has not been done, and the channel is forgotten.
ClientCloses == /\ Up /\ client \in {"open", "eof"}
                /\ client' = "closed"
                /\ SendClose
                /\ eof' = TRUE /\ removed' = TRUE
                /\ UNCHANGED <<tty, copies, pending, win, wrote, got, typed, fed>>

ClientLeaves == /\ Up /\ client # "gone"
                /\ client' = "gone"
                /\ UNCHANGED <<tty, copies, pending, eof, sentClose, win, removed, hist>>

\* The mux loop ends and closes the connection's channels.
LoopEnds == /\ Up /\ client = "gone" /\ ~ removed
            /\ eof' = TRUE /\ removed' = TRUE /\ sentClose' = TRUE
            /\ UNCHANGED <<tty, copies, pending, win, client, hist>>

-----------------------------------------------------------------------------
Server == \/ Start \/ StartFails
          \/ OutRead \/ OutEOF \/ OutWrite \/ OutEnds
          \/ InRead \/ InEOF \/ InWrite \/ InEnds
          \/ CloseChannel \/ Wait
          \/ LoopEnds

Client == \/ ClientTypes \/ ClientEOF \/ ClientReads \/ ClientCloses \/ ClientLeaves

Next == Server \/ Client \/ ShellWrites \/ ShellReads \/ ShellExits

Spec == Init /\ [][Next]_vars

\* Goroutines run when they can.  Nothing makes the shell exit, or the client read,
\* type, close or leave.
FairSpec == /\ Spec
            /\ WF_vars(OutRead \/ OutEOF \/ OutWrite \/ OutEnds)
            /\ WF_vars(InRead \/ InEOF \/ InWrite \/ InEnds)
            /\ WF_vars(CloseChannel)
            /\ WF_vars(Wait)
            /\ WF_vars(LoopEnds)

-----------------------------------------------------------------------------
(* Properties *)

\* Type invariant
TypeOK ==
  /\ shell \in {"none", "running", "exited", "reaped", "crashed"}
  /\ ttyOut \in 0 .. TtyCap /\ ttyIn \in 0 .. TtyCap
  /\ out \in {"off", "read", "write", "end", "close", "wait", "done"}
  /\ in \in {"off", "read", "write", "lastwrite", "end", "close", "wait", "done"}
  /\ once \in {"no", "running", "done"}
  /\ pending \in 0 .. MaxIn /\ eof \in BOOLEAN /\ sentClose \in BOOLEAN
  /\ win \in 0 .. Window /\ removed \in BOOLEAN
  /\ client \in {"open", "eof", "closed", "gone"}
  /\ wrote \in 0 .. MaxOut /\ got \in 0 .. MaxOut
  /\ typed \in 0 .. MaxIn /\ fed \in 0 .. MaxIn
  /\ last \in {"none", "close", "more"}

\* The server closes a channel on its own account only after everything the
\* shell has written has been sent: two copies, either of which may close the
\* channel, and the client's flow control in between.  Not so for a client that
\* has sent EOF, or has typed something the shell did not wait for: input that
\* meets a closed terminal ends its copy, and the output still to be read is
\* lost with the channel.
OutputBeforeClose ==
  last # "none" /\ client = "open" /\ fed = typed => got = wrote

\* Channel.Close: "No data may be sent after this call."  The close message is
\* the last one of the channel and is sent once, though
\* both copies, closeChannel and the mux loop send on it.
CloseIsLast == last # "more"

\* What the client typed before EOF or close reaches the shell: the copy ends
\* early only if the process has ended or the connection was lost.
InputBeforeEOF ==
  in \in {"end", "close", "wait", "done"} /\ shell = "running" /\ client # "gone"
    => fed = typed

\* The client is there, has stopped reading and says nothing more: one copy waits
\* for window space, the other for input, neither with a deadline.
ClientIsSilent == /\ client = "open"
                  /\ out = "write" /\ win = 0
                  /\ in = "read" /\ pending = 0

\* A process that exits is reaped, whatever the client does meanwhile and whichever
\* copy is blocked, unless the client stays for good without reading or saying
\* anything: only then does neither copy get to closeChannel (sshd.go:179-184 and
\* the window of WriteExtended).
ExitedIsReaped == <>[](shell = "exited") => <>[]ClientIsSilent

\* closeChannel waits for "docker exec" to exit and logs "failed to exit docker
\* exec" if it does not: a session whose client has gone ends.  Violated: the
\* terminal is never closed, so that nothing tells the shell.
SessionsEnd == (shell = "running" /\ removed) ~> (shell \in {"reaped", "crashed"})
=============================================================================
