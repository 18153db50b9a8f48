---------------------------- MODULE SessionProofs ----------------------------
(* Proofs about Session, for every amount of output and input, every capacity
   of the terminal and every window. *)
EXTENDS Session, TLAPS

-----------------------------------------------------------------------------
(* The inductive invariant.  OutputBeforeClose alone does not say why a channel
   is closed.  The close message has a cause, one of the two copies or the
   client; a copy that has ended has a reason; and while a copy goes on, what it
   carries is accounted for. *)

Ended == {"end", "close", "wait", "done"}
Over == {"exited", "reaped"}

\* Everything the shell has written has been sent, is in the terminal, or is
\* the chunk the copy has in hand.
OutputKept ==
  /\ out \in {"off", "read"} => wrote = got + ttyOut
  /\ out = "write" => wrote = got + ttyOut + 1
  /\ shell \in {"none", "crashed"} => (wrote = 0 /\ got = 0 /\ out = "off")
  /\ got <= wrote

\* Likewise for what the client has typed.
InputKept ==
  /\ in \in {"off", "read"} => typed = fed + pending
  /\ in \in {"write", "lastwrite"} => typed = fed + pending + 1
  /\ in = "lastwrite" => client = "gone"
  /\ fed + pending <= typed

OutEnded ==
  out \in Ended => \/ (shell \in Over /\ got = wrote)
                  \/ in \in Ended
                  \/ client # "open"

InEnded ==
  in \in Ended => \/ (eof /\ typed = fed)
                 \/ (shell \in Over /\ fed < typed)
                 \/ client = "gone"

\* Only the client's own messages and its loss end what it sends.
ClosedBy ==
  /\ eof => client # "open"
  /\ removed => (client \in {"closed", "gone"} /\ eof /\ sentClose)

CloseHasCause ==
  /\ sentClose => \/ in \in {"wait", "done"}
                  \/ out \in {"wait", "done"}
                  \/ client \in {"closed", "gone"}
                  \/ shell = "crashed"
  /\ last # "none" => sentClose
  /\ last # "more"
  /\ shell \in {"none", "crashed"} => in = "off"
  /\ shell = "none" \/ shell = "crashed" \/ (in # "off" /\ out # "off")

IInv == /\ TypeOK
        /\ OutputKept
        /\ InputKept
        /\ OutEnded
        /\ InEnded
        /\ ClosedBy
        /\ CloseHasCause

\* The invariant holds whatever the goroutines, the shell and the client do.
THEOREM Accounting == Spec => []IInv
<1> USE SessionAssumption
<1>1. Init => IInv
  <2> SUFFICES ASSUME Init
               PROVE  IInv
    OBVIOUS
  <2> USE DEF IInv, TypeOK, OutputKept, InputKept, OutEnded, InEnded, ClosedBy,
              CloseHasCause, Ended, Over
  <2>1. eof \in BOOLEAN /\ sentClose \in BOOLEAN /\ removed \in BOOLEAN
    BY Zenon DEF Init
  <2>2. ~ eof /\ ~ sentClose /\ ~ removed
    BY Zenon DEF Init
  <2> QED
    BY <2>1, <2>2 DEF Init
<1>2. IInv /\ [Next]_vars => IInv'
  <2> SUFFICES ASSUME IInv, [Next]_vars
               PROVE  IInv'
    OBVIOUS
  <2> USE DEF IInv, TypeOK, OutputKept, InputKept, OutEnded, InEnded, ClosedBy,
              CloseHasCause, Ended, Over,
              tty, copies, chan, hist
  <2>1. CASE Start
    BY <2>1 DEF Start
  <2>2. CASE StartFails
    BY <2>2 DEF StartFails, SendClose, Writable
  <2>3. CASE OutRead
    BY <2>3 DEF OutRead
  <2>4. CASE OutEOF
    BY <2>4 DEF OutEOF
  <2>5. CASE OutWrite
    BY <2>5 DEF OutWrite, Writable, Sent
  <2>6. CASE OutEnds
    BY <2>6 DEF OutEnds, Do
  <2>7. CASE InRead
    BY <2>7 DEF InRead, SendPacket, Writable, Sent
  <2>8. CASE InEOF
    BY <2>8 DEF InEOF
  <2>9. CASE InWrite
    BY <2>9 DEF InWrite
  <2>10. CASE InEnds
    BY <2>10 DEF InEnds, Do
  <2>11. CASE CloseChannel
    BY <2>11 DEF CloseChannel, SendClose, Writable
  <2>12. CASE Wait
    BY <2>12 DEF Wait
  <2>13. CASE LoopEnds
    BY <2>13 DEF LoopEnds, Up
  <2>14. CASE ClientTypes
    BY <2>14 DEF ClientTypes, Up
  <2>15. CASE ClientEOF
    BY <2>15 DEF ClientEOF, Up
  <2>16. CASE ClientReads
    BY <2>16 DEF ClientReads, Up
  <2>17. CASE ClientCloses
    BY <2>17 DEF ClientCloses, SendClose, Writable, Up
  <2>18. CASE ClientLeaves
    BY <2>18 DEF ClientLeaves, Up
  <2>19. CASE ShellWrites
    BY <2>19 DEF ShellWrites
  <2>20. CASE ShellReads
    BY <2>20 DEF ShellReads
  <2>21. CASE ShellExits
    BY <2>21 DEF ShellExits
  <2>22. CASE UNCHANGED vars
    BY <2>22 DEF vars
  <2> QED
    BY <2>1, <2>2, <2>3, <2>4, <2>5, <2>6, <2>7, <2>8, <2>9, <2>10, <2>11,
       <2>12, <2>13, <2>14, <2>15, <2>16, <2>17, <2>18, <2>19, <2>20, <2>21, <2>22
       DEF Next, Server, Client
<1> QED
  BY <1>1, <1>2, PTL DEF Spec

-----------------------------------------------------------------------------
(* What follows from it *)

\* Counters, states and buffers keep their types and stay within their bounds.
THEOREM TypeCorrect == Spec => []TypeOK
<1>1. IInv => TypeOK
  BY DEF IInv
<1> QED
  BY <1>1, Accounting, PTL

\* Neither copy closes the channel on output that has not been sent.
THEOREM OutputIsSentBeforeClose == Spec => []OutputBeforeClose
<1>1. IInv => OutputBeforeClose
  BY SessionAssumption
     DEF IInv, TypeOK, OutputKept, InputKept, OutEnded, InEnded, ClosedBy,
         CloseHasCause, Ended, Over, OutputBeforeClose
<1> QED
  BY <1>1, Accounting, PTL

\* One close message, and nothing after it, from four senders.
THEOREM NothingAfterClose == Spec => []CloseIsLast
<1>1. IInv => CloseIsLast
  BY DEF IInv, CloseHasCause, CloseIsLast
<1> QED
  BY <1>1, Accounting, PTL

\* No input is dropped between the client and a running shell.
THEOREM InputIsDelivered == Spec => []InputBeforeEOF
<1>1. IInv => InputBeforeEOF
  BY SessionAssumption
     DEF IInv, TypeOK, InputKept, InEnded, Ended, Over, InputBeforeEOF
<1> QED
  BY <1>1, Accounting, PTL
=============================================================================
