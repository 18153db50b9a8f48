--------------------------- MODULE MCConnection ---------------------------
(* Connection on a small instance: queues of one, two channels and two numbers
   at either end, so that a number is used again while the other is kept. *)
EXTENDS Connection
=============================================================================
