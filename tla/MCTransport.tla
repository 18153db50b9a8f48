---------------------------- MODULE MCTransport ----------------------------
(* The mux loop, a goroutine it hands requests to and one other writer; queues of
   one, a packet under way, two exchanges of either side after the first. *)
EXTENDS Transport
=============================================================================
