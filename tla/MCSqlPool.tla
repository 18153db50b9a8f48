----------------------------- MODULE MCSqlPool -----------------------------
(* Three requests on at most three connections, of which the pool keeps one:
   a reader that is in the way of a COMMIT, the DeleteUser that fails, and a
   request that gets its connection. *)
EXTENDS SqlPool
=============================================================================
