------------------------------ MODULE MCAdmin ------------------------------
(* One process that is always started again, a second one started once, two
   faults, one browser. *)
EXTENDS Admin
=============================================================================
