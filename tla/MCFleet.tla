------------------------------ MODULE MCFleet ------------------------------
(* Fleet on a small instance: two containers, one of which a list may contain
   and the other may be too young for it, and two requests at a time. *)
EXTENDS Fleet
=============================================================================
