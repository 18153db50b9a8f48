----------------------------- MODULE MCSession -----------------------------
(* Session with small counts: more output than the window and the terminal
   hold together, and more than one chunk of input. *)
EXTENDS Session
=============================================================================
