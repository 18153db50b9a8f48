----------------------------- MODULE MCBastion -----------------------------
(* Bastion on a small instance.  Names and passwords are interchangeable.  The
   target `both', one with wildcards in it, is like either container. *)
EXTENDS Bastion, TLC

CONSTANTS c1, c2, first, both

MCLike == {<<first, c1>>, <<both, c1>>, <<both, c2>>}

\* Bound: with three accounts over time one grant or one login, with two of them two
\* grants and a login
Few == 2 * Cardinality(creds) + Cardinality(containers)
         + Cardinality({s \in Conns : conns[s].pc # "idle"}) <= 7

Symmetry == Permutations(Names) \cup Permutations(Passwords)
=============================================================================
