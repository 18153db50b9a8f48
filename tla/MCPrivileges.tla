--------------------------- MODULE MCPrivileges ---------------------------
(* Privileges on its own, without a daemon: the smallest instance in which an id
   is used again while a tab remembers it.  MCBastion has the larger one. *)
EXTENDS Privileges

CONSTANTS c1, t1

MCLike == {<<t1, c1>>}
=============================================================================
