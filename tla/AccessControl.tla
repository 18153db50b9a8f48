--------------------------- MODULE AccessControl ---------------------------
(* What the users, the grants and the logins of docker-bastion amount to, with
   no tables, ids, pages or queries: accounts come and go for good, each has
   containers given to it and taken from it one at a time, and a session is let
   in by what its account has at that moment.  It asks with a target, which may be
   like several containers, and any of them that its account has will do.

   Two exceptions are part of the promise, as the program makes them: a grant may
   be given to an account that has gone (a stray), and a stray lets in whoever
   has got the account's id; and an account that goes while it is logging in may
   still get in. *)

CONSTANTS Accounts, NoAccount, Cids, Targets, Like, NoCid, Sessions

VARIABLES members,  \* the accounts that exist
          acl,      \* pairs <<account, container>>
          strays,   \* containers granted to accounts that do not exist
          inside    \* who is in by which target in each session

vars == <<members, acl, strays, inside>>

Nobody == <<NoAccount, NoCid>>

Init == /\ members = {}
        /\ acl = {}
        /\ strays = {}
        /\ inside = [s \in Sessions |-> Nobody]

Join(a) == /\ a \notin members
           /\ members' = members \cup {a}
           /\ UNCHANGED <<acl, strays, inside>>

\* An account goes with all it has, and nothing is left for others to find.
Leave(a) == /\ members' = members \ {a}
            /\ acl' = {g \in acl : g[1] # a}
            /\ strays' \subseteq strays
            /\ UNCHANGED inside

Give(a, c) == /\ a \in members
              /\ acl' = acl \cup {<<a, c>>}
              /\ UNCHANGED <<members, strays, inside>>

GiveStray(c) == /\ strays' = strays \cup {c}
                /\ UNCHANGED <<members, acl, inside>>

Take(a, c) == /\ acl' = acl \ {<<a, c>>}
              /\ UNCHANGED <<members, strays, inside>>

TakeStrays == /\ strays' \subseteq strays
              /\ UNCHANGED <<members, acl, inside>>

\* The containers C are gone and with them everything about them.
Forget(C) == /\ acl' = {g \in acl : g[2] \notin C}
             /\ strays' = strays \ C
             /\ UNCHANGED <<members, inside>>

\* The containers that t is like
Named(t) == {c \in Cids : <<t, c>> \in Like}

Enter(s, a, t) == /\ inside[s] = Nobody
                  /\ \/ a \notin members
                     \/ \E c \in Named(t) : <<a, c>> \in acl \/ c \in strays
                  /\ inside' = [inside EXCEPT ![s] = <<a, t>>]
                  /\ UNCHANGED <<members, acl, strays>>

\* Any number of sessions ends.
Exit(S) == /\ inside' = [s \in Sessions |-> IF s \in S THEN Nobody ELSE inside[s]]
           /\ UNCHANGED <<members, acl, strays>>

Next == \/ TakeStrays
        \/ \E a \in Accounts : Join(a) \/ Leave(a)
        \/ \E a \in Accounts, c \in Cids : Give(a, c) \/ Take(a, c)
        \/ \E c \in Cids : GiveStray(c)
        \/ \E C \in SUBSET Cids : Forget(C)
        \/ \E s \in Sessions, a \in Accounts, t \in Targets : Enter(s, a, t)
        \/ \E S \in SUBSET Sessions : Exit(S)

Spec == Init /\ [][Next]_vars
=============================================================================
