------------------------------- MODULE Fleet -------------------------------
(* The containers of the docker daemon and the rows of the containers table
   about them.  The manager changes both without a transaction around the two:
   CreateContainer and DeleteContainer call the daemon and then the database,
   and a goroutine compares them every 30 seconds.  Other users of the daemon
   create, start, stop and remove containers too.

   The rows' own ids play no part here and are left out (see Privileges). *)
EXTENDS MetaStore

CONSTANTS Cids,      \* container ids; the daemon never gives one out twice
          Uids,      \* user ids
          OtherKeys, \* values of Grant's parameter that are no container id
          NoCid,     \* no container yet
          Reqs       \* POST and DELETE /api/containers requests under way

ASSUME FleetAssumption == /\ 0 \notin Uids
                          /\ Cids \cap OtherKeys = {}
                          /\ NoCid \notin Cids

VARIABLES daemon,  \* state of every container
          rows,    \* the containers table: rows [cid, user_id]
          reqs,    \* the handlers [pc, cid]
          ticker,  \* refreshContainers [pc, ids]
          fresh    \* history: containers created since the ticker's last list

vars == <<daemon, rows, reqs, ticker, fresh>>

NoUser == 0        \* user_id of the row CreateContainer inserts
Done == [pc |-> "idle", cid |-> NoCid]
Waiting == [pc |-> "wait", ids |-> {}]

States == {"unborn", "stopped", "running", "gone"}
Exists(c) == daemon[c] \in {"stopped", "running"}
Born(c) == daemon[c] # "unborn"

Init == /\ daemon \in [Cids -> {"unborn", "stopped", "running"}]
        /\ rows = {}
        /\ reqs = [q \in Reqs |-> Done]
        /\ ticker = Waiting
        /\ fresh = {}

Step(q, pc) == reqs' = [reqs EXCEPT ![q].pc = pc]
Finish(q) == reqs' = [reqs EXCEPT ![q] = Done]

-----------------------------------------------------------------------------
(* The daemon, used by others *)

Bear(c) == /\ daemon[c] = "unborn"
           /\ daemon' = [daemon EXCEPT ![c] = "stopped"]
           /\ fresh' = fresh \cup {c}

DockerCreate(c) == Bear(c) /\ UNCHANGED <<rows, reqs, ticker>>

DockerRun(c) == /\ Exists(c)
                /\ \E st \in {"stopped", "running", "gone"} \ {daemon[c]} :
                     daemon' = [daemon EXCEPT ![c] = st]
                /\ UNCHANGED <<rows, reqs, ticker, fresh>>

-----------------------------------------------------------------------------
(* POST /api/containers *)

PostContainer(q) ==
  /\ reqs[q].pc = "idle"
  /\ Step(q, "create")
  /\ UNCHANGED <<daemon, rows, ticker, fresh>>

\* The daemon creates the container and its answer arrives, or is lost and
\* the handler sees an error.
Created(q) ==
  /\ reqs[q].pc \in {"create", "recreate"}
  /\ \E c \in Cids :
       /\ Bear(c)
       /\ \/ reqs' = [reqs EXCEPT ![q] = [pc |-> "insert", cid |-> c]]
          \/ Finish(q)
  /\ UNCHANGED <<rows, ticker>>

\* The image is not there: it is pulled and the creation repeated, once.
ImageMissing(q) ==
  /\ \/ reqs[q].pc = "create" /\ Step(q, "pull")
     \/ reqs[q].pc = "recreate" /\ Finish(q)
  /\ UNCHANGED <<daemon, rows, ticker, fresh>>

Pulled(q) ==
  /\ reqs[q].pc = "pull"
  /\ Step(q, "recreate")
  /\ UNCHANGED <<daemon, rows, ticker, fresh>>

\* Mutant: the error is logged and the handler goes on, without a container.
CreateFails_goesOn(q) ==
  /\ reqs[q].pc \in {"create", "pull", "recreate"}
  /\ Step(q, "insert")
  /\ UNCHANGED <<daemon, rows, ticker, fresh>>

\* The daemon cannot be reached, refuses (the name is taken) or cannot pull.
CreateFails(q) ==
  /\ reqs[q].pc \in {"create", "pull", "recreate"}
  /\ Finish(q)
  /\ UNCHANGED <<daemon, rows, ticker, fresh>>

\* The dashboard sends no user_id.  After an error the container stays as it is.
InsertRow(q) ==
  /\ reqs[q].pc = "insert"
  /\ \/ /\ ~ PairTaken(rows, reqs[q].cid, NoUser)
        /\ rows' = rows \cup {[cid |-> reqs[q].cid, user_id |-> NoUser]}
        /\ Step(q, "start")
     \/ /\ Finish(q)
        /\ UNCHANGED rows
  /\ UNCHANGED <<daemon, ticker, fresh>>

\* The answer is the container's id whether it has been started or not.
Start(q) ==
  /\ reqs[q].pc = "start"
  /\ \/ /\ Exists(reqs[q].cid)
        /\ daemon' = [daemon EXCEPT ![reqs[q].cid] = "running"]
     \/ UNCHANGED daemon
  /\ Finish(q)
  /\ UNCHANGED <<rows, ticker, fresh>>

-----------------------------------------------------------------------------
(* DELETE /api/containers/:id *)

\* The page that sends it may be old: the container need not exist any more.
DeleteContainer(q, c) ==
  /\ reqs[q].pc = "idle"
  /\ Born(c)
  /\ reqs' = [reqs EXCEPT ![q] = [pc |-> "remove", cid |-> c]]
  /\ UNCHANGED <<daemon, rows, ticker, fresh>>

\* Mutant: the rows are deleted whatever RemoveContainer has returned.
RemoveContainer_anyway(q) ==
  /\ reqs[q].pc = "remove"
  /\ \/ /\ Exists(reqs[q].cid)
        /\ daemon' = [daemon EXCEPT ![reqs[q].cid] = "gone"]
     \/ UNCHANGED daemon
  /\ Step(q, "unlist")
  /\ UNCHANGED <<rows, ticker, fresh>>

\* Removed, removed but the answer lost, or not removed
RemoveContainer(q) ==
  /\ reqs[q].pc = "remove"
  /\ \/ /\ Exists(reqs[q].cid)
        /\ daemon' = [daemon EXCEPT ![reqs[q].cid] = "gone"]
        /\ Step(q, "unlist") \/ Finish(q)
     \/ /\ UNCHANGED daemon
        /\ Finish(q)
  /\ UNCHANGED <<rows, ticker, fresh>>

\* The statement's error is ignored.
Unlist(q) ==
  /\ reqs[q].pc = "unlist"
  /\ rows' \in {DeleteByCid(rows, reqs[q].cid), rows}
  /\ Finish(q)
  /\ UNCHANGED <<daemon, ticker, fresh>>

-----------------------------------------------------------------------------
(* The grants *)

\* POST /api/priv; the key is the id of a container of the page, however old
\* the page, or what somebody has typed.
Grant(i, k) ==
  /\ k \in OtherKeys \cup {c \in Cids : Born(c)}
  /\ ~ PairTaken(rows, k, i)
  /\ rows' = rows \cup {[cid |-> k, user_id |-> i]}
  /\ UNCHANGED <<daemon, reqs, ticker, fresh>>

Revoke(r) ==
  /\ r \in rows
  /\ rows' = rows \ {r}
  /\ UNCHANGED <<daemon, reqs, ticker, fresh>>

DeleteUser(i) ==
  /\ rows' = DeleteGrantsOf(rows, i)
  /\ UNCHANGED <<daemon, reqs, ticker, fresh>>

-----------------------------------------------------------------------------
(* refreshContainers *)

\* Mutant: ListContainers(false, ...), the running containers only
Listed_running == {c \in Cids : daemon[c] = "running"}

\* ListContainers(true, ...): all containers
Listed == {c \in Cids : Exists(c)}

\* A tick: the list arrives; after an error the tick does nothing.
List ==
  /\ ticker.pc = "wait"
  /\ ticker' = [pc |-> "listed", ids |-> Listed]
  /\ fresh' = {}
  /\ UNCHANGED <<daemon, rows, reqs>>

\* Mutant: nothing is done about an empty list.
Purged_unlessEmpty(T, ids) == IF ids = {} THEN T ELSE PurgeExcept(T, ids)

\* delete from containers, with a `where cid not in' unless the list is empty
Purged(T, ids) == PurgeExcept(T, ids)

Purge ==
  /\ ticker.pc = "listed"
  /\ rows' = Purged(rows, ticker.ids)
  /\ ticker' = Waiting
  /\ UNCHANGED <<daemon, reqs, fresh>>

\* The statement fails; its error is ignored.
PurgeFails ==
  /\ ticker.pc = "listed"
  /\ ticker' = Waiting
  /\ UNCHANGED <<daemon, rows, reqs, fresh>>

\* The process is killed and started again; daemon and database survive.
Restart ==
  /\ reqs' = [q \in Reqs |-> Done]
  /\ ticker' = Waiting
  /\ UNCHANGED <<daemon, rows, fresh>>

-----------------------------------------------------------------------------
Handler(q) == \/ PostContainer(q)
              \/ Created(q)
              \/ ImageMissing(q)
              \/ Pulled(q)
              \/ CreateFails(q)
              \/ InsertRow(q)
              \/ Start(q)
              \/ \E c \in Cids : DeleteContainer(q, c)
              \/ RemoveContainer(q)
              \/ Unlist(q)

Next == \/ \E i \in Uids : DeleteUser(i)
        \/ \E i \in Uids, k \in Cids \cup OtherKeys : Grant(i, k)
        \/ \E r \in rows : Revoke(r)
        \/ \E c \in Cids : DockerCreate(c) \/ DockerRun(c)
        \/ \E q \in Reqs : Handler(q)
        \/ List
        \/ Purge
        \/ PurgeFails
        \/ Restart

Spec == Init /\ [][Next]_vars

\* The ticker goes on for as long as the process runs, and neither the daemon,
\* the database nor the process fails every time.
FairSpec == Spec /\ SF_vars(List) /\ SF_vars(Purge)

-----------------------------------------------------------------------------
(* Properties *)

\* Type invariant
TypeOK ==
  /\ daemon \in [Cids -> States]
  /\ rows \subseteq [cid : Cids \cup OtherKeys, user_id : Uids \cup {NoUser}]
  /\ reqs \in [Reqs -> [pc : {"idle", "create", "pull", "recreate", "insert",
                              "start", "remove", "unlist"},
                        cid : Cids \cup {NoCid}]]
  /\ ticker \in [pc : {"wait", "listed"}, ids : SUBSET Cids]
  /\ fresh \subseteq Cids

\* A row about an existing container goes only because an administrator revokes
\* it or deletes its user, or because the container was created after the list
\* that a purge goes by: no failed removal, failed list, stopped container,
\* restart or overlapping request ever costs anybody a grant.
GrantsLostOnlyWithContainer ==
  [][\A r \in rows \ rows' :
       \/ Revoke(r)
       \/ DeleteUser(r.user_id)
       \/ r.cid \notin Cids
       \/ ~ Exists(r.cid)
       \/ r.cid \in fresh]_vars

\* Rows about a container that is gone do not stay for good, whichever of
\* DeleteContainer's two steps failed, whoever removed the container, and
\* however late a grant for it arrives from an old page.
GoneContainersAreForgotten ==
  \A c \in Cids : [](daemon[c] = "gone" => <>(\A r \in rows : r.cid # c))

\* README: "You can create a user and assign some containers to the user, then
\* the user can login to the container": what is assigned stays assigned while
\* the container exists and nobody takes it back.  Violated: the purge goes by a
\* list that may be older than the container.
AssignedStaysAssigned ==
  [][\A r \in rows \ rows' :
       Revoke(r) \/ DeleteUser(r.user_id) \/ r.cid \notin Cids \/ ~ Exists(r.cid)]_vars
=============================================================================
