------------------------------- MODULE Router -------------------------------
(***************************************************************************)
(* src/src/router.rs: the chain of buckets behind a list of banned ids.    *)
(* Router::add reads the list under its lock, releases it and then calls   *)
(* Bucket::add; Router::ban_id changes the list under its lock, releases   *)
(* it and then calls Bucket::remove.  Both calls run as tasks of Bucket,   *)
(* whose first step comes after the list was read or written.              *)
(***************************************************************************)
EXTENDS BucketLookup

CONSTANT BAN_COUNT

ASSUME BanCountAssumption == BAN_COUNT \in Nat /\ BAN_COUNT > 1

VARIABLES
    banned_ids,  \* the VecDeque of banned ids, oldest first
    contested    \* history: banned ids whose removal was disturbed

rvars == <<vars, lvars, banned_ids, contested>>

IsBanned(id) == id \in Range(banned_ids)

-----------------------------------------------------------------------------
RouterAddUnchecked(t, n) == StartAdd(t, n) /\ UNCHANGED <<lvars, banned_ids>>

(* A banned id is ignored. *)
RouterAdd(t, n) ==
    /\ ~IsBanned(n.id)
    /\ StartAdd(t, n)
    /\ UNCHANGED <<lvars, banned_ids>>

PushBanGrowing(q, id) == Append(q, id)

(* push_back, then pop_front as soon as the list is BAN_COUNT long.  An id *)
(* banned twice is in the list twice.                                      *)
PushBan(q, id) ==
    IF Len(q) + 1 = BAN_COUNT THEN Tail(Append(q, id)) ELSE Append(q, id)

BanId(t, n) ==
    /\ banned_ids' = PushBan(banned_ids, n.id)
    /\ StartRemove(t, n)
    /\ UNCHANGED lvars

RouterInit == LInit /\ banned_ids = <<>> /\ contested = {}

(* While a task removes the id another one adds it, or moves nodes. *)
Disturbed(id) ==
    \E t, u \in Task, i, j \in Index :
        /\ pc[t][i] \in {"remove", "remove_write"} /\ arg[t][i].id = id
        /\ \/ pc[u][j] \in {"lock_nodes", "migrate"}
           \/ pc[u][j] \notin {"ret", "remove", "remove_write"} /\ arg[u][j].id = id

(* The history: a ban starts undisturbed, and stays so until it is not. *)
Track(fresh) ==
    contested' = {id \in Range(banned_ids') :
                     id \in contested \ fresh \/ Disturbed(id)'}

Requests ==
    \E t \in Task, n \in Node : \/ RouterAdd(t, n) /\ Track({})
                                \/ BanId(t, n) /\ Track({n.id})

BucketStep(t) ==
    /\ \E i \in Index : Step(t, i)
    /\ UNCHANGED <<lvars, banned_ids>>
    /\ Track({})

(* Requests of concurrent tasks, as a search makes them: send_find calls   *)
(* add for every answer and ban_id for every failure.                      *)
RouterNext == Requests \/ \E t \in Task : BucketStep(t)

(* Tokio polls every task that can go on, and its locks are fair.  A lock  *)
(* is held across steps only while nodes move, once per bucket, so weak    *)
(* fairness of each task's steps is all that is needed.  Nothing obliges a *)
(* task to start an operation.                                             *)
RouterSpec ==
    RouterInit /\ [][RouterNext]_rvars /\ \A t \in Task : WF_rvars(BucketStep(t))

(* One request after the other, Router::lookup included. *)
RouterSerialNext ==
    \/ Quiescent /\ LIdle /\ Requests
    \/ \E t \in Task : BucketStep(t)
    \/ Quiescent /\ Reads /\ UNCHANGED <<banned_ids, contested>>

RouterSerialSpec ==
    RouterInit /\ [][RouterSerialNext]_rvars /\ WF_rvars(\E t \in Task : BucketStep(t))

-----------------------------------------------------------------------------
(* The ban list stays below BAN_COUNT: its length is compared with =, so   *)
(* one push past it would let it grow for ever.                            *)
BanListBounded == Len(banned_ids) < BAN_COUNT

(* Requests at once: a banned id is in the table only if its removal ran   *)
(* into an add of the same id or into a split, or if an earlier race had   *)
(* put its node where remove does not look.  An add that starts after the  *)
(* ban never brings it back, and a removal that was alone never misses it. *)
BanOvertaken ==
    Quiescent => \A i \in Index : \A p \in DOMAIN nodes[i] :
        LET id == nodes[i][p].id
        IN  IsBanned(id) => id \in contested \/ ~StopsHere(i, id)
=============================================================================
