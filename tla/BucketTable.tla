---------------------------- MODULE BucketTable -----------------------------
(***************************************************************************)
(* The chain of buckets seen as the table of Table.  Used by one request   *)
(* after the other (Router) the chain implements it; used concurrently it  *)
(* does not, see Findable and Retention of Bucket.                         *)
(***************************************************************************)
EXTENDS Bucket

(* The nodes of the table: those in a bucket, and those a split is moving. *)
Stored ==
    UNION {Range(nodes[i]) : i \in Index} \cup
    {n \in Node : \E t \in Task, i, j \in Index : /\ i < j
                                                  /\ pc[t][i] = "migrate"
                                                  /\ pc[t][j] # "ret"
                                                  /\ arg[t][j] = n}

(* The outermost frame of a task is the call it was asked to make. *)
Calls ==
    {<<IF pc[f[1]][f[2]] \in {"remove", "remove_write"} THEN "remove" ELSE "add",
       arg[f[1]][f[2]]>> :
        f \in {g \in Task \X Index :
                 /\ pc[g[1]][g[2]] # "ret"
                 /\ \A i \in Index : i < g[2] => pc[g[1]][i] = "ret"}}

T == INSTANCE Table WITH
        stored <- Stored,
        call <- IF Calls = {} THEN <<>> ELSE CHOOSE c \in Calls : TRUE

(* One request at a time, the chain with its splits, moves and bumps is  *)
(* the bounded table of Table: nothing is lost in a split, a newcomer is   *)
(* dropped only if k_size nodes of its own prefix length are known, remove *)
(* finds what add stored wherever it went since, and each call returns.    *)
ImplementsTable == T!TableSpec

(* One request at a time, unwrap in add never meets an unset OnceCell, and *)
(* between requests each node stands where remove looks for its id.        *)
SerialSound == NoPanic /\ Findable
=============================================================================
