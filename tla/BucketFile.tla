----------------------------- MODULE BucketFile -----------------------------
(***************************************************************************)
(* The bucket file of src/src/router/bucket.rs: save_to_file serialises    *)
(* the chain on a blocking thread while tasks go on adding and removing,   *)
(* and Router::new loads it at the next start.  ser_df walks to the last   *)
(* bucket reading the OnceCells, writes the depth it found, and on the way *)
(* back writes the nodes of each bucket under a read lock of its own.      *)
(*                                                                         *)
(* The file is the sequence of elements written so far: the depth, then    *)
(* the node lists from the last bucket to the first.  It is truncated when *)
(* a save starts, and a process that stops in the middle leaves a prefix   *)
(* that does not parse.  Nothing writes the file after a save has ended,   *)
(* so one save and one restart show all that a file can do.                *)
(***************************************************************************)
EXTENDS BucketLookup

VARIABLES
    spc,     \* where the save stands; "booted" once a new process runs
    at,      \* the bucket that ser_df is in
    file,
    during   \* history: what happened since the save started

fvars == <<spc, at, file, during>>

(* The depth comes first, and a list for each bucket that was left. *)
FileTypeOK ==
    /\ LTypeOK
    /\ spc \in {"idle", "walk", "write", "saved", "booted"}
    /\ at \in Index
    /\ \A j \in 2 .. Len(file) : file[j] \in Seq(Node)
    /\ spc = "write" => file[1] = at + Len(file)
    /\ during \subseteq {"step", "split", "astray"}

(* A bucket has its successor, and its nodes are yet to move. *)
Splitting ==
    \E t \in Task, i \in Index : pc[t][i] \in {"lock_nodes", "migrate"}

(* A node stands where remove and lookup do not look for it. *)
Astray == \E i \in Index : \E p \in DOMAIN nodes[i] : ~StopsHere(i, nodes[i][p].id)

Unrest == {x \in {"split", "astray"} : IF x = "split" THEN Splitting ELSE Astray}

-----------------------------------------------------------------------------
(* save_to_file and ser_df *)

SaveStart ==
    /\ spc = "idle" /\ LIdle
    /\ spc' = "walk" /\ at' = 0 /\ file' = <<>>
    /\ during' = Unrest
    /\ stable' = Steady
    /\ UNCHANGED <<vars, target, lpc, acc>>

SaveWalkShallow ==
    /\ spc = "walk"
    /\ file' = <<1>> /\ spc' = "write"
    /\ UNCHANGED <<vars, lvars, at, during>>

SaveWalkForever ==
    /\ spc = "walk"
    /\ \/ next_bucket[at] /\ UNCHANGED <<spc, at, file>>
       \/ ~next_bucket[at] /\ file' = <<at + 1>> /\ spc' = "write" /\ UNCHANGED at
    /\ UNCHANGED <<vars, lvars, during>>

SaveWalk ==
    /\ spc = "walk"
    /\ \/ next_bucket[at] /\ at' = at + 1 /\ UNCHANGED <<spc, file>>
       \/ ~next_bucket[at] /\ file' = <<at + 1>> /\ spc' = "write" /\ UNCHANGED at
    /\ UNCHANGED <<vars, lvars, during>>

SaveWriteSkipping ==
    /\ spc = "write"
    /\ ~Locked(at)
    /\ file' = Append(file, nodes[at])
    /\ IF at = 0 THEN spc' = "saved" /\ UNCHANGED at ELSE at' = 0 /\ UNCHANGED spc
    /\ UNCHANGED <<vars, lvars, during>>

SaveWrite ==
    /\ spc = "write"
    /\ ~Locked(at)
    /\ file' = Append(file, nodes[at])
    /\ IF at = 0 THEN spc' = "saved" /\ UNCHANGED at ELSE at' = at - 1 /\ UNCHANGED spc
    /\ UNCHANGED <<vars, lvars, during>>

-----------------------------------------------------------------------------
(* load_from_file: bucket_index counts down from the depth, and each list  *)
(* becomes the parent of the one before it.                                *)

Count == Len(file) - 1

LoadedNodes ==
    [i \in Index |-> IF i < Count THEN file[2 + file[1] - 1 - i] ELSE <<>>]

LoadedNext == [i \in Index |-> i + 1 < Count]

(* The process ends, during the save or after it, and Router::new starts   *)
(* from the file if it is complete and from Bucket::root if not.           *)
Restart ==
    /\ spc \in {"walk", "write", "saved"}
    /\ nodes' = IF spc = "saved" THEN LoadedNodes ELSE [i \in Index |-> <<>>]
    /\ next_bucket' = IF spc = "saved" THEN LoadedNext ELSE [i \in Index |-> FALSE]
    /\ pc' = [t \in Task |-> [i \in Index |-> "ret"]]
    /\ arg' = [t \in Task |-> [i \in Index |-> NoArg]]
    /\ outcome' = [t \in Task |-> "ok"]
    /\ spc' = "booted" /\ at' = 0 /\ file' = <<>> /\ during' = {} /\ stable' = {}
    /\ UNCHANGED <<target, lpc, acc>>

Save == SaveWalk \/ SaveWrite

FileInit == LInit /\ spc = "idle" /\ at = 0 /\ file = <<>> /\ during = {}

(* A task goes on.  Once the save has ended the file is not affected. *)
Meanwhile ==
    /\ spc # "saved"
    /\ Others
    /\ during' = IF spc \in {"idle", "booted"} THEN during
                 ELSE during \cup {"step"} \cup Unrest'
    /\ UNCHANGED <<spc, at, file>>

FileNext ==
    \/ Meanwhile
    \/ spc = "idle" /\ Reads /\ UNCHANGED fvars
    \/ SaveStart
    \/ Save
    \/ Restart

(* The saving thread is not a task, and waits for each lock in its turn.   *)
FileSpec ==
    /\ FileInit /\ [][FileNext]_<<vars, lvars, fvars>>
    /\ \A t \in Task : WF_vars(\E i \in Index : Step(t, i))
    /\ WF_lvars(\E i \in Index : LookupStep(i) /\ UNCHANGED <<vars, fvars>>)
    /\ WF_fvars(Save)

-----------------------------------------------------------------------------
(* What is saved while no task moves is read back as it was: every bucket, *)
(* its nodes in their order, and the chain.  Adds and removes may go on    *)
(* during a save: unless a split runs into it, no node that was in one     *)
(* place all the time is missing from the file; and if no earlier race had *)
(* put a node astray, each node of the file is loaded into the bucket      *)
(* where remove and lookup look for it.  The lists are read from the last  *)
(* to the first, so a split moves nodes from a list yet to be read to one  *)
(* already written.                                                        *)
SavedUnlessSplit ==
    /\ spc = "saved" /\ "step" \notin during =>
           LoadedNodes = nodes /\ LoadedNext = next_bucket
    /\ spc = "saved" /\ "split" \notin during =>
           \A n \in stable : \E i \in Index : n \in Range(LoadedNodes[i])
    /\ spc = "saved" /\ during \subseteq {"step"} =>
           \A i \in Index : \A p \in DOMAIN LoadedNodes[i] :
              LoadedNext[i] => BelongsHere(i, LoadedNodes[i][p].id)

(* A lookup and a save end: the tasks whose locks they wait for, splits    *)
(* included, never wait for them.                                          *)
ReadersReturn ==
    /\ ~LIdle ~> LIdle
    /\ spc \in {"walk", "write"} ~> spc \in {"saved", "booted"}
=============================================================================
