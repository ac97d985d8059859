---------------------------- MODULE BucketLookup ----------------------------
(***************************************************************************)
(* Bucket::lookup of src/src/router/bucket.rs, run by one task while the   *)
(* tasks of Bucket add, split and remove.  A lookup changes nothing, so    *)
(* one reader stands for any number of them.  Its frame in bucket i is     *)
(* lpc[i], with k_nearest in acc[i]:                                       *)
(*   start  about to read next_bucket for the first time                   *)
(*   first  waiting for the nearer nodes of the next bucket                *)
(*   own    about to take from its own nodes                               *)
(*   rest   about to look whether there are more in the next bucket        *)
(*   tail   waiting for them                                               *)
(*   done   about to return acc[i]                                         *)
(***************************************************************************)
EXTENDS BucketTable

CONSTANT Target   \* ids that are looked up

ASSUME TargetAssumption == Target \subseteq U160Type /\ NoArg \notin Target

VARIABLES
    target,  \* the id looked up, NoArg when no lookup runs
    lpc,
    acc,
    stable   \* history: the nodes steady ever since the lookup started

lvars == <<target, lpc, acc, stable>>

LLabels == {"ret", "start", "first", "own", "rest", "tail", "done"}

(* A lookup collects nodes of the table and nothing else. *)
LTypeOK ==
    /\ target \in Target \cup {NoArg}
    /\ lpc \in [Index -> LLabels]
    /\ \A i \in Index : Range(acc[i]) \subseteq Node
    /\ stable \subseteq Node

LIdle == target = NoArg

LAt(i, l) == lpc[i] = l /\ \A j \in Index : j > i => lpc[j] = "ret"

-----------------------------------------------------------------------------
Take(s, k) == SubSeq(s, 1, IF k < Len(s) THEN k ELSE Len(s))

GapIgnored(i) == KSize

Gap(i) == KSize - Len(acc[i])

(* Where a node is: in a bucket, or in a call that a split makes. *)
Places(n) == {i \in Index : n \in Range(nodes[i])}

Transit(n) ==
    {f \in Task \X Index :
        /\ pc[f[1]][f[2]] # "ret" /\ arg[f[1]][f[2]] = n
        /\ \E i \in Index : i < f[2] /\ pc[f[1]][i] = "migrate"}

(* The nodes that are in one place: an add that races with a split can     *)
(* leave a second copy in a bucket where remove does not look.             *)
Steady ==
    {n \in Node : \/ (\E i \in Index : Places(n) = {i}) /\ Transit(n) = {}
                  \/ Places(n) = {} /\ \E f \in Task \X Index : Transit(n) = {f}}

LookupStart(id) ==
    /\ LIdle
    /\ target' = id
    /\ lpc' = [lpc EXCEPT ![0] = "start"]
    /\ stable' = Steady
    /\ UNCHANGED acc

LookupFirstOwn(i) ==
    /\ LAt(i, "start")
    /\ lpc' = [lpc EXCEPT ![i] = "own"]
    /\ UNCHANGED <<target, acc, stable>>

(* Nearer nodes come from the next bucket when the id does not belong here. *)
LookupFirst(i) ==
    /\ LAt(i, "start")
    /\ IF next_bucket[i] /\ ~BelongsHere(i, target)
       THEN lpc' = [lpc EXCEPT ![i] = "first", ![i + 1] = "start"]
       ELSE lpc' = [lpc EXCEPT ![i] = "own"]
    /\ UNCHANGED <<target, acc, stable>>

LookupOwnUnlocked(i) ==
    /\ LAt(i, "own")
    /\ acc' = [acc EXCEPT ![i] = @ \o Take(nodes[i], Gap(i))]
    /\ lpc' = [lpc EXCEPT ![i] = "rest"]
    /\ UNCHANGED <<target, stable>>

LookupOwn(i) ==
    /\ LAt(i, "own")
    /\ Gap(i) > 0 => ~Locked(i)
    /\ acc' = [acc EXCEPT ![i] = @ \o Take(nodes[i], Gap(i))]
    /\ lpc' = [lpc EXCEPT ![i] = "rest"]
    /\ UNCHANGED <<target, stable>>

LookupRest(i) ==
    /\ LAt(i, "rest")
    /\ IF Gap(i) > 0 /\ next_bucket[i]
       THEN lpc' = [lpc EXCEPT ![i] = "tail", ![i + 1] = "start"]
       ELSE lpc' = [lpc EXCEPT ![i] = "done"]
    /\ UNCHANGED <<target, acc, stable>>

(* The nodes found in bucket i + 1 reach the caller in bucket i. *)
LookupReturn(i) ==
    /\ LAt(i, "done")
    /\ \/ /\ i = 0
          /\ target' = NoArg
          /\ lpc' = [lpc EXCEPT ![0] = "ret"]
          /\ acc' = [acc EXCEPT ![0] = <<>>]
          /\ stable' = {}
       \/ /\ i > 0
          /\ lpc[i - 1] = "first"
          /\ lpc' = [lpc EXCEPT ![i] = "ret", ![i - 1] = "own"]
          /\ acc' = [acc EXCEPT ![i] = <<>>, ![i - 1] = acc[i]]
          /\ UNCHANGED <<target, stable>>
       \/ /\ i > 0
          /\ lpc[i - 1] = "tail"
          /\ lpc' = [lpc EXCEPT ![i] = "ret", ![i - 1] = "done"]
          /\ acc' = [acc EXCEPT ![i] = <<>>, ![i - 1] = @ \o Take(acc[i], Gap(i - 1))]
          /\ UNCHANGED <<target, stable>>

LookupStep(i) ==
    \/ LookupFirst(i)
    \/ LookupOwn(i)
    \/ LookupRest(i)
    \/ LookupReturn(i)

LInit ==
    /\ Init
    /\ target = NoArg
    /\ lpc = [i \in Index |-> "ret"]
    /\ acc = [i \in Index |-> <<>>]
    /\ stable = {}

(* A step of an add or a remove; the reader only keeps its history. *)
Others ==
    /\ Next
    /\ stable' = stable \cap Steady'
    /\ UNCHANGED <<target, lpc, acc>>

Reads ==
    /\ \/ \E id \in Target : LookupStart(id)
       \/ \E i \in Index : LookupStep(i)
    /\ UNCHANGED vars

-----------------------------------------------------------------------------
(* k_size - k_nearest.len() never underflows: at no point of a lookup, at  *)
(* whatever moment buckets appear or fill up, are there more than k_size.  *)
LookupBounded == \A i \in Index : Len(acc[i]) <= KSize

(* An answer of fewer than k_size nodes is complete: it holds every node   *)
(* that was in one place from the call to the return, even one that splits *)
(* moved from bucket to bucket meanwhile.  A node of which a second copy   *)
(* appeared behind the lookup may be missed if the first is removed.       *)
LookupComplete ==
    lpc[0] = "done" /\ Len(acc[0]) < KSize => stable \subseteq Range(acc[0])

Nearer(a, b) == Less(Distance(target, a.id), Distance(target, b.id))

(* Buckets are visited from the nearest to the farthest, which depends on  *)
(* every bit of the target: a node left out that is nearer than one in the *)
(* answer stands in the same bucket as that one.                           *)
NearestBuckets ==
    lpc[0] = "done" =>
        \A n \in Range(acc[0]), m \in Stored \ Range(acc[0]) :
            Nearer(m, n) => \E i \in Index : {m, n} \subseteq Range(nodes[i])

(* The answer names no node twice. *)
LookupDistinct == lpc[0] = "done" => IsInjective(acc[0])
=============================================================================
