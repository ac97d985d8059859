----------------------------- MODULE FileProofs -----------------------------
(***************************************************************************)
(* Lookups, and the bucket file across a restart, while any number of      *)
(* tasks add, split and remove.                                            *)
(***************************************************************************)
EXTENDS BucketFile, BucketProofs

allvars == <<vars, lvars, fvars>>

-----------------------------------------------------------------------------
(* The file *)

FileElement == Nat \cup Seq(Node)

(* The file begins with the depth, and element j is what bucket depth+1-j  *)
(* held when ser_df left it.                                               *)
FileOK ==
    /\ spc \in {"idle", "walk", "write", "saved", "booted"}
    /\ at \in Index
    /\ file \in Seq(FileElement)
    /\ during \subseteq {"step", "split", "astray"}

ElementOK(j) == Fits(file[1] + 1 - j, file[j])

ListsOK ==
    /\ spc \in {"write", "saved"} =>
          /\ file[1] \in 1 .. (MAX_BUCKET_INDEX + 1)
          /\ \A j \in 2 .. Len(file) : ElementOK(j)
          /\ spc = "write" => Len(file) >= 1 /\ file[1] = at + Len(file)
          /\ spc = "saved" => Len(file) = file[1] + 1
    /\ spc \notin {"write", "saved"} => file = <<>>

ReadInv == IInv /\ LookupOK /\ FileOK /\ ListsOK

LEMMA WalkOK ==
    ASSUME ReadInv, SaveWalk
    PROVE  FileOK' /\ ListsOK'
<1>0. spc = "walk" /\ at \in Index /\ Index \subseteq Nat /\ MAX_BUCKET_INDEX \in Nat
  BY MaxBitAssumption DEF SaveWalk, ReadInv, FileOK, Index, MAX_BUCKET_INDEX
<1>1. CASE next_bucket[at] /\ at' = at + 1 /\ UNCHANGED <<spc, file>>
  <2>1. at + 1 \in Index
    BY <1>0, <1>1, NextInIndex DEF ReadInv
  <2>2. QED
    BY <1>0, <1>1, <2>1 DEF SaveWalk, ReadInv, FileOK, ListsOK
<1>2. CASE file' = <<at + 1>> /\ spc' = "write" /\ at' = at
  <2>1. /\ at + 1 \in Nat /\ at + 1 \in 1 .. (MAX_BUCKET_INDEX + 1)
    BY <1>0 DEF Index
  <2>2. /\ <<at + 1>> \in Seq(FileElement) /\ Len(<<at + 1>>) = 1
        /\ <<at + 1>>[1] = at + 1
    BY <2>1 DEF FileElement
  <2>3. FileOK'
    BY <1>0, <1>2, <2>2 DEF SaveWalk, ReadInv, FileOK
  <2>4. ListsOK'
    BY <1>0, <1>2, <2>1, <2>2 DEF ListsOK
  <2>5. QED
    BY <2>3, <2>4
<1>3. QED
  BY <1>1, <1>2 DEF SaveWalk

(* Append to a file: the depth and the lists already there stay. *)
LEMMA AppendList ==
    ASSUME file \in Seq(FileElement), Len(file) >= 1, NEW s \in Seq(Node),
           file' = Append(file, s)
    PROVE  /\ file' \in Seq(FileElement) /\ Len(file') = Len(file) + 1
           /\ file'[1] = file[1] /\ file'[Len(file) + 1] = s
           /\ \A j \in 2 .. Len(file) : file'[j] = file[j]
<1>1. s \in FileElement /\ Len(file) \in Nat
  BY LenProperties DEF FileElement
<1>2. /\ file' \in Seq(FileElement) /\ Len(file') = Len(file) + 1
      /\ file'[Len(file) + 1] = s
      /\ \A j \in 1 .. Len(file) : file'[j] = file[j]
  BY <1>1, AppendProperties
<1>3. 1 \in 1 .. Len(file) /\ \A j \in 2 .. Len(file) : j \in 1 .. Len(file)
  BY <1>1
<1>4. QED
  BY <1>2, <1>3

LEMMA WriteOK ==
    ASSUME ReadInv, SaveWrite
    PROVE  FileOK' /\ ListsOK'
<1>0. /\ spc = "write" /\ at \in Index /\ at \in Nat /\ MAX_BUCKET_INDEX \in Nat
      /\ file \in Seq(FileElement) /\ Len(file) \in Nat /\ Len(file) >= 1
      /\ file[1] = at + Len(file) /\ file[1] \in 1 .. (MAX_BUCKET_INDEX + 1)
      /\ Fits(at, nodes[at]) /\ nodes[at] \in Seq(Node)
      /\ file' = Append(file, nodes[at]) /\ during' = during
  BY MaxBitAssumption, IInvFits, LenProperties
     DEF SaveWrite, ReadInv, FileOK, ListsOK, Index, MAX_BUCKET_INDEX, Fits
<1>1. /\ file' \in Seq(FileElement) /\ Len(file') = Len(file) + 1
      /\ file'[1] = file[1] /\ file'[Len(file) + 1] = nodes[at]
      /\ \A j \in 2 .. Len(file) : file'[j] = file[j]
  BY <1>0, AppendList
<1>2. ASSUME NEW j \in 2 .. Len(file') PROVE ElementOK(j)'
  <2>1. CASE j = Len(file) + 1
    <3>1. file'[1] + 1 - j = at /\ file'[j] = nodes[at]
      BY <1>0, <1>1, <2>1
    <3>2. QED
      BY <1>0, <3>1 DEF ElementOK
  <2>2. CASE j # Len(file) + 1
    <3>1. j \in 2 .. Len(file)
      BY <1>0, <1>1, <2>2
    <3>2. ElementOK(j)
      BY <1>0, <3>1 DEF ReadInv, ListsOK
    <3>3. QED
      BY <1>1, <3>1, <3>2 DEF ElementOK
  <2>3. QED
    BY <2>1, <2>2
<1>3. CASE at = 0 /\ spc' = "saved" /\ at' = at
  BY <1>0, <1>1, <1>2, <1>3 DEF FileOK, ListsOK, ReadInv
<1>4. CASE at # 0 /\ at' = at - 1 /\ spc' = spc
  <2>1. at - 1 \in Index
    BY <1>0, <1>4 DEF Index
  <2>2. QED
    BY <1>0, <1>1, <1>2, <1>4, <2>1 DEF FileOK, ListsOK, ReadInv
<1>5. QED
  BY <1>3, <1>4 DEF SaveWrite

(* The list of each bucket is where load_from_file looks for it. *)
LEMMA LoadedLemma ==
    ASSUME ReadInv, spc = "saved"
    PROVE  /\ Count = file[1] /\ Count \in 1 .. (MAX_BUCKET_INDEX + 1)
           /\ \A i \in Index : i < Count =>
                 /\ file[1] + 1 - i \in 2 .. Len(file)
                 /\ LoadedNodes[i] = file[file[1] + 1 - i]
           /\ \A i \in Index : ~(i < Count) => LoadedNodes[i] = <<>>
           /\ \A i \in Index : LoadedNext[i] <=> (i + 1 < Count)
           /\ \A i \in Index : Fits(i, LoadedNodes[i])
<1>0. /\ file[1] \in 1 .. (MAX_BUCKET_INDEX + 1) /\ Len(file) = file[1] + 1
      /\ MAX_BUCKET_INDEX \in Nat /\ Index \subseteq Nat
      /\ \A j \in 2 .. Len(file) : ElementOK(j)
  BY MaxBitAssumption DEF ReadInv, ListsOK, Index, MAX_BUCKET_INDEX
<1>1. Count = file[1]
  BY <1>0 DEF Count
<1>2. ASSUME NEW i \in Index, i < Count
      PROVE  /\ file[1] + 1 - i \in 2 .. Len(file)
             /\ LoadedNodes[i] = file[file[1] + 1 - i]
             /\ Fits(i, LoadedNodes[i])
  <2>1. i \in Nat /\ file[1] + 1 - i \in 2 .. Len(file) /\ 2 + file[1] - 1 - i = file[1] + 1 - i
    BY <1>0, <1>1, <1>2
  <2>2. LoadedNodes[i] = file[file[1] + 1 - i]
    BY <1>2, <2>1 DEF LoadedNodes
  <2>3. ElementOK(file[1] + 1 - i)
    <3> DEFINE k == file[1] + 1 - i
    <3>1. k \in 2 .. Len(file)
      BY <2>1
    <3> HIDE DEF k
    <3>2. ElementOK(k)
      BY <1>0, <3>1
    <3>3. QED
      BY <3>2 DEF k
  <2>4. file[1] + 1 - (file[1] + 1 - i) = i
    <3>1. file[1] \in Int /\ i \in Int
      BY <1>0, <2>1
    <3>2. \A d, k \in Int : d + 1 - (d + 1 - k) = k
      OBVIOUS
    <3>3. QED
      BY <3>1, <3>2
  <2>5. QED
    BY <2>1, <2>2, <2>3, <2>4 DEF ElementOK
<1>3. ASSUME NEW i \in Index, ~(i < Count)
      PROVE  LoadedNodes[i] = <<>> /\ Fits(i, LoadedNodes[i])
  <2>1. LoadedNodes[i] = <<>>
    BY <1>3 DEF LoadedNodes
  <2>2. Fits(i, <<>>)
    BY KSizeAssumption, EmptySeq DEF Fits, DistinctIds
  <2>3. QED
    BY <2>1, <2>2
<1>4. QED
  BY <1>0, <1>1, <1>2, <1>3 DEF LoadedNext

(* A table with lists that fit and a chain without gaps, and no call. *)
Booted(ns, nx) ==
    /\ ns \in [Index -> Seq(Node)] /\ nx \in [Index -> BOOLEAN]
    /\ \A i \in Index : Fits(i, ns[i])
    /\ ~nx[MAX_BUCKET_INDEX]
    /\ \A i \in Index : i > 0 /\ ~nx[i - 1] => ~nx[i] /\ ns[i] = <<>>

LEMMA BootIInv ==
    ASSUME Booted(nodes', next_bucket'),
           pc' = [t \in Task |-> [i \in Index |-> "ret"]],
           arg' = [t \in Task |-> [i \in Index |-> NoArg]],
           outcome' = [t \in Task |-> "ok"]
    PROVE  IInv'
<1>1. TypeOK'
  BY NodeAssumption DEF TypeOK, Labels, Outcomes, Booted
<1>2. Capacity' /\ DistinctInBucket'
  BY DEF Capacity, DistinctInBucket, Booted, Fits, DistinctIds
<1>3. RangeOK'
  BY DEF RangeOK, SharesPrefix, Booted, Fits
<1>4. ChainOK'
  BY DEF ChainOK, Booted
<1>5. LockOrder'
  BY DEF LockOrder
<1>6. QED
  BY <1>1, <1>2, <1>3, <1>4, <1>5 DEF IInv

(* A restart leaves a table like any other, whenever the process stopped. *)
LEMMA RestartOK ==
    ASSUME ReadInv, Restart
    PROVE  ReadInv'
<1>0. MAX_BUCKET_INDEX \in Nat /\ Index = 0 .. MAX_BUCKET_INDEX /\ MAX_BUCKET_INDEX \in Index
      /\ 0 \in Index
  BY MaxBitAssumption DEF Index, MAX_BUCKET_INDEX
<1>1. CASE spc = "saved"
  <2>1. nodes' = LoadedNodes /\ next_bucket' = LoadedNext
    BY <1>1 DEF Restart
  <2> DEFINE ns == LoadedNodes
             nx == LoadedNext
  <2>2. /\ ns = [i \in Index |-> ns[i]] /\ nx \in [Index -> BOOLEAN]
    BY DEF LoadedNodes, LoadedNext
  <2>3. /\ Count \in 1 .. (MAX_BUCKET_INDEX + 1)
        /\ \A i \in Index : ~(i < Count) => ns[i] = <<>>
        /\ \A i \in Index : nx[i] <=> (i + 1 < Count)
        /\ \A i \in Index : Fits(i, ns[i])
    BY <1>1, LoadedLemma
  <2> HIDE DEF ns, nx
  <2>4. ns \in [Index -> Seq(Node)] /\ nx \in [Index -> BOOLEAN]
    <3>1. \A i \in Index : ns[i] \in Seq(Node)
      BY <2>3 DEF Fits
    <3>2. QED
      BY <2>2, <3>1
  <2>5. ~nx[MAX_BUCKET_INDEX]
    BY <1>0, <2>3
  <2>6. ASSUME NEW i \in Index, i > 0, ~nx[i - 1] PROVE ~nx[i] /\ ns[i] = <<>>
    <3>1. i - 1 \in Index /\ i \in Nat /\ (i - 1) + 1 = i
      BY <1>0, <2>6
    <3>2. ~(i < Count)
      BY <2>3, <2>6, <3>1
    <3>3. QED
      BY <2>3, <3>1, <3>2
  <2>7. Booted(ns, nx)
    BY <2>3, <2>4, <2>5, <2>6 DEF Booted
  <2>8. IInv'
    BY <2>1, <2>7, BootIInv DEF Restart, ns, nx
  <2>9. QED
    BY <1>0, <2>8, EmptySeq DEF Restart, ReadInv, LookupOK, FileOK, ListsOK
<1>2. CASE spc # "saved"
  <2>1. /\ nodes' = [i \in Index |-> <<>>] /\ next_bucket' = [i \in Index |-> FALSE]
    BY <1>2 DEF Restart
  <2>2. \A i \in Index : Fits(i, <<>>)
    BY KSizeAssumption, EmptySeq DEF Fits, DistinctIds
  <2>3. Booted(nodes', next_bucket')
    BY <1>0, <2>1, <2>2, EmptySeq DEF Booted
  <2>4. IInv'
    BY <2>3, BootIInv DEF Restart
  <2>5. QED
    BY <1>0, <2>4, EmptySeq DEF Restart, ReadInv, LookupOK, FileOK, ListsOK
<1>3. QED
  BY <1>1, <1>2

LEMMA ReadInit == FileInit => ReadInv
<1> SUFFICES ASSUME FileInit PROVE ReadInv
  OBVIOUS
<1>1. IInv
  BY InitIInv DEF FileInit, LInit
<1>2. LookupOK
  BY KSizeAssumption, EmptySeq DEF FileInit, LInit, LookupOK, LLabels
<1>3. FileOK /\ ListsOK
  BY MaxBitAssumption, EmptySeq DEF FileInit, FileOK, ListsOK, Index, MAX_BUCKET_INDEX
<1>4. QED
  BY <1>1, <1>2, <1>3 DEF ReadInv

LEMMA ReadNext == ReadInv /\ [FileNext]_allvars => ReadInv'
<1> SUFFICES ASSUME ReadInv, [FileNext]_allvars PROVE ReadInv'
  OBVIOUS
<1>0. 0 \in Index
  BY MaxBitAssumption DEF Index, MAX_BUCKET_INDEX
<1>1. ASSUME UNCHANGED vars PROVE IInv'
  BY <1>1, NextIInv DEF ReadInv
<1>2. ASSUME UNCHANGED fvars PROVE FileOK' /\ ListsOK'
  BY <1>2 DEF fvars, ReadInv, FileOK, ListsOK, ElementOK
<1>3. ASSUME UNCHANGED lvars PROVE LookupOK'
  BY <1>3 DEF lvars, ReadInv, LookupOK
<1>4. CASE Meanwhile
  <2>1. IInv'
    BY <1>4, NextIInv DEF Meanwhile, Others, ReadInv
  <2>2. LookupOK'
    BY <1>4 DEF Meanwhile, Others, ReadInv, LookupOK
  <2>3. FileOK' /\ ListsOK'
    BY <1>4 DEF Meanwhile, Unrest, ReadInv, FileOK, ListsOK, ElementOK
  <2>4. QED
    BY <2>1, <2>2, <2>3 DEF ReadInv
<1>5. CASE Reads /\ UNCHANGED fvars
  BY <1>1, <1>2, <1>5, ReadsOK DEF Reads, ReadInv
<1>6. CASE SaveStart
  <2>1. IInv' /\ LookupOK'
    BY <1>1, <1>6 DEF SaveStart, ReadInv, LookupOK, Steady
  <2>2. FileOK' /\ ListsOK'
    BY <1>0, <1>6, EmptySeq DEF SaveStart, Unrest, FileOK, ListsOK
  <2>3. QED
    BY <2>1, <2>2 DEF ReadInv
<1>7. CASE SaveWalk
  BY <1>1, <1>3, <1>7, WalkOK DEF SaveWalk, ReadInv
<1>8. CASE SaveWrite
  BY <1>1, <1>3, <1>8, WriteOK DEF SaveWrite, ReadInv
<1>9. CASE Restart
  BY <1>9, RestartOK
<1>10. CASE UNCHANGED allvars
  BY <1>1, <1>2, <1>3, <1>10 DEF allvars, ReadInv
<1>11. QED
  BY <1>4, <1>5, <1>6, <1>7, <1>8, <1>9, <1>10 DEF FileNext, Save

LEMMA ReadInvAlways == FileSpec => []ReadInv
  BY ReadInit, ReadNext, PTL DEF FileSpec, allvars

(* The depth announces as many lists as ser_df writes, whatever tasks do   *)
(* between its steps, and a lookup collects nodes of the table only.       *)
THEOREM FileTypeCorrect == FileSpec => []FileTypeOK
<1>1. ReadInv => FileTypeOK
  <2> SUFFICES ASSUME ReadInv PROVE FileTypeOK
    OBVIOUS
  <2>1. LTypeOK
    BY LenProperties, ElementOfSeq DEF ReadInv, LookupOK, LTypeOK, Range
  <2>2. \A j \in 2 .. Len(file) : file[j] \in Seq(Node)
    BY EmptySeq DEF ReadInv, FileOK, ListsOK, ElementOK, Fits
  <2>3. QED
    BY <2>1, <2>2 DEF ReadInv, FileOK, ListsOK, FileTypeOK
<1>2. QED
  BY <1>1, ReadInvAlways, PTL

(* k_size - k_nearest.len() never underflows, at whatever moment of the    *)
(* lookup other tasks fill or split the buckets.                           *)
THEOREM LookupBoundedCorrect == FileSpec => []LookupBounded
<1>1. ReadInv => LookupBounded
  BY DEF ReadInv, LookupOK, LookupBounded
<1>2. QED
  BY <1>1, ReadInvAlways, PTL

(* Saved at any moment and loaded again, the table keeps what holds of it: *)
(* nodes in the range of their bucket and no id twice in one.              *)
THEOREM RestartKeeps == FileSpec => [](RangeOK /\ DistinctInBucket)
<1>1. ReadInv => RangeOK /\ DistinctInBucket
  BY DEF ReadInv, IInv
<1>2. QED
  BY <1>1, ReadInvAlways, PTL

-----------------------------------------------------------------------------
(* What the file holds *)

(* A step of a task changes the nodes of one bucket at most, and a bucket  *)
(* never loses its successor.                                              *)
LEMMA OneBucket ==
    ASSUME IInv, Next
    PROVE  /\ \E b \in Index : \A i \in Index : i # b => nodes'[i] = nodes[i]
           /\ \A i \in Index : next_bucket[i] => next_bucket'[i]
<1>1. CASE \E t \in Task, n \in Node : StartAdd(t, n) \/ StartRemove(t, n)
  BY <1>1, MaxBitAssumption DEF StartAdd, StartRemove, Start, Index, MAX_BUCKET_INDEX
<1>2. ASSUME NEW t \in Task, NEW i \in Index, Step(t, i)
      PROVE  /\ \A j \in Index : j # i => nodes'[j] = nodes[j]
             /\ \A j \in Index : next_bucket[j] => next_bucket'[j]
  BY <1>2 DEF Step, AddCheckNext, AddCheckLen, FullCheckNext, FullCheckLen, Place, Write,
              MakeNextBucket, LockNodes, MigrateOne, MigrateDone, RemoveRoute,
              RemoveWrite, IInv, TypeOK
<1>3. QED
  BY <1>1, <1>2 DEF Next

InFile(n) == \E j \in 2 .. Len(file) : n \in Range(file[j])

(* What ser_df found of the chain is still so. *)
ChainSeen ==
    /\ spc = "walk" => \A i \in Index : i < at => next_bucket[i]
    /\ spc \in {"write", "saved"} =>
          \A i \in Index : i + 1 < file[1] => next_bucket[i]

(* The history misses no split and no node astray. *)
HistoryOK ==
    spc \in {"walk", "write"} =>
        /\ Splitting => "split" \in during
        /\ Astray => "astray" \in during
        /\ stable \subseteq Steady

QuietOK ==
    spc \in {"write", "saved"} /\ "step" \notin during =>
        /\ ~next_bucket[file[1] - 1]
        /\ \A j \in 2 .. Len(file) : file[j] = nodes[file[1] + 1 - j]

(* Steady nodes are in the file or in a bucket yet to be written. *)
KeptOK ==
    "split" \notin during =>
        \A n \in stable :
            /\ spc = "write" => InFile(n) \/ \E i \in Index : i <= at /\ n \in Range(nodes[i])
            /\ spc = "saved" => InFile(n)

PlacedOK ==
    spc \in {"write", "saved"} /\ during \subseteq {"step"} =>
        \A j \in 3 .. Len(file) : \A p \in DOMAIN file[j] :
            BelongsHere(file[1] + 1 - j, file[j][p].id)

SaveInv == ReadInv /\ ChainSeen /\ HistoryOK /\ QuietOK /\ KeptOK /\ PlacedOK

LEMMA SaveStartStep ==
    ASSUME SaveInv, SaveStart
    PROVE  SaveInv'
<1>1. ReadInv'
  BY ReadNext DEF SaveInv, FileNext
<1>2. /\ spc' = "walk" /\ at' = 0 /\ during' = Unrest /\ stable' = Steady
      /\ UNCHANGED vars
  BY DEF SaveStart
<1>3. ChainSeen'
  BY <1>2 DEF ChainSeen, Index
<1>4. HistoryOK'
  <2>1. Splitting' = Splitting /\ Astray' = Astray /\ Steady' = Steady
    BY <1>2 DEF vars, Splitting, Astray, Steady, StopsHere, BelongsHere, Places, Transit
  <2>2. QED
    BY <1>2, <2>1 DEF HistoryOK, Unrest
<1>5. QuietOK' /\ KeptOK' /\ PlacedOK'
  BY <1>2 DEF QuietOK, KeptOK, PlacedOK
<1>6. QED
  BY <1>1, <1>3, <1>4, <1>5 DEF SaveInv

(* While a task moves. *)
LEMMA SaveMeanwhile ==
    ASSUME SaveInv, Meanwhile
    PROVE  SaveInv'
<1>1. ReadInv'
  BY ReadNext DEF SaveInv, FileNext
<1>2. /\ IInv /\ Next /\ spc # "saved" /\ spc' = spc /\ at' = at /\ file' = file
      /\ stable' = stable \cap Steady'
      /\ spc \in {"walk", "write"} => during' = during \cup {"step"} \cup Unrest'
  BY DEF SaveInv, ReadInv, Meanwhile, Others
<1>3. ChainSeen'
  BY <1>2, OneBucket DEF SaveInv, ChainSeen
<1>4. HistoryOK'
  BY <1>2 DEF HistoryOK, Unrest
<1>5. QuietOK'
  BY <1>2 DEF QuietOK
<1>6. KeptOK'
  <2>1. SUFFICES ASSUME "split" \notin during', spc = "write", NEW n \in stable', ~InFile(n)
                 PROVE  \E i \in Index : i <= at /\ n \in Range(nodes'[i])
    BY <1>2 DEF KeptOK, InFile
  <2>2. "split" \notin during /\ n \in stable /\ n \in Steady /\ n \in Steady'
        /\ ~Splitting'
    BY <1>2, <2>1 DEF SaveInv, HistoryOK, Unrest
  <2>3. PICK i \in Index : i <= at /\ n \in Range(nodes[i])
    BY <2>1, <2>2 DEF SaveInv, KeptOK
  <2>4. Places(n) = {i}
    BY <2>2, <2>3 DEF Steady, Places
  <2>5. Transit(n)' = {}
    BY <2>2 DEF Splitting, Transit
  <2>6. PICK k \in Index : Places(n)' = {k}
    BY <2>2, <2>5 DEF Steady
  <2>7. PICK b \in Index : \A j \in Index : j # b => nodes'[j] = nodes[j]
    BY <1>2, OneBucket
  <2>8. i = k
    BY <2>3, <2>4, <2>6, <2>7 DEF Places
  <2>9. n \in Range(nodes'[i])
    BY <2>6, <2>8 DEF Places
  <2>10. QED
    BY <2>3, <2>9
<1>7. PlacedOK'
  BY <1>2 DEF SaveInv, PlacedOK, Unrest, BelongsHere
<1>8. QED
  BY <1>1, <1>3, <1>4, <1>5, <1>6, <1>7 DEF SaveInv

(* ser_df goes one bucket on, or turns round in the last one. *)
LEMMA SaveWalkStep ==
    ASSUME SaveInv, SaveWalk
    PROVE  SaveInv'
<1>1. ReadInv' /\ ReadInv /\ IInv
  BY ReadNext DEF SaveInv, ReadInv, FileNext, Save
<1>2. /\ spc = "walk" /\ during' = during /\ stable' = stable /\ UNCHANGED vars
      /\ at \in Index /\ Index \subseteq Int /\ Steady' = Steady
      /\ Splitting' = Splitting /\ Astray' = Astray
  BY DEF SaveWalk, SaveInv, ReadInv, FileOK, Index, vars, lvars, Splitting, Astray, Steady,
         StopsHere, BelongsHere, Places, Transit
<1>3. HistoryOK'
  BY <1>2 DEF SaveInv, HistoryOK, SaveWalk
<1>4. CASE next_bucket[at] /\ at' = at + 1 /\ spc' = spc /\ file' = file
  <2>1. ChainSeen'
    BY <1>2, <1>4 DEF SaveInv, ChainSeen, vars
  <2>2. QuietOK' /\ KeptOK' /\ PlacedOK'
    BY <1>2, <1>4 DEF QuietOK, KeptOK, PlacedOK
  <2>3. QED
    BY <1>1, <1>3, <2>1, <2>2 DEF SaveInv
<1>5. CASE ~next_bucket[at] /\ file' = <<at + 1>> /\ spc' = "write" /\ at' = at
  <2>1. file'[1] = at + 1 /\ Len(file') = 1 /\ file'[1] - 1 = at
    BY <1>2, <1>5
  <2>2. ChainSeen'
    BY <1>2, <1>5, <2>1 DEF SaveInv, ChainSeen, vars
  <2>3. QuietOK' /\ PlacedOK'
    BY <1>2, <1>5, <2>1 DEF QuietOK, PlacedOK, vars
  <2>4. KeptOK'
    <3>1. SUFFICES ASSUME "split" \notin during, NEW n \in stable
                   PROVE  \E i \in Index : i <= at /\ n \in Range(nodes[i])
      BY <1>2, <1>5 DEF KeptOK, vars
    <3>2. n \in Steady /\ Transit(n) = {}
      BY <1>2, <3>1 DEF SaveInv, HistoryOK, Splitting, Transit
    <3>3. PICK i \in Index : n \in Range(nodes[i])
      BY <3>2 DEF Steady, Places
    <3>4. i <= at
      <4>1. SUFFICES ASSUME at < i PROVE FALSE
        BY <1>2
      <4>2. nodes[i] = <<>>
        BY <1>1, <1>2, <1>5, <4>1, NoneAfter
      <4>3. QED
        BY <3>3, <4>2, EmptySeq DEF Range
    <3>5. QED
      BY <3>3, <3>4
  <2>5. QED
    BY <1>1, <1>3, <2>2, <2>3, <2>4 DEF SaveInv
<1>6. QED
  BY <1>4, <1>5 DEF SaveWalk

(* ser_df writes a bucket and returns to the one before. *)
LEMMA SaveWriteStep ==
    ASSUME SaveInv, SaveWrite
    PROVE  SaveInv'
<1>1. ReadInv' /\ ReadInv /\ IInv
  BY ReadNext DEF SaveInv, ReadInv, FileNext, Save
<1>2. /\ spc = "write" /\ during' = during /\ stable' = stable /\ UNCHANGED vars
      /\ at \in Index /\ at \in Nat /\ Steady' = Steady
      /\ Splitting' = Splitting /\ Astray' = Astray
      /\ spc' \in {"write", "saved"}
      /\ spc' = "write" => at # 0 /\ at' = at - 1
      /\ spc' = "saved" => at = 0
  BY MaxBitAssumption
     DEF SaveWrite, SaveInv, ReadInv, FileOK, Index, vars, lvars, Splitting, Astray, Steady,
         StopsHere, BelongsHere, Places, Transit
<1>3. /\ file \in Seq(FileElement) /\ Len(file) \in Nat /\ Len(file) >= 1
      /\ file[1] = at + Len(file) /\ nodes[at] \in Seq(Node)
      /\ file' = Append(file, nodes[at])
  BY <1>1, <1>2, LenProperties DEF ReadInv, FileOK, ListsOK, IInv, TypeOK, SaveWrite
<1>4. /\ Len(file') = Len(file) + 1
      /\ file'[1] = file[1] /\ file'[Len(file) + 1] = nodes[at]
      /\ \A j \in 2 .. Len(file) : file'[j] = file[j]
  BY <1>3, AppendList
<1>5. /\ \A j \in 2 .. Len(file') : j \in 2 .. Len(file) \/ j = Len(file) + 1
      /\ \A j \in 2 .. Len(file) : j \in 2 .. Len(file')
      /\ Len(file) + 1 \in 2 .. Len(file')
      /\ file[1] + 1 - (Len(file) + 1) = at
  BY <1>2, <1>3, <1>4
<1>6. HistoryOK'
  BY <1>2 DEF SaveInv, HistoryOK
<1>7. ChainSeen'
  BY <1>2, <1>4 DEF SaveInv, ChainSeen, vars
<1>8. QuietOK'
  <2>1. SUFFICES ASSUME "step" \notin during
                 PROVE  /\ ~next_bucket[file[1] - 1]
                        /\ \A j \in 2 .. Len(file') : file'[j] = nodes[file[1] + 1 - j]
    BY <1>2, <1>4 DEF QuietOK, vars
  <2>2. /\ ~next_bucket[file[1] - 1]
        /\ \A j \in 2 .. Len(file) : file[j] = nodes[file[1] + 1 - j]
    BY <1>2, <2>1 DEF SaveInv, QuietOK
  <2>3. ASSUME NEW j \in 2 .. Len(file') PROVE file'[j] = nodes[file[1] + 1 - j]
    BY <1>4, <1>5, <2>2
  <2>4. QED
    BY <2>2, <2>3
<1>9. KeptOK'
  <2>1. SUFFICES ASSUME "split" \notin during, NEW n \in stable
                 PROVE  /\ InFile(n)' \/ \E i \in Index : i < at /\ n \in Range(nodes[i])
    <3>1. \A i \in Index : i < at => spc' = "write" /\ i <= at'
      BY <1>2 DEF Index
    <3>2. nodes' = nodes
      BY <1>2 DEF vars
    <3>3. QED
      BY <1>2, <2>1, <3>1, <3>2 DEF KeptOK
  <2>2. InFile(n) => InFile(n)'
    BY <1>4, <1>5 DEF InFile
  <2>3. InFile(n) \/ \E i \in Index : i <= at /\ n \in Range(nodes[i])
    BY <1>2, <2>1 DEF SaveInv, KeptOK
  <2>4. ASSUME n \in Range(nodes[at]) PROVE InFile(n)'
    BY <1>4, <1>5, <2>4 DEF InFile
  <2>5. \A i \in Index : i <= at => i < at \/ i = at
    BY <1>2 DEF Index
  <2>6. QED
    BY <2>2, <2>3, <2>4, <2>5
<1>10. PlacedOK'
  <2>1. SUFFICES ASSUME during \subseteq {"step"}, NEW j \in 3 .. Len(file'),
                        NEW p \in DOMAIN file'[j]
                 PROVE  BelongsHere(file[1] + 1 - j, file'[j][p].id)
    BY <1>2, <1>4 DEF PlacedOK, BelongsHere
  <2>2. CASE j \in 3 .. Len(file)
    <3>1. file'[j] = file[j]
      BY <1>4, <2>2
    <3>2. QED
      BY <1>2, <2>1, <2>2, <3>1 DEF SaveInv, PlacedOK
  <2>3. CASE j = Len(file) + 1
    <3>1. at + 1 < file[1]
      BY <1>2, <1>3, <1>4, <2>1, <2>3
    <3>2. next_bucket[at]
      BY <1>2, <3>1 DEF SaveInv, ChainSeen
    <3>3. ~Astray
      BY <1>2, <2>1 DEF SaveInv, HistoryOK
    <3>4. file'[j] = nodes[at] /\ file[1] + 1 - j = at
      BY <1>4, <1>5, <2>3
    <3>5. StopsHere(at, nodes[at][p].id)
      BY <1>2, <2>1, <3>3, <3>4 DEF Astray
    <3>6. QED
      BY <3>2, <3>4, <3>5 DEF StopsHere
  <2>4. QED
    BY <1>3, <1>4, <2>2, <2>3
<1>11. QED
  BY <1>1, <1>6, <1>7, <1>8, <1>9, <1>10 DEF SaveInv

LEMMA SaveNext == SaveInv /\ [FileNext]_allvars => SaveInv'
<1> SUFFICES ASSUME SaveInv, [FileNext]_allvars PROVE SaveInv'
  OBVIOUS
<1>1. ReadInv'
  BY ReadNext DEF SaveInv
<1>2. ASSUME spc' \notin {"walk", "write", "saved"} PROVE SaveInv'
  BY <1>1, <1>2 DEF SaveInv, ChainSeen, HistoryOK, QuietOK, KeptOK, PlacedOK
<1>3. CASE spc = "idle" /\ Reads /\ UNCHANGED fvars
  BY <1>2, <1>3 DEF fvars
<1>4. CASE Restart
  BY <1>2, <1>4 DEF Restart
<1>5. CASE UNCHANGED allvars
  <2>1. /\ spc' = spc /\ at' = at /\ file' = file /\ during' = during /\ stable' = stable
        /\ nodes' = nodes /\ next_bucket' = next_bucket /\ pc' = pc /\ arg' = arg
    BY <1>5 DEF allvars, vars, lvars, fvars
  <2>2. Steady' = Steady /\ Splitting' = Splitting /\ Astray' = Astray
    BY <2>1 DEF Splitting, Astray, Steady, StopsHere, BelongsHere, Places, Transit
  <2>3. ChainSeen' /\ HistoryOK' /\ QuietOK'
    BY <2>1, <2>2 DEF SaveInv, ChainSeen, HistoryOK, QuietOK
  <2>4. KeptOK' /\ PlacedOK'
    BY <2>1 DEF SaveInv, KeptOK, PlacedOK, InFile, BelongsHere
  <2>5. QED
    BY <1>1, <2>3, <2>4 DEF SaveInv
<1>6. QED
  BY <1>3, <1>4, <1>5, SaveStartStep, SaveMeanwhile, SaveWalkStep, SaveWriteStep
     DEF FileNext, Save

(* A saved file, read back.  For every number of tasks that add, split and *)
(* remove during the save.                                                 *)
THEOREM SavedUnlessSplitCorrect == FileSpec => []SavedUnlessSplit
<1>1. FileInit => SaveInv
  BY ReadInit DEF FileInit, SaveInv, ChainSeen, HistoryOK, QuietOK, KeptOK, PlacedOK
<1>2. SaveInv => SavedUnlessSplit
  <2> SUFFICES ASSUME SaveInv, spc = "saved" PROVE SavedUnlessSplit
    BY DEF SavedUnlessSplit
  <2>0. /\ Count = file[1] /\ Count \in 1 .. (MAX_BUCKET_INDEX + 1)
        /\ \A i \in Index : i < Count =>
              /\ file[1] + 1 - i \in 2 .. Len(file)
              /\ LoadedNodes[i] = file[file[1] + 1 - i]
        /\ \A i \in Index : ~(i < Count) => LoadedNodes[i] = <<>>
        /\ \A i \in Index : LoadedNext[i] <=> (i + 1 < Count)
    BY LoadedLemma DEF SaveInv
  <2>1. /\ IInv /\ MAX_BUCKET_INDEX \in Nat /\ Index = 0 .. MAX_BUCKET_INDEX
        /\ Len(file) = file[1] + 1 /\ Count \in Int
    BY <2>0, MaxBitAssumption DEF SaveInv, ReadInv, ListsOK, Index, MAX_BUCKET_INDEX
  <2>2. ASSUME "step" \notin during PROVE LoadedNodes = nodes /\ LoadedNext = next_bucket
    <3>1. ~next_bucket[Count - 1] /\ Count - 1 \in Index
      BY <2>0, <2>1, <2>2 DEF SaveInv, QuietOK
    <3>2. ASSUME NEW i \in Index PROVE LoadedNodes[i] = nodes[i]
      <4>1. CASE i < Count
        <5> DEFINE j == file[1] + 1 - i
        <5>1. j \in 2 .. Len(file) /\ LoadedNodes[i] = file[j] /\ file[1] + 1 - j = i
          BY <2>0, <2>1, <4>1, SMTT(30)
        <5> HIDE DEF j
        <5>2. file[j] = nodes[file[1] + 1 - j]
          BY <2>2, <5>1 DEF SaveInv, QuietOK
        <5>3. QED
          BY <5>1, <5>2
      <4>2. CASE ~(i < Count)
        <5>1. Count - 1 < i
          BY <2>1, <4>2
        <5>2. nodes[i] = <<>>
          BY <2>1, <3>1, <5>1, NoneAfter
        <5>3. QED
          BY <2>0, <4>2, <5>2
      <4>3. QED
        BY <4>1, <4>2
    <3>3. ASSUME NEW i \in Index PROVE LoadedNext[i] <=> next_bucket[i]
      <4>1. CASE i + 1 < Count
        BY <2>0, <4>1 DEF SaveInv, ChainSeen
      <4>2. CASE i = Count - 1
        BY <2>0, <2>1, <3>1, <4>2, SMTT(30)
      <4>3. CASE Count - 1 < i
        <5>1. ~next_bucket[i]
          BY <2>1, <3>1, <4>3, NoneAfter
        <5>2. QED
          BY <2>0, <2>1, <4>3, <5>1, SMTT(30)
      <4>4. QED
        BY <2>1, <4>1, <4>2, <4>3
    <3>4. LoadedNodes = nodes
      BY <2>1, <3>2 DEF LoadedNodes, IInv, TypeOK
    <3>5. LoadedNext = next_bucket
      <4>1. LoadedNext \in [Index -> BOOLEAN] /\ next_bucket \in [Index -> BOOLEAN]
        BY <2>1 DEF LoadedNext, IInv, TypeOK
      <4>2. QED
        BY <3>3, <4>1
    <3>6. QED
      BY <3>4, <3>5
  <2>3. ASSUME "split" \notin during, NEW n \in stable
        PROVE  \E i \in Index : n \in Range(LoadedNodes[i])
    <3>1. PICK j \in 2 .. Len(file) : n \in Range(file[j])
      BY <2>3 DEF SaveInv, KeptOK, InFile
    <3> DEFINE i == file[1] + 1 - j
    <3>2. i \in Index /\ i < Count /\ file[1] + 1 - i = j
      BY <2>0, <2>1
    <3> HIDE DEF i
    <3>3. LoadedNodes[i] = file[j]
      BY <2>0, <3>2
    <3>4. QED
      BY <3>1, <3>2, <3>3
  <2>4. ASSUME during \subseteq {"step"}, NEW i \in Index, NEW p \in DOMAIN LoadedNodes[i],
               LoadedNext[i]
        PROVE  BelongsHere(i, LoadedNodes[i][p].id)
    <3> DEFINE j == file[1] + 1 - i
    <3>1. i + 1 < Count /\ i < Count
      BY <2>0, <2>1, <2>4
    <3>2. LoadedNodes[i] = file[j]
      BY <2>0, <3>1
    <3>3. file[1] \in Int /\ i \in Int /\ i >= 0 /\ i + 1 < file[1] /\ Len(file) = file[1] + 1
      BY <2>0, <2>1, <3>1
    <3>4. j \in 3 .. Len(file) /\ file[1] + 1 - j = i
      <4>1. \A d, k \in Int : k >= 0 /\ k + 1 < d =>
               d + 1 - k \in 3 .. (d + 1) /\ d + 1 - (d + 1 - k) = k
        OBVIOUS
      <4>2. QED
        BY <3>3, <4>1
    <3> HIDE DEF j
    <3>5. QED
      BY <2>4, <3>2, <3>4 DEF SaveInv, PlacedOK
  <2>5. QED
    BY <2>2, <2>3, <2>4 DEF SavedUnlessSplit
<1>3. QED
  BY <1>1, <1>2, SaveNext, PTL DEF FileSpec, allvars

-----------------------------------------------------------------------------
(* A lookup passes no node by *)

(* The frames before j wait for what the rest of the chain adds to them. *)
Path(j) == \A i \in Index : i < j => lpc[i] = "tail"

(* A frame of the path holds the node, or all it can hold. *)
SeenAt(j, n) == Path(j) /\ lpc[j] \in {"tail", "rest", "done"} /\ n \in Range(acc[j])

Seen(n) == \E j \in Index : SeenAt(j, n)

FilledAt(j) == Path(j) /\ lpc[j] \in {"own", "tail", "rest", "done"} /\ Len(acc[j]) = KSize

Filled == \E j \in Index : FilledAt(j)

(* Bucket k is still to be read, after everything that was read so far. *)
UnreadAt(j, k) ==
    /\ Path(j)
    /\ \/ lpc[j] \in {"start", "first", "own"} /\ j <= k
       \/ lpc[j] = "rest" /\ j < k

Unread(k) == \E j \in Index : UnreadAt(j, k)

(* The node is in such a bucket, or a split took it out of one. *)
Ahead(n) ==
    \/ \E k \in Index : n \in Range(nodes[k]) /\ Unread(k)
    \/ \E t \in Task, a, b \in Index :
          /\ a < b /\ pc[t][a] = "migrate" /\ pc[t][b] # "ret" /\ arg[t][b] = n
          /\ Unread(a)

LEMMA UnreadUp ==
    ASSUME NEW a \in Index, NEW b \in Index, a < b, Unread(a)
    PROVE  Unread(b)
<1>1. PICK j \in Index : UnreadAt(j, a)
  BY DEF Unread
<1>2. j <= b /\ (j < a => j < b)
  BY <1>1 DEF UnreadAt, Index
<1>3. QED
  BY <1>1, <1>2 DEF Unread, UnreadAt

(* The places of a steady node. *)
LEMMA SteadyLemma ==
    ASSUME NEW n \in Steady
    PROVE  /\ \A j, k \in Index : n \in Range(nodes[j]) /\ n \in Range(nodes[k]) => j = k
           /\ \A j \in Index : n \in Range(nodes[j]) => Transit(n) = {}
           /\ \A f, g \in Transit(n) : f = g
           /\ Transit(n) = {} => \E j \in Index : n \in Range(nodes[j])
<1>1. CASE (\E i \in Index : Places(n) = {i}) /\ Transit(n) = {}
  BY <1>1 DEF Places
<1>2. CASE Places(n) = {} /\ \E f \in Task \X Index : Transit(n) = {f}
  BY <1>2 DEF Places
<1>3. QED
  BY <1>1, <1>2 DEF Steady

(* A node that changed no bucket's contents but one is where it was. *)
LEMMA SamePlace ==
    ASSUME NEW n, n \in Steady, n \in Steady', Transit(n)' = {},
           NEW i \in Index, \A j \in Index : j # i => nodes'[j] = nodes[j],
           NEW k \in Index, n \in Range(nodes[k])
    PROVE  n \in Range(nodes'[k])
<1>1. /\ \A j, m \in Index : n \in Range(nodes[j]) /\ n \in Range(nodes[m]) => j = m
  BY SteadyLemma
<1>2. (Transit(n) = {} => \E j \in Index : n \in Range(nodes[j]))'
  <2>1. CASE (\E j \in Index : Places(n)' = {j}) /\ Transit(n)' = {}
    BY <2>1 DEF Places
  <2>2. CASE Places(n)' = {} /\ \E f \in Task \X Index : Transit(n)' = {f}
    BY <2>2
  <2>3. QED
    BY <2>1, <2>2 DEF Steady
<1>3. PICK m \in Index : n \in Range(nodes'[m])
  BY <1>2
<1>4. QED
  BY <1>1, <1>3

LEMMA AheadGoto ==
    ASSUME IInv, NEW n, Ahead(n), lpc' = lpc, nodes' = nodes,
           NEW t \in Task, NEW i \in Index, NEW l, l # "ret", Goto(t, i, l),
           \A j \in Index : j > i => pc[t][j] = "ret"
    PROVE  Ahead(n)'
<1>1. \A k \in Index : Unread(k)' <=> Unread(k)
  BY DEF Unread, UnreadAt, Path
<1>2. CASE \E k \in Index : n \in Range(nodes[k]) /\ Unread(k)
  BY <1>1, <1>2 DEF Ahead
<1>3. CASE \E u \in Task, a, b \in Index :
              /\ a < b /\ pc[u][a] = "migrate" /\ pc[u][b] # "ret" /\ arg[u][b] = n
              /\ Unread(a)
  <2>1. PICK u \in Task, a \in Index, b \in Index :
           /\ a < b /\ pc[u][a] = "migrate" /\ pc[u][b] # "ret" /\ arg[u][b] = n
           /\ Unread(a)
    BY <1>3
  <2>2. ~(u = t /\ a = i)
    BY <2>1
  <2>3. pc'[u][a] = "migrate" /\ pc'[u][b] # "ret" /\ arg'[u][b] = n
    BY <2>1, <2>2, GotoEffect DEF IInv
  <2>4. QED
    BY <1>1, <2>1, <2>3 DEF Ahead
<1>4. QED
  BY <1>2, <1>3 DEF Ahead

LEMMA AheadReturn ==
    ASSUME IInv, NEW n, n \in Steady, n \in Steady', Ahead(n), lpc' = lpc,
           NEW t \in Task, NEW i \in Index, pc[t][i] \notin {"ret", "migrate"},
           Return(t, i), \A j \in Index : j # i => nodes'[j] = nodes[j]
    PROVE  Ahead(n)'
<1>0. \A u \in Task, j \in Index :
         /\ pc'[u][j] = IF u = t /\ j = i THEN "ret" ELSE pc[u][j]
         /\ arg'[u][j] = IF u = t /\ j = i THEN NoArg ELSE arg[u][j]
  BY ReturnEffect DEF IInv
<1>1. \A k \in Index : Unread(k)' <=> Unread(k)
  BY DEF Unread, UnreadAt, Path
<1>2. Transit(n)' \subseteq Transit(n) \ {<<t, i>>}
  <2> SUFFICES ASSUME NEW f \in Transit(n)' PROVE f \in Transit(n) /\ f # <<t, i>>
    OBVIOUS
  <2>1. /\ f \in Task \X Index /\ pc'[f[1]][f[2]] # "ret" /\ arg'[f[1]][f[2]] = n
        /\ \E j \in Index : j < f[2] /\ pc'[f[1]][j] = "migrate"
    BY DEF Transit
  <2>2. f[1] \in Task /\ f[2] \in Index /\ ~(f[1] = t /\ f[2] = i)
    BY <1>0, <2>1
  <2>3. /\ pc[f[1]][f[2]] # "ret" /\ arg[f[1]][f[2]] = n
        /\ \E j \in Index : j < f[2] /\ pc[f[1]][j] = "migrate"
    BY <1>0, <2>1, <2>2
  <2>4. QED
    BY <2>1, <2>2, <2>3 DEF Transit
<1>3. CASE \E k \in Index : n \in Range(nodes[k]) /\ Unread(k)
  <2>1. PICK k \in Index : n \in Range(nodes[k]) /\ Unread(k)
    BY <1>3
  <2>2. Transit(n)' = {}
    BY <1>2, <2>1, SteadyLemma
  <2>3. n \in Range(nodes'[k])
    BY <2>1, <2>2, SamePlace
  <2>4. QED
    BY <1>1, <2>1, <2>3 DEF Ahead
<1>4. CASE \E u \in Task, a, b \in Index :
              /\ a < b /\ pc[u][a] = "migrate" /\ pc[u][b] # "ret" /\ arg[u][b] = n
              /\ Unread(a)
  <2>1. PICK u \in Task, a \in Index, b \in Index :
           /\ a < b /\ pc[u][a] = "migrate" /\ pc[u][b] # "ret" /\ arg[u][b] = n
           /\ Unread(a)
    BY <1>4
  <2>2. <<u, b>> \in Transit(n)
    BY <2>1 DEF Transit
  <2>3. CASE ~(u = t /\ b = i)
    <3>1. pc'[u][a] = "migrate" /\ pc'[u][b] # "ret" /\ arg'[u][b] = n
      BY <1>0, <2>1, <2>3
    <3>2. QED
      BY <1>1, <2>1, <3>1 DEF Ahead
  <2>4. CASE u = t /\ b = i
    <3>1. Transit(n)' = {}
      BY <1>2, <2>2, <2>4, SteadyLemma
    <3>2. PICK k \in Index : n \in Range(nodes'[k])
      BY <3>1 DEF Steady, Places
    <3>3. n \notin Range(nodes[k])
      BY <2>2, SteadyLemma
    <3>4. k = i
      BY <3>2, <3>3
    <3>5. Unread(i)
      BY <2>1, <2>4, UnreadUp
    <3>6. QED
      BY <1>1, <3>2, <3>4, <3>5 DEF Ahead
  <2>5. QED
    BY <2>3, <2>4
<1>5. QED
  BY <1>3, <1>4 DEF Ahead

LEMMA AheadTail ==
    ASSUME IInv, NEW n, Ahead(n), lpc' = lpc, nodes' = nodes,
           NEW t \in Task, NEW i \in Index, i + 1 \in Index, pc[t][i] # "migrate",
           \A j \in Index : j > i => pc[t][j] = "ret",
           NEW l, l # "ret", TailCall(t, i, l)
    PROVE  Ahead(n)'
<1>0. \A u \in Task, j \in Index :
         /\ pc'[u][j] = IF u = t /\ j = i + 1 THEN l
                        ELSE IF u = t /\ j = i THEN "ret" ELSE pc[u][j]
         /\ arg'[u][j] = IF u = t /\ j = i + 1 THEN arg[t][i]
                         ELSE IF u = t /\ j = i THEN NoArg ELSE arg[u][j]
  BY TailCallEffect DEF IInv
<1>1. \A k \in Index : Unread(k)' <=> Unread(k)
  BY DEF Unread, UnreadAt, Path
<1>2. CASE \E k \in Index : n \in Range(nodes[k]) /\ Unread(k)
  BY <1>1, <1>2 DEF Ahead
<1>3. CASE \E u \in Task, a, b \in Index :
              /\ a < b /\ pc[u][a] = "migrate" /\ pc[u][b] # "ret" /\ arg[u][b] = n
              /\ Unread(a)
  <2>1. PICK u \in Task, a \in Index, b \in Index :
           /\ a < b /\ pc[u][a] = "migrate" /\ pc[u][b] # "ret" /\ arg[u][b] = n
           /\ Unread(a)
    BY <1>3
  <2>2. i + 1 > i /\ (a < i => a < i + 1)
    BY DEF Index
  <2>3. ~(u = t /\ a = i) /\ ~(u = t /\ a = i + 1) /\ ~(u = t /\ b = i + 1)
    BY <2>1, <2>2
  <2>4. pc'[u][a] = "migrate"
    BY <1>0, <2>1, <2>3
  <2>5. CASE u = t /\ b = i
    <3>1. a < i + 1 /\ pc'[u][i + 1] # "ret" /\ arg'[u][i + 1] = n
      BY <1>0, <2>1, <2>2, <2>5
    <3>2. QED
      BY <1>1, <2>1, <2>4, <3>1 DEF Ahead
  <2>6. CASE ~(u = t /\ b = i)
    <3>1. pc'[u][b] # "ret" /\ arg'[u][b] = n
      BY <1>0, <2>1, <2>3, <2>6
    <3>2. QED
      BY <1>1, <2>1, <2>4, <3>1 DEF Ahead
  <2>7. QED
    BY <2>5, <2>6
<1>4. QED
  BY <1>2, <1>3 DEF Ahead

(* A panic loses what was in transit: the node is not steady any more. *)
LEMMA AheadPanic ==
    ASSUME IInv, NEW n, n \in Steady, n \in Steady', Ahead(n), lpc' = lpc, nodes' = nodes,
           NEW t \in Task, Panic(t)
    PROVE  Ahead(n)'
<1>0. \A u \in Task, j \in Index :
         /\ pc'[u][j] = IF u = t THEN "ret" ELSE pc[u][j]
         /\ arg'[u][j] = IF u = t THEN NoArg ELSE arg[u][j]
  BY PanicEffect DEF IInv
<1>1. \A k \in Index : Unread(k)' <=> Unread(k)
  BY DEF Unread, UnreadAt, Path
<1>2. CASE \E k \in Index : n \in Range(nodes[k]) /\ Unread(k)
  BY <1>1, <1>2 DEF Ahead
<1>3. CASE \E u \in Task, a, b \in Index :
              /\ a < b /\ pc[u][a] = "migrate" /\ pc[u][b] # "ret" /\ arg[u][b] = n
              /\ Unread(a)
  <2>1. PICK u \in Task, a \in Index, b \in Index :
           /\ a < b /\ pc[u][a] = "migrate" /\ pc[u][b] # "ret" /\ arg[u][b] = n
           /\ Unread(a)
    BY <1>3
  <2>2. <<u, b>> \in Transit(n)
    BY <2>1 DEF Transit
  <2>3. Places(n) = {} /\ Places(n)' = Places(n)
    BY <2>2, SteadyLemma DEF Places
  <2>4. PICK f \in Task \X Index : Transit(n)' = {f}
    BY <2>3 DEF Steady
  <2>5. /\ pc'[f[1]][f[2]] # "ret" /\ arg'[f[1]][f[2]] = n
        /\ \E j \in Index : j < f[2] /\ pc'[f[1]][j] = "migrate"
    BY <2>4 DEF Transit
  <2>6. f[1] \in Task /\ f[2] \in Index /\ f[1] # t
    BY <1>0, <2>4, <2>5
  <2>7. f \in Transit(n)
    BY <1>0, <2>4, <2>5, <2>6 DEF Transit
  <2>8. f = <<u, b>>
    BY <2>2, <2>7, SteadyLemma
  <2>9. u # t
    BY <2>6, <2>8
  <2>10. pc'[u][a] = "migrate" /\ pc'[u][b] # "ret" /\ arg'[u][b] = n
    BY <1>0, <2>1, <2>9
  <2>11. QED
    BY <1>1, <2>1, <2>10 DEF Ahead
<1>4. QED
  BY <1>2, <1>3 DEF Ahead

LEMMA AheadStart ==
    ASSUME IInv, NEW n, Ahead(n), lpc' = lpc,
           NEW t \in Task, NEW l, NEW m, Start(t, l, m)
    PROVE  Ahead(n)'
<1>0. /\ nodes' = nodes
      /\ \A u \in Task, j \in Index :
            /\ pc'[u][j] = IF u = t /\ j = 0 THEN l ELSE pc[u][j]
            /\ arg'[u][j] = IF u = t /\ j = 0 THEN m ELSE arg[u][j]
      /\ \A j \in Index : pc[t][j] = "ret"
  BY StartEffect DEF IInv
<1>1. \A k \in Index : Unread(k)' <=> Unread(k)
  BY DEF Unread, UnreadAt, Path
<1>2. CASE \E k \in Index : n \in Range(nodes[k]) /\ Unread(k)
  BY <1>0, <1>1, <1>2 DEF Ahead
<1>3. CASE \E u \in Task, a, b \in Index :
              /\ a < b /\ pc[u][a] = "migrate" /\ pc[u][b] # "ret" /\ arg[u][b] = n
              /\ Unread(a)
  BY <1>0, <1>1, <1>3 DEF Ahead
<1>4. QED
  BY <1>2, <1>3 DEF Ahead

LEMMA AheadMigrate ==
    ASSUME IInv, NEW n, n \in Steady, n \in Steady', Ahead(n), lpc' = lpc,
           NEW t \in Task, NEW i \in Index, MigrateOne(t, i)
    PROVE  Ahead(n)'
<1>0. PICK p \in DOMAIN nodes[i] :
         /\ nodes' = [nodes EXCEPT ![i] = SwapRemove(nodes[i], p)]
         /\ \A u \in Task, j \in Index :
               /\ pc'[u][j] = IF u = t /\ j = i + 1 THEN "add" ELSE pc[u][j]
               /\ arg'[u][j] = IF u = t /\ j = i + 1 THEN nodes[i][p] ELSE arg[u][j]
  BY MigrateEffect
<1>1. \A k \in Index : Unread(k)' <=> Unread(k)
  BY DEF Unread, UnreadAt, Path
<1>2. /\ i + 1 \in Index /\ i < i + 1 /\ i # i + 1 /\ pc[t][i] = "migrate"
      /\ pc[t][i + 1] = "ret" /\ pc'[t][i] = "migrate"
  <2>1. i + 1 \in Index /\ i < i + 1 /\ i # i + 1
    BY MigrateEffect DEF Index
  <2>2. pc[t][i] = "migrate" /\ pc[t][i + 1] = "ret"
    BY <2>1 DEF MigrateOne, At
  <2>3. QED
    BY <1>0, <2>1, <2>2
<1>3. ASSUME NEW k \in Index, n \in Range(nodes[k]), Unread(k) PROVE Ahead(n)'
  <2>1. CASE n = nodes[i][p]
    <3>1. n \in Range(nodes[i])
      BY <2>1 DEF Range
    <3>2. k = i
      BY <1>3, <3>1, SteadyLemma
    <3>3. pc'[t][i + 1] # "ret" /\ arg'[t][i + 1] = n
      BY <1>0, <1>2, <2>1
    <3>4. QED
      BY <1>1, <1>2, <1>3, <3>2, <3>3 DEF Ahead
  <2>2. CASE n # nodes[i][p]
    <3>1. ASSUME NEW f \in Transit(n)' PROVE FALSE
      <4>1. /\ f \in Task \X Index /\ pc'[f[1]][f[2]] # "ret" /\ arg'[f[1]][f[2]] = n
            /\ \E j \in Index : j < f[2] /\ pc'[f[1]][j] = "migrate"
        BY <3>1 DEF Transit
      <4>2. f[1] \in Task /\ f[2] \in Index /\ ~(f[1] = t /\ f[2] = i + 1)
        BY <1>0, <2>2, <4>1
      <4>3. /\ pc[f[1]][f[2]] # "ret" /\ arg[f[1]][f[2]] = n
            /\ \E j \in Index : j < f[2] /\ pc[f[1]][j] = "migrate"
        BY <1>0, <4>1, <4>2
      <4>4. f \in Transit(n)
        BY <4>1, <4>3 DEF Transit
      <4>5. QED
        BY <1>3, <4>4, SteadyLemma
    <3>2. \A j \in Index : j # i => nodes'[j] = nodes[j]
      BY <1>0 DEF IInv, TypeOK
    <3>3. Transit(n)' = {}
      BY <3>1
    <3>4. n \in Range(nodes'[k])
      BY <1>3, <3>2, <3>3, SamePlace
    <3>5. QED
      BY <1>1, <1>3, <3>4 DEF Ahead
  <2>3. QED
    BY <2>1, <2>2
<1>4. ASSUME NEW u \in Task, NEW a \in Index, NEW b \in Index, a < b, pc[u][a] = "migrate",
             pc[u][b] # "ret", arg[u][b] = n, Unread(a)
      PROVE  Ahead(n)'
  <2>1. pc'[u][a] = "migrate" /\ pc'[u][b] # "ret" /\ arg'[u][b] = n
    BY <1>0, <1>2, <1>4
  <2>2. QED
    BY <1>1, <1>4, <2>1 DEF Ahead
<1>5. QED
  BY <1>3, <1>4 DEF Ahead

(* No step of a task takes a steady node out of the lookup's way. *)
LEMMA StepAhead ==
    ASSUME IInv, NEW n, n \in Steady, n \in Steady', Ahead(n), lpc' = lpc,
           NEW t \in Task, NEW i \in Index, Step(t, i)
    PROVE  Ahead(n)'
<1>0. /\ pc[t][i] # "ret" /\ \A j \in Index : j > i => pc[t][j] = "ret"
      /\ next_bucket[i] => i + 1 \in Index
  BY NextInIndex
     DEF Step, At, AddCheckNext, AddCheckLen, FullCheckNext, FullCheckLen, Place, Write,
         MakeNextBucket, LockNodes, MigrateOne, MigrateDone, RemoveRoute, RemoveWrite
<1>1. CASE \E l \in Labels \ {"ret"} : Goto(t, i, l) /\ nodes' = nodes
  BY <1>0, <1>1, AheadGoto
<1>2. CASE AddCheckNext(t, i) \/ AddCheckLen(t, i) \/ FullCheckNext(t, i) \/ FullCheckLen(t, i)
  BY <1>1, <1>2 DEF AddCheckNext, AddCheckLen, FullCheckNext, FullCheckLen, Labels
<1>3. CASE LockNodes(t, i) \/ MigrateDone(t, i)
  BY <1>1, <1>3 DEF LockNodes, MigrateDone, Labels
<1>4. CASE Place(t, i)
  <2>1. pc[t][i] # "migrate" /\ nodes' = nodes
    BY <1>4 DEF Place, At
  <2>2. CASE Goto(t, i, "write")
    BY <1>1, <2>1, <2>2 DEF Labels
  <2>3. CASE next_bucket[i] /\ TailCall(t, i, "add")
    BY <1>0, <2>1, <2>3, AheadTail
  <2>4. CASE Panic(t)
    BY <2>1, <2>4, AheadPanic
  <2>5. QED
    BY <1>4, <2>2, <2>3, <2>4 DEF Place
<1>5. CASE RemoveRoute(t, i)
  <2>1. pc[t][i] # "migrate" /\ nodes' = nodes
    BY <1>5 DEF RemoveRoute, At
  <2>2. CASE Goto(t, i, "remove_write")
    BY <1>1, <2>1, <2>2 DEF Labels
  <2>3. CASE next_bucket[i] /\ TailCall(t, i, "remove")
    BY <1>0, <2>1, <2>3, AheadTail
  <2>4. QED
    BY <1>5, <2>2, <2>3 DEF RemoveRoute, StopsHere
<1>6. CASE MakeNextBucket(t, i)
  <2>1. pc[t][i] \notin {"ret", "migrate"} /\ nodes' = nodes
    BY <1>6 DEF MakeNextBucket, At
  <2>2. CASE Return(t, i)
    BY <2>1, <2>2, AheadReturn
  <2>3. QED
    BY <1>1, <1>6, <2>1, <2>2 DEF MakeNextBucket, Labels
<1>7. CASE Write(t, i) \/ RemoveWrite(t, i)
  <2>1. pc[t][i] \notin {"ret", "migrate"} /\ Return(t, i)
    BY <1>7 DEF Write, RemoveWrite, At
  <2>2. \A j \in Index : j # i => nodes'[j] = nodes[j]
    BY <1>7 DEF Write, RemoveWrite, IInv, TypeOK
  <2>3. QED
    BY <2>1, <2>2, AheadReturn
<1>8. QED
  BY <1>2, <1>3, <1>4, <1>5, <1>6, <1>7, AheadMigrate DEF Step

(* The frames before bucket b keep what they have. *)
LEMMA BelowKept ==
    ASSUME NEW b \in Index,
           \A j \in Index : j < b => lpc'[j] = lpc[j] /\ acc'[j] = acc[j]
    PROVE  /\ \A j \in Index : j <= b /\ Path(j) => Path(j)'
           /\ \A n : Seen(n) => Seen(n)' \/ \E j \in Index : j >= b /\ SeenAt(j, n)
           /\ Filled => Filled' \/ \E j \in Index : j >= b /\ FilledAt(j)
           /\ \A k \in Index : Unread(k) => Unread(k)' \/ \E j \in Index : j >= b /\ UnreadAt(j, k)
<1>1. \A j \in Index : j <= b /\ Path(j) => Path(j)'
  <2>1. \A m, j \in Index : m < j /\ j <= b => m < b
    BY DEF Index
  <2>2. QED
    BY <2>1 DEF Path
<1>2. \A j \in Index : j >= b \/ (j < b /\ j <= b)
  BY DEF Index
<1>3. ASSUME NEW n, Seen(n) PROVE Seen(n)' \/ \E j \in Index : j >= b /\ SeenAt(j, n)
  BY <1>1, <1>2, <1>3 DEF Seen, SeenAt
<1>4. Filled => Filled' \/ \E j \in Index : j >= b /\ FilledAt(j)
  BY <1>1, <1>2 DEF Filled, FilledAt
<1>5. ASSUME NEW k \in Index, Unread(k)
      PROVE  Unread(k)' \/ \E j \in Index : j >= b /\ UnreadAt(j, k)
  BY <1>1, <1>2, <1>5 DEF Unread, UnreadAt
<1>6. QED
  BY <1>1, <1>3, <1>4, <1>5

(* Where a node that the lookup will pass is, and what has to be unread. *)
LEMMA AheadKept ==
    ASSUME NEW n, Ahead(n), UNCHANGED vars, NEW P,
           \A k \in Index : n \in Range(nodes[k]) /\ Unread(k) => Unread(k)' \/ P,
           \A a \in Index : Locked(a) /\ Unread(a) => Unread(a)' \/ P
    PROVE  Ahead(n)' \/ P
<1>1. nodes' = nodes /\ pc' = pc /\ arg' = arg
  BY DEF vars
<1>2. QED
  BY <1>1 DEF Ahead, Locked

(* What a step of a lookup leaves of its duties towards a node. *)
Served(n) == Seen(n) \/ Filled \/ Ahead(n)

LEMMA LookupFirstServes ==
    ASSUME IInv, NEW n, Served(n), UNCHANGED vars, NEW i \in Index, LookupOK, LookupFirst(i)
    PROVE  Served(n)'
<1>1. /\ lpc[i] = "start" /\ acc' = acc /\ lpc'[i] \in {"first", "own"}
      /\ \A j \in Index : j < i => lpc'[j] = lpc[j] /\ acc'[j] = acc[j]
  <2>1. \A j \in Index : j < i => j # i /\ j # i + 1
    BY DEF Index
  <2>2. i # i + 1
    BY DEF Index
  <2>3. QED
    BY <2>1, <2>2 DEF LookupFirst, LAt, LookupOK
<1>2. \A j \in Index : j >= i /\ Path(j) => j = i
  <2>1. \A j \in Index : j >= i => j = i \/ i < j
    BY DEF Index
  <2>2. QED
    BY <1>1, <2>1 DEF Path
<1>3. i <= i
  BY DEF Index
<1>4. Seen(n) => Seen(n)'
  BY <1>1, <1>2, BelowKept DEF SeenAt
<1>5. Filled => Filled'
  BY <1>1, <1>2, BelowKept DEF FilledAt
<1>6. ASSUME NEW k \in Index, Unread(k) PROVE Unread(k)'
  <2>1. CASE \E j \in Index : j >= i /\ UnreadAt(j, k)
    <3>1. UnreadAt(i, k)
      BY <1>2, <2>1 DEF UnreadAt
    <3>2. Path(i)'
      BY <1>1, <1>3, <3>1, BelowKept DEF UnreadAt
    <3>3. UnreadAt(i, k)'
      BY <1>1, <3>1, <3>2 DEF UnreadAt
    <3>4. QED
      BY <3>3 DEF Unread
  <2>2. QED
    BY <1>1, <1>6, <2>1, BelowKept
<1>7. Ahead(n) => Ahead(n)'
  BY <1>6, AheadKept
<1>8. QED
  BY <1>4, <1>5, <1>7 DEF Served

LEMMA LookupOwnServes ==
    ASSUME IInv, NEW n, Served(n), UNCHANGED vars, NEW i \in Index, LookupOK, LookupOwn(i)
    PROVE  Served(n)'
<1>0. nodes[i] \in Seq(Node) /\ acc[i] \in Seq(Node) /\ Len(acc[i]) <= KSize
  BY DEF IInv, TypeOK, LookupOK
<1>1. /\ lpc[i] = "own" /\ lpc'[i] = "rest"
      /\ acc'[i] = acc[i] \o Take(nodes[i], KSize - Len(acc[i]))
      /\ \A j \in Index : j < i => lpc'[j] = lpc[j] /\ acc'[j] = acc[j]
  <2>1. \A j \in Index : j < i => j # i
    BY DEF Index
  <2>2. QED
    BY <2>1 DEF LookupOwn, LAt, LookupOK, Gap
<1>2. \A j \in Index : j >= i /\ Path(j) => j = i
  <2>1. \A j \in Index : j >= i => j = i \/ i < j
    BY DEF Index
  <2>2. QED
    BY <1>1, <2>1 DEF Path
<1>3. /\ Len(acc'[i]) = KSize \/ \A m \in Range(nodes[i]) : m \in Range(acc'[i])
      /\ Len(acc[i]) = KSize => Len(acc'[i]) = KSize
  BY <1>0, <1>1, FilledLemma
<1>4. Path(i) => Path(i)'
  <2>1. i <= i
    BY DEF Index
  <2>2. QED
    BY <1>1, <2>1, BelowKept
<1>5. Seen(n) => Seen(n)'
  BY <1>1, <1>2, BelowKept DEF SeenAt
<1>6. Filled => Filled'
  <2>1. CASE \E j \in Index : j >= i /\ FilledAt(j)
    BY <1>1, <1>2, <1>3, <1>4, <2>1 DEF Filled, FilledAt
  <2>2. QED
    BY <1>1, <2>1, BelowKept
<1>7. ASSUME NEW k \in Index, Unread(k) PROVE Unread(k)' \/ (k = i /\ Path(i)')
  <2>1. CASE \E j \in Index : j >= i /\ UnreadAt(j, k)
    <3>1. Path(i)' /\ i <= k
      BY <1>1, <1>2, <1>4, <2>1 DEF UnreadAt
    <3>2. k = i \/ i < k
      BY <3>1 DEF Index
    <3>3. CASE i < k
      BY <1>1, <3>1, <3>3 DEF Unread, UnreadAt
    <3>4. QED
      BY <3>1, <3>2, <3>3
  <2>2. QED
    BY <1>1, <1>7, <2>1, BelowKept
<1>8. ASSUME Path(i)', n \in Range(nodes[i]) PROVE Seen(n)' \/ Filled'
  BY <1>1, <1>3, <1>8 DEF Seen, SeenAt, Filled, FilledAt
<1>9. ASSUME Path(i)', Locked(i) PROVE Filled'
  <2>1. Len(acc[i]) \in Nat /\ KSize \in Nat /\ ~(KSize - Len(acc[i]) > 0)
    BY <1>0, <1>9, KSizeAssumption, LenProperties DEF LookupOwn, Gap
  <2>2. Len(acc[i]) = KSize
    BY <1>0, <2>1
  <2>3. QED
    BY <1>1, <1>3, <1>9, <2>2 DEF Filled, FilledAt
<1>10. Ahead(n) => Ahead(n)' \/ Seen(n)' \/ Filled'
  <2> DEFINE P == Seen(n)' \/ Filled'
  <2>1. /\ \A k \in Index : n \in Range(nodes[k]) /\ Unread(k) => Unread(k)' \/ P
        /\ \A a \in Index : Locked(a) /\ Unread(a) => Unread(a)' \/ P
    BY <1>7, <1>8, <1>9
  <2> HIDE DEF P
  <2>2. Ahead(n) => Ahead(n)' \/ P
    BY <2>1, AheadKept
  <2>3. QED
    BY <2>2 DEF P
<1>11. QED
  BY <1>5, <1>6, <1>10 DEF Served

(* A chain that ends after bucket i has nothing left to read. *)
LEMMA LookupRestServes ==
    ASSUME IInv, NEW n, Served(n), UNCHANGED vars, NEW i \in Index, LookupOK, LookupRest(i)
    PROVE  Served(n)'
<1>0. Len(acc[i]) \in Nat /\ KSize \in Nat /\ Len(acc[i]) <= KSize
  BY LenProperties, KSizeAssumption DEF LookupOK
<1>1. /\ lpc[i] = "rest" /\ lpc'[i] \in {"tail", "done"} /\ acc' = acc
      /\ \A j \in Index : j < i => lpc'[j] = lpc[j] /\ acc'[j] = acc[j]
      /\ lpc'[i] = "tail" => i + 1 \in Index /\ lpc'[i + 1] = "start"
      /\ lpc'[i] = "done" => Len(acc[i]) = KSize \/ ~next_bucket[i]
  <2>1. (\A j \in Index : j < i => j # i /\ j # i + 1) /\ i # i + 1
    BY DEF Index
  <2>2. CASE Gap(i) > 0 /\ next_bucket[i]
    <3>1. lpc' = [lpc EXCEPT ![i] = "tail", ![i + 1] = "start"] /\ acc' = acc /\ lpc[i] = "rest"
      BY <2>2 DEF LookupRest, LAt
    <3>2. i + 1 \in Index
      BY <2>2, NextInIndex
    <3>3. QED
      BY <2>1, <3>1, <3>2 DEF LookupOK
  <2>3. CASE ~(Gap(i) > 0 /\ next_bucket[i])
    <3>1. lpc' = [lpc EXCEPT ![i] = "done"] /\ acc' = acc /\ lpc[i] = "rest"
      BY <2>3 DEF LookupRest, LAt
    <3>2. ~(Gap(i) > 0) => Len(acc[i]) = KSize
      BY <1>0 DEF Gap
    <3>3. QED
      BY <2>1, <2>3, <3>1, <3>2 DEF LookupOK
  <2>4. QED
    BY <2>2, <2>3
<1>2. \A j \in Index : j >= i /\ Path(j) => j = i
  <2>1. \A j \in Index : j >= i => j = i \/ i < j
    BY DEF Index
  <2>2. QED
    BY <1>1, <2>1 DEF Path
<1>3. Path(i) => Path(i)'
  <2>1. i <= i
    BY DEF Index
  <2>2. QED
    BY <1>1, <2>1, BelowKept
<1>4. Seen(n) => Seen(n)'
  <2>1. CASE \E j \in Index : j >= i /\ SeenAt(j, n)
    BY <1>1, <1>2, <1>3, <2>1 DEF Seen, SeenAt
  <2>2. QED
    BY <1>1, <2>1, BelowKept
<1>5. Filled => Filled'
  <2>1. CASE \E j \in Index : j >= i /\ FilledAt(j)
    BY <1>1, <1>2, <1>3, <2>1 DEF Filled, FilledAt
  <2>2. QED
    BY <1>1, <2>1, BelowKept
<1>6. ASSUME NEW k \in Index, Unread(k)
      PROVE  Unread(k)' \/ Filled' \/ (i < k /\ ~next_bucket[i])
  <2>1. CASE \E j \in Index : j >= i /\ UnreadAt(j, k)
    <3>1. Path(i)' /\ i < k
      BY <1>1, <1>2, <1>3, <2>1 DEF UnreadAt
    <3>2. CASE lpc'[i] = "done"
      BY <1>1, <3>1, <3>2 DEF Filled, FilledAt
    <3>3. CASE lpc'[i] = "tail"
      <4>1. i + 1 <= k /\ \A m \in Index : m < i + 1 => m < i \/ m = i
        BY <3>1 DEF Index
      <4>2. Path(i + 1)'
        BY <3>1, <3>3, <4>1 DEF Path
      <4>3. UnreadAt(i + 1, k)'
        BY <1>1, <3>3, <4>1, <4>2 DEF UnreadAt
      <4>4. QED
        BY <1>1, <3>3, <4>3 DEF Unread
    <3>4. QED
      BY <1>1, <3>2, <3>3
  <2>2. QED
    BY <1>1, <1>6, <2>1, BelowKept
<1>7. ASSUME NEW k \in Index, i < k, ~next_bucket[i] PROVE n \notin Range(nodes[k]) /\ ~Locked(k)
  <2>1. nodes[k] = <<>> /\ ~next_bucket[k]
    BY <1>7, NoneAfter
  <2>2. ~Locked(k)
    BY <2>1 DEF Locked, IInv, ChainOK
  <2>3. QED
    BY <2>1, <2>2 DEF Range
<1>8. Ahead(n) => Ahead(n)' \/ Filled'
  <2> DEFINE P == Filled'
  <2>1. /\ \A k \in Index : n \in Range(nodes[k]) /\ Unread(k) => Unread(k)' \/ P
        /\ \A a \in Index : Locked(a) /\ Unread(a) => Unread(a)' \/ P
    BY <1>6, <1>7
  <2> HIDE DEF P
  <2>2. Ahead(n) => Ahead(n)' \/ P
    BY <2>1, AheadKept
  <2>3. QED
    BY <2>2 DEF P
<1>9. QED
  BY <1>4, <1>5, <1>8 DEF Served

LEMMA LookupReturnServes ==
    ASSUME IInv, NEW n, Served(n), UNCHANGED vars, NEW i \in Index, LookupOK, LookupReturn(i),
           i # 0
    PROVE  Served(n)'
<1> DEFINE b == i - 1
<1>0. /\ b \in Index /\ b < i /\ b <= b /\ b # i
      /\ \A j \in Index : j >= b => j = b \/ j = i \/ i < j
      /\ \A j \in Index : j < b => j # i /\ j # b
      /\ \A j \in Index : j < i => j = b \/ j < b
  BY MaxBitAssumption DEF Index, MAX_BUCKET_INDEX
<1>1. /\ lpc[i] = "done"
      /\ \/ /\ lpc[b] = "first"
            /\ lpc' = [lpc EXCEPT ![i] = "ret", ![b] = "own"]
            /\ acc' = [acc EXCEPT ![i] = <<>>, ![b] = acc[i]]
         \/ /\ lpc[b] = "tail"
            /\ lpc' = [lpc EXCEPT ![i] = "ret", ![b] = "done"]
            /\ acc' = [acc EXCEPT ![i] = <<>>, ![b] = acc[b] \o Take(acc[i], KSize - Len(acc[b]))]
  BY <1>0 DEF LookupReturn, LAt, Gap, LookupOK
<1> HIDE DEF b
<1>2. \A j \in Index : j < b => lpc'[j] = lpc[j] /\ acc'[j] = acc[j]
  BY <1>0, <1>1 DEF LookupOK
<1>3. \A j \in Index : j >= b /\ Path(j) => j = b \/ (j = i /\ lpc[b] = "tail")
  BY <1>0, <1>1 DEF Path
<1>4. Path(b) => Path(b)'
  BY <1>0, <1>2, BelowKept
<1>5. Path(i) => Path(b)
  <2>1. \A j \in Index : j < b => j < i
    BY <1>0 DEF Index
  <2>2. QED
    BY <2>1 DEF Path
<1>6. CASE lpc[b] = "first"
  <2>1. lpc'[b] = "own"
    BY <1>0, <1>1, <1>6 DEF LookupOK
  <2>2. Seen(n) => Seen(n)'
    BY <1>0, <1>2, <1>3, <1>6, BelowKept DEF SeenAt
  <2>3. Filled => Filled'
    BY <1>0, <1>2, <1>3, <1>6, BelowKept DEF FilledAt
  <2>4. ASSUME NEW k \in Index, Unread(k) PROVE Unread(k)'
    <3>1. CASE \E j \in Index : j >= b /\ UnreadAt(j, k)
      BY <1>0, <1>3, <1>4, <1>6, <2>1, <3>1 DEF Unread, UnreadAt
    <3>2. QED
      BY <1>0, <1>2, <2>4, <3>1, BelowKept
  <2>5. Ahead(n) => Ahead(n)'
    BY <2>4, AheadKept
  <2>6. QED
    BY <2>2, <2>3, <2>5 DEF Served
<1>7. CASE lpc[b] = "tail"
  <2>0. acc[i] \in Seq(Node) /\ acc[b] \in Seq(Node) /\ Len(acc[b]) <= KSize
    BY <1>0 DEF LookupOK
  <2>1. lpc'[b] = "done" /\ acc'[b] = acc[b] \o Take(acc[i], KSize - Len(acc[b]))
    BY <1>0, <1>1, <1>7 DEF LookupOK
  <2>2. /\ \A m \in Range(acc[b]) : m \in Range(acc'[b])
        /\ Len(acc'[b]) = KSize \/ \A m \in Range(acc[i]) : m \in Range(acc'[b])
        /\ Len(acc[b]) = KSize \/ Len(acc[i]) = KSize => Len(acc'[b]) = KSize
    BY <2>0, <2>1, FilledLemma
  <2>3. Seen(n) => Seen(n)' \/ Filled'
    <3>1. CASE \E j \in Index : j >= b /\ SeenAt(j, n)
      BY <1>0, <1>3, <1>4, <1>5, <2>1, <2>2, <3>1 DEF Seen, SeenAt, Filled, FilledAt
    <3>2. QED
      BY <1>0, <1>2, <3>1, BelowKept
  <2>4. Filled => Filled'
    <3>1. CASE \E j \in Index : j >= b /\ FilledAt(j)
      BY <1>0, <1>3, <1>4, <1>5, <2>1, <2>2, <3>1 DEF Filled, FilledAt
    <3>2. QED
      BY <1>0, <1>2, <3>1, BelowKept
  <2>5. \A k \in Index : Unread(k) => Unread(k)'
    BY <1>0, <1>1, <1>2, <1>3, <1>7, BelowKept DEF UnreadAt
  <2>6. Ahead(n) => Ahead(n)'
    BY <2>5, AheadKept
  <2>7. QED
    BY <2>3, <2>4, <2>6 DEF Served
<1>8. QED
  BY <1>1, <1>6, <1>7

(* While a lookup runs, it has seen each stable node, or found k_size, or  *)
(* has the node before it.                                                 *)
CompleteInv ==
    /\ ReadInv
    /\ LIdle => \A j \in Index : lpc[j] = "ret"
    /\ ~LIdle => spc = "idle"
    /\ ~LIdle => \A n \in stable : n \in Steady /\ Served(n)

LEMMA CompleteStart ==
    ASSUME CompleteInv, ReadInv', NEW id \in Target, LookupStart(id), UNCHANGED <<vars, fvars>>,
           spc = "idle"
    PROVE  CompleteInv'
<1>1. /\ 0 \in Index /\ lpc'[0] = "start" /\ ~LIdle' /\ Steady' = Steady /\ stable' = Steady
      /\ nodes' = nodes /\ pc' = pc /\ arg' = arg
  BY MaxBitAssumption, TargetAssumption
     DEF LookupStart, LIdle, CompleteInv, ReadInv, LookupOK, Index, MAX_BUCKET_INDEX, vars,
         Steady, Places, Transit
<1>2. \A k \in Index : 0 <= k /\ ~(k < 0)
  BY DEF Index
<1>3. \A k \in Index : UnreadAt(0, k)'
  BY <1>1, <1>2 DEF UnreadAt, Path
<1>4. \A k \in Index : Unread(k)'
  BY <1>1, <1>3 DEF Unread
<1>5. ASSUME NEW n \in Steady PROVE Ahead(n)'
  <2>1. CASE Transit(n) = {}
    <3>1. \E j \in Index : n \in Range(nodes[j])
      BY <2>1, SteadyLemma
    <3>2. QED
      BY <1>1, <1>4, <3>1 DEF Ahead
  <2>2. CASE Transit(n) # {}
    <3>1. PICK f \in Task \X Index :
             /\ pc[f[1]][f[2]] # "ret" /\ arg[f[1]][f[2]] = n
             /\ \E a \in Index : a < f[2] /\ pc[f[1]][a] = "migrate"
      BY <2>2 DEF Transit
    <3>2. f[1] \in Task /\ f[2] \in Index
      OBVIOUS
    <3>3. QED
      BY <1>1, <1>4, <3>1, <3>2 DEF Ahead
  <2>3. QED
    BY <2>1, <2>2
<1>6. QED
  BY <1>1, <1>5 DEF CompleteInv, Served, fvars

LEMMA CompleteLookup ==
    ASSUME CompleteInv, ReadInv', NEW i \in Index, LookupStep(i), UNCHANGED <<vars, fvars>>,
           spc = "idle"
    PROVE  CompleteInv'
<1>0. /\ IInv /\ LookupOK /\ UNCHANGED vars /\ spc' = spc /\ Steady' = Steady
  BY DEF CompleteInv, ReadInv, vars, fvars, Steady, Places, Transit
<1>1. ~LIdle
  BY DEF CompleteInv, LookupStep, LookupFirst, LookupOwn, LookupRest, LookupReturn, LAt
<1>2. CASE LookupReturn(i) /\ i = 0
  <2>1. /\ LIdle' /\ \A j \in Index : lpc'[j] = "ret"
    <3>1. \A j \in Index : j > 0 \/ j = 0
      BY DEF Index
    <3>2. QED
      BY <1>0, <1>2, <3>1 DEF LookupReturn, LIdle, LAt, LookupOK
  <2>2. QED
    BY <2>1 DEF CompleteInv
<1>3. CASE ~(LookupReturn(i) /\ i = 0)
  <2>1. target' = target /\ stable' = stable
    BY <1>3 DEF LookupStep, LookupFirst, LookupOwn, LookupRest, LookupReturn
  <2>2. ASSUME NEW n \in stable PROVE Served(n)'
    <3>1. Served(n)
      BY <1>1 DEF CompleteInv
    <3>2. QED
      BY <1>0, <1>3, <3>1, LookupFirstServes, LookupOwnServes, LookupRestServes,
         LookupReturnServes DEF LookupStep
  <2>3. QED
    BY <1>0, <1>1, <2>1, <2>2 DEF CompleteInv, LIdle
<1>4. QED
  BY <1>2, <1>3

LEMMA CompleteMeanwhile ==
    ASSUME CompleteInv, ReadInv', Meanwhile
    PROVE  CompleteInv'
<1>1. /\ target' = target /\ lpc' = lpc /\ acc' = acc /\ spc' = spc /\ IInv /\ Next
      /\ stable' = stable \cap Steady'
  BY DEF Meanwhile, Others, CompleteInv, ReadInv
<1>2. ASSUME ~LIdle, NEW n \in stable, n \in Steady' PROVE Served(n)'
  <2>1. n \in Steady /\ Served(n)
    BY <1>2 DEF CompleteInv
  <2>2. Seen(n) => Seen(n)'
    BY <1>1 DEF Seen, SeenAt, Path
  <2>3. Filled => Filled'
    BY <1>1 DEF Filled, FilledAt, Path
  <2>4. Ahead(n) => Ahead(n)'
    <3>1. ASSUME NEW t \in Task, NEW m \in Node, StartAdd(t, m) \/ StartRemove(t, m), Ahead(n)
          PROVE  Ahead(n)'
      BY <1>1, <3>1, AheadStart DEF StartAdd, StartRemove
    <3>2. ASSUME NEW t \in Task, NEW i \in Index, Step(t, i), Ahead(n)
          PROVE  Ahead(n)'
      BY <1>1, <1>2, <2>1, <3>2, StepAhead
    <3>3. QED
      BY <1>1, <3>1, <3>2 DEF Next
  <2>5. QED
    BY <2>1, <2>2, <2>3, <2>4 DEF Served
<1>3. QED
  BY <1>1, <1>2 DEF CompleteInv, LIdle

LEMMA CompleteNext == CompleteInv /\ [FileNext]_allvars => CompleteInv'
<1> SUFFICES ASSUME CompleteInv, [FileNext]_allvars PROVE CompleteInv'
  OBVIOUS
<1>1. ReadInv'
  BY ReadNext DEF CompleteInv
<1>2. CASE spc = "idle" /\ Reads /\ UNCHANGED fvars
  BY <1>1, <1>2, CompleteStart, CompleteLookup DEF Reads
<1>3. CASE SaveStart \/ Save \/ Restart
  <2>1. LIdle /\ target' = target /\ lpc' = lpc
    BY <1>3 DEF CompleteInv, SaveStart, Save, SaveWalk, SaveWrite, Restart, lvars
  <2>2. QED
    BY <1>1, <2>1 DEF CompleteInv, LIdle
<1>4. CASE UNCHANGED allvars
  <2>1. /\ nodes' = nodes /\ pc' = pc /\ arg' = arg /\ spc' = spc
        /\ target' = target /\ lpc' = lpc /\ acc' = acc /\ stable' = stable
    BY <1>4 DEF allvars, vars, lvars, fvars
  <2>2. Steady' = Steady
    BY <2>1 DEF Steady, Places, Transit
  <2>3. \A n : Seen(n) => Seen(n)'
    BY <2>1 DEF Seen, SeenAt, Path
  <2>4. Filled => Filled'
    BY <2>1 DEF Filled, FilledAt, Path
  <2>5. \A k \in Index : Unread(k) => Unread(k)'
    BY <2>1 DEF Unread, UnreadAt, Path
  <2>6. \A n : Ahead(n) => Ahead(n)'
    BY <2>1, <2>5 DEF Ahead
  <2>7. QED
    BY <1>1, <2>1, <2>2, <2>3, <2>4, <2>6 DEF CompleteInv, LIdle, Served
<1>5. QED
  BY <1>1, <1>2, <1>3, <1>4, CompleteMeanwhile DEF FileNext

(* An answer of fewer than k_size nodes holds every node that was in one   *)
(* place from the call to the return: for every number of tasks, buckets   *)
(* and nodes, whatever splits move them ahead of the lookup.               *)
THEOREM LookupCompleteCorrect == FileSpec => []LookupComplete
<1>1. FileInit => CompleteInv
  BY ReadInit DEF FileInit, LInit, CompleteInv, LIdle
<1>2. CompleteInv => LookupComplete
  <2> SUFFICES ASSUME CompleteInv, lpc[0] = "done", Len(acc[0]) < KSize, NEW n \in stable
               PROVE  n \in Range(acc[0])
    BY DEF LookupComplete
  <2>1. 0 \in Index /\ \A j \in Index : j = 0 \/ 0 < j
    BY MaxBitAssumption DEF Index, MAX_BUCKET_INDEX
  <2>2. Served(n)
    BY <2>1 DEF CompleteInv
  <2>3. \A j \in Index : Path(j) => j = 0
    BY <2>1 DEF Path
  <2>4. ~Ahead(n)
    BY <2>3 DEF Ahead, Unread, UnreadAt
  <2>5. Len(acc[0]) # KSize
    BY <2>1, LenProperties, KSizeAssumption DEF CompleteInv, ReadInv, LookupOK
  <2>6. ~Filled
    BY <2>3, <2>5 DEF Filled, FilledAt
  <2>7. QED
    BY <2>2, <2>3, <2>4, <2>6 DEF Served, Seen, SeenAt
<1>3. QED
  BY <1>1, <1>2, CompleteNext, PTL DEF FileSpec, allvars
=============================================================================
