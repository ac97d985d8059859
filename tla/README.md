# A TLA+ model of dht-explorer

dht-explorer is a Kademlia node for the BitTorrent DHT: a routing table shared
by many tokio tasks, a KRPC messenger over UDP, an iterative search, and a
server that stores announced peers. This directory models it in TLA+, checks
small instances with TLC, and proves with TLAPS the safety invariants of the
routing table, the router, the bucket file, the messenger, the search, the
sweep, the server and the messages between nodes, and the arithmetic of the
identifiers. `PROJECT.json` is
the index: components, runs, the source lines behind every definition, findings,
hazards and theorems.

## Inventory

| Component | Source | State | Operations | What is hard |
|---|---|---|---|---|
| Routing table | `router/bucket.rs` | per bucket: `nodes` behind an `RwLock`, `next_bucket` in a `OnceCell` | `add`, `add_or_update`, `make_next_bucket`, `lookup`, `remove` | decisions under one lock and effects under another; a split holds a write lock over nested adds |
| Router | `router.rs` | `banned_ids` | `add`, `ban_id`, `lookup` | the ban list and the table change under different locks |
| Bucket file | `router/bucket.rs` | a file | `save_to_file`, `load_from_file` | a snapshot list by list, last bucket first, while tasks go on; a stop in the middle |
| Messenger | `messenger.rs`, `messenger/service.rs` | `queries_outbound`, `max_q`, one oneshot channel per query | `query`, `query_unbounded`, `recv`, `return_result`, `remove_from_queue`, `send_message` | lost, late, repeated replies; a timer racing a reply; permits |
| Codec | `messenger/message/**` | none | `receive`, `to_kmsg`, `from_kmsg`, the compact byte strings | the kind of a response follows from its keys; foreign and malformed dictionaries |
| Search | `node.rs` 99-192, `utils.rs` | `seen`, `ignore`, `peers`, running queries | `find_n_starting_at`, `send_find` | answers in any order, failures, one id under two addresses, termination |
| Server | `node.rs` 325-432, `node/token.rs` | sled tree of peers, token key | `handle_query` and its handlers, `generate`, `validate` | tokens after a restart or a change of the clock; crashes before a flush |
| Identifiers, node information | `u160.rs`, `node_info.rs` | none | distance, order, bits, shifts, `from_ip`, `validate`, bytes | two limbs of unequal width; random bits around fixed ones |
| Sweep | `node.rs` 205-310 | `queried`, `to_send`, the backfill handle | `infohash_sweep` | a detached task, a queue that runs dry, a channel that fills or closes |
| Bootstrap | `node.rs` 66-76 | none of its own | `bootstrap` | an unreachable node; a table that knows one node |
| Command line, logging | `main.rs`, `parameters.rs`, `lib.rs` | none of their own | | |

How they interact. `Node` draws a transaction id, calls `Messenger::query`, and
adds who answered to the router, or bans who did not. The receiving task of the
messenger hands replies to waiting queries through oneshot channels and queries
to the `Server`, which adds the sender to the router, reads or writes the peer
store and looks nodes up. The routing table is thus used by all handlers and
all searches at once, without a lock of its own around it.

What makes each part correct:

* routing table: buckets never overflow, hold no id twice and hold only ids of
  their range; splits neither deadlock nor lose nodes; what is stored can be
  found; `lookup` is bounded, complete and returns;
* router: a banned id stays out unless its removal races an add or a split, the
  list stays bounded;
* bucket file: what was in the table throughout is in the file and comes back
  where it is looked for; saving ends;
* messenger: a query gets no reply with another transaction id, each query
  returns, nothing is left behind, permits balance;
* codec: what one node says is what the other understands, and no exchange of
  errors goes on for ever;
* identifiers: the operators on two limbs are those of 160-bit numbers, and a
  node's own id is valid for its address;
* search: it ends, misses nothing that was reported, tolerates failures, asks
  each id once and returns those whose queries got a response;
* sweep: it asks each node once, forgets nothing it learnt in time, and ends;
* server: only the holder of a fresh token of this run gets a peer stored, and
  a crash loses nothing that was flushed.

## Modules

| Module | Models | Extends |
|---|---|---|
| `U160` | identifiers as bit vectors, bit 0 most significant | |
| `U160Limbs` | identifiers as a u128 and a u32, with every operator of `u160.rs` | instance of `U160` |
| `NodeInfo` | `from_ip` and `validate` (BEP 42) for any checksum | `U160` |
| `Bucket` | the chain of buckets and the tasks in it | `U160` |
| `Table` | abstract: a table bounded per prefix length, without buckets | `U160` |
| `BucketTable` | the refinement mapping from `Bucket` to `Table` | `Bucket` |
| `BucketLookup` | `lookup` while tasks add, split and remove | `BucketTable` |
| `BucketFile` | saving the chain, stopping, loading it | `BucketLookup` |
| `Router` | the ban list in front of the table; requests at once, and one after the other | `BucketLookup` |
| `Messenger` | queries, queue, channels, timers, semaphore, network | |
| `Find` | one iterative search, or a bootstrap | `NodeInfo` |
| `Sweep` | `infohash_sweep` and its backfill | `U160` |
| `Server` | handlers, tokens, peer store, crash | |
| `Codec` | `to_kmsg`, `from_kmsg` and the byte strings | |
| `Exchange` | nodes that send each other encoded messages | `Codec` |
| `BucketProofs` | theorems about the chain, lemmas about its operations and `lookup` | `BucketLookup` |
| `RouterProofs`, `FileProofs` | theorems | `Router`, `BucketFile`, both with `BucketProofs` |
| `ServerProofs` | theorems | `Server`, `Exchange` |
| `MessengerProofs`, `FindProofs`, `SweepProofs`, `U160Proofs` | theorems | the module of that name |
| `MC...` | instances for TLC | |

### Bucket

`nodes[i]` and `next_bucket[i]` are the fields of bucket `i`; `own_id` and
`k_size` are the same in every bucket and are constants. A task is a stack of
frames, at most one per bucket because each recursive call goes to the next
bucket, so `pc[t][i]` is a label and `arg[t][i]` the node. Each label is one
await of a lock or one read of the `OnceCell`; the code between two of them
runs without interference. `add` is `AddCheckNext`, `AddCheckLen`,
`FullCheckNext`, `FullCheckLen`, `Place` and `Write`; `make_next_bucket` is
`MakeNextBucket`, `LockNodes`, `MigrateOne` (which calls `add` in the next
bucket and keeps the write lock) and `MigrateDone`; `remove` is `RemoveRoute`
and `RemoveWrite`. A failed `unwrap` unwinds the task and drops its guards
(`Panic`). The task that calls is any handler or search.

### BucketTable, BucketLookup, Router

A lookup changes nothing, so one reader beside the tasks stands for any number.
Its variable `stable` is a history: the nodes that were in one place (`Steady`:
in one bucket, or in one call of a split) ever since the lookup or the save
began. An add that races with a split can leave a second copy of a node in a
bucket where `remove` does not look, and a reader that finds neither copy where
it is at the moment has missed nothing that was in one place.
`Router` adds `banned_ids`; the reads and writes of the list happen in the step
that starts the call on the table, because the first step of that call comes
later in any case. `contested` is a history: the banned ids whose removal met
an add of the same id or a split. `RouterSpec` lets tasks add and ban at once;
`RouterSerialSpec` starts a request only when none is running. Used like that
the chain implements `Table`: `stored` is what is in a bucket or on its way
between two, `call` the outermost frame, and a call takes effect at its last
step.

### BucketFile

The file is the sequence of what was written: the depth, then the lists from
the last bucket to the first. `SaveWalk` reads the `OnceCell`s downwards,
`SaveWrite` takes one read lock each on the way back; a task of `Bucket` takes
its steps in between. `during` is a history: whether a task moved, whether
a split was in progress at some time of the save, and whether an earlier race
had put a node astray. `Restart` ends the process
during a save or after it and starts the next one, from the file if it is
complete and from an empty root otherwise; a prefix of the file does not parse.
`own_id` and `k_size`, which the file carries too, are constants, and a node is
written and read as it is (26 or 38 bytes, told apart by their length).

### Messenger

One node makes queries. A query goes through draw of an id, permit, push, send,
wait, and ends by a reply, its timer, a closed channel or a failed send. The
channel of a query lives in its queue entry and then in the receiving task
(`delivering`); `Position` is `remove_from_queue`, by id and else by address.
The network keeps every packet, so each may be delivered never, late, or more
than once. Besides, replies that nobody asked for arrive at any time, from any
`Stranger`, with the id of any query or with none of ours (`Stray`): the code
looks for the id alone and compares the source of a packet with nobody it asked.
The one use of the source is the search by address when no entry has the id.
All entries carry our own address, so that search finds something only for a
timer, and for a reply from ourselves.

### Find

`batch` is `found_nodes`, examined node by node; a query that ends is processed
when the batch is empty, as the loop does. What a node answers is chosen
freely among all sets of at most `MaxReply` nodes. The origin of a response,
the id it claims and the address its packet came from, goes to `router.add` and
is compared with nothing, so it is any member of `Origin`; `answered` is a
history, the nodes whose query got a response. `seen` is ordered by distance, so
membership is by id. `Valid` is `validate` of `NodeInfo` with a checksum given
by the instance. A query whose task panics in the table passes the panic on to
the search (`Panics`). A bootstrap is the same search after a ping.

### Sweep

The loop of `infohash_sweep` with one step per await that matters: the result
of a query, each sample sent, the look at the gap, the check of the backfill
handle, the queueing, the next query. The backfill is a process of its own that
outlives the loop; the channel and its receiver are external. Queries and
searches are atomic here, because they touch nothing of the sweep: `Messenger`
and `Find` model them.

### U160Limbs, NodeInfo

Words are vectors of bits, with the operators of Rust defined on them; the
definitions of `u160.rs` follow the source at full width, the clamped shifts
and the carries between the limbs included. `NodeInfo` states the same
`validate` for any width and any checksum, which `Find` uses.

### Server

Handlers run concurrently but change the store in one `fetch_and_update`, so
each is one action. A token is the record of what is encrypted in it; crc32c
and ChaCha20 are taken as perfect. `time` is what has really passed and `now`
what the clock shows: `Tick` moves both, `SetClock` puts the clock anywhere in
its range. The program sees `now` alone; a token remembers in `at` when it was
really handed out, and `setback` holds those handed out before the clock was set
back, for the property only. Only tokens that were handed out are tried: under
the perfect hash anything else is refused like a token of another key. `Flush` is sled's periodic flush, `Restart` a crash followed by
`Node::new`, with a new key and an empty table, for nothing writes the bucket
file. Nodes handed to the router are collected in `router`; what becomes of
them is the subject of `Router`.

### Codec, Exchange

A dictionary is a record of its keys, an absent key is `None`. A byte string is
what its decoder looks at: the length and value of an id, the length of an
address, the chunks of a list and the bytes left over. A dictionary with an id
that is too long or a boolean that is neither 0 nor 1 is not read at all
(`Parses`), and nobody is told. In `Exchange` nodes with their own idea of their address
send each other every method, handlers answer with every kind they can produce
(which one depends on state that `Server` models), and other implementations
send well-formed and malformed dictionaries. Transaction ids are numbered over
all nodes so that the history can tell queries apart. Of the `bep44` arguments
only `v` is kept, because it alone decides anything; the client version is not
kept.

## Runs

| Run | Distinct states | Checks |
|---|---|---|
| `router_concurrent` | 171,171 | two tasks that add and ban at once: `TypeOK`, `Capacity`, `ChainOK`, `LockOrder`, `BanOvertaken`, `Retention`, `Termination` |
| `router_serial` | 481,282 | one request at a time: `BanListBounded`, `SerialSound`, `NearestBuckets`, `ImplementsTable` |
| `readers` | 428,245 | a lookup or a save beside a task, and a restart: `FileTypeOK`, `RangeOK`, `LookupBounded`, `LookupComplete`, `SavedUnlessSplit`, `ReadersReturn` |
| `messenger` | 239,201 | `MTypeOK`, `AnswerMatches`, `NoLeak`, `PermitsBalance`, `EveryQueryReturns` |
| `find` | 146,313 | `FTypeOK`, `NothingMissed`, `AnswerClosest`, `AskedOnce`, `AnswerResponded`, `SearchEnds` |
| `sweep` | 58,602 | `SweepTypeOK`, `SweptOnce`, `SweptAll`, `SweepEnds` |
| `server` | 1,387,733 | `STypeOK`, `StoreIntact`, `AnnounceAuthorised` |
| `exchange` | 124,211 | `RequestFaithful`, `ReplyFaithful`, `AllUnderstood`, `Settles` |

What they show: in every interleaving of the instance the buckets keep their
bounds and ranges, splits neither deadlock nor lose a node except when other
tasks crowd it out or the task panics, and lookups miss nothing. A banned id is
found in the table only if its removal met an add of the same id or a split,
or if an earlier race had misplaced its node. A lookup and a saved file are
complete for the nodes that stayed in one place, the file unless a
split ran into the save. One request at
a time the table keeps all its promises. A query gets a reply with its own id, or one
that came from our own address, and every query returns. Searches end and lose
nothing to an unlucky order of answers, and return nobody who fits its address
and whose query got no response. A sweep asks each node once and leaves unasked only what a backfill
adds when no traveller is left. Peers are stored only for tokens that are fresh
by the clock, and really fresh unless the clock was set back; a crash
costs only what was not flushed. Messages keep their meaning on the wire.

Four runs end in a violation, each showing that the code does something else
than a line of the repository says (the lines are in `PROJECT.json`,
"findings"):

* `bucket_panic`: a `remove` between the two length checks of `add` leads to
  the `unwrap` of an unset `OnceCell`;
* `bucket_findable`: an `add` that checked before a split writes after it, into
  a bucket where `remove` never looks for the id, and `lookup` only to fill a
  gap;
* `lookup_distinct`: after removals `lookup` names a node twice;
* `messenger_timeout`: entries carry the querying node's own address, so a
  timer that loses the race against its reply removes another query's entry.

The panic needs a remove: without removes it is proved impossible
(`AddsNeverPanic`). One request at a time neither it nor the misplaced node
occurs (`SerialSound`).

Three smaller deviations are built into the definitions: within a bucket
`lookup` takes the oldest nodes and not the closest (so `NearestBuckets` speaks
of buckets), a search returns nodes that failed validation if they were seen
(`Examine`, and `AnswerResponded` says that they were not asked), and `nth(2 *
K_SIZE)` admits one node more than its comment says (`CloseEnough`;
`NothingMissed` and `AnswerClosest` ask only for what the comment says, so they
would hold of either).

### Bounds

Identifiers have three bits, so that a first, a middle
and a last bucket exist, and `k_size` is 1 or 2, so that buckets overflow after
a few adds. The node sets put more nodes into one prefix than fit, include
`own_id`, which belongs in no bucket, and, where addresses matter, one id with
two addresses. Two tasks suffice for every pair of conflicting operations; in `readers` one
task and a reader are the pair. Only a race of two tasks makes a second copy of a
node, and a reader beside two tasks exceeds this instance; that the safety
properties of `readers` hold beside any number of tasks is proved.
`messenger` has three queries and as many transaction ids, so that a queue of
three with every order of replies and timers occurs. The node asked is the node
itself, the one peer whose replies match every entry by address; one stranger
who sends every id stands for all other peers, prompt, late or uncalled for; repetition of ids
(`TidSpace` smaller than the number of queries) is left out on purpose, see the
hazards. `find` has nodes of which one does not fit its address and one id has two
addresses, and answers of up to two nodes; with `K_SIZE` 1 the limit of three
is reached. Responses come from a node that was reported and from one nobody
asked. `sweep` has two travellers, one id with two addresses, gaps that
are large and gaps that are not, and a channel of one sample, so that the
second result blocks on it. `readers` looks up an id of the middle bucket, which takes every branch of
`lookup`, and saves once: nothing writes the file after a
save, so a second one shows nothing new. `router_serial` looks up every id of three bits; its ban list of at most two
overflows after three bans. `server` has a clock of
three seconds around a validity of two, one crash, two tokens and two senders,
one of them with an id that does not fit. `exchange`
starts two exchanges at a time, all methods and kinds included.
Deadlock is not checked in `find`, `sweep`, `messenger`, `exchange`: a search
and a sweep end, queries are finitely many, and a network may fall silent.
Tasks and queries are interchangeable; the violation runs without liveness use
that symmetry.

### Fairness

* `RouterSpec`, `RouterSerialSpec`, `FileSpec`: weak fairness of each task's
  steps, of a lookup and of the saving thread. Tokio
  polls a task that is woken and its `RwLock` queues fairly; a lock is held
  across steps only during a split, which happens once per bucket, so strong
  fairness is not needed. Nobody is obliged to start an operation.
* `MSpec`: weak fairness of each query, whose timer fires in the end, and of
  the receiving task once it has taken an entry. Nothing is assumed of the
  network or of peers.
* `FSpec`: the search goes on; that its queries return is
  `EveryQueryReturns` of `Messenger`.
* `SweepSpec`: the loop, the backfill and the receiver go on, each weakly fair;
  queries and searches end by the two modules above.
* `XSpec`: a packet is delivered or lost in the end.

## Proofs

### The chain: `BucketProofs`

`BucketProofs` proves, for every number of tasks, every set of nodes, every
`k_size` above zero and every width of identifiers,

* `TypeCorrect`, `CapacityCorrect`, `DistinctCorrect`, `RangeCorrect`,
  `ChainCorrect`, `LockOrderCorrect`: `Spec => []P` for six invariants. Five of
  them `router_concurrent` and `readers` check; `DistinctInBucket` says something
  only where two tasks meet in a bucket that holds two nodes, which is beyond
  those instances, and is proved instead;
* `AddsNeverPanic`: `AddOnlySpec => []NoPanic`.

Assumptions: `MaxBitAssumption`, `NodeAssumption`, `OwnIdAssumption`,
`KSizeAssumption`, which TLC evaluates in every run of the module.

The inductive invariant `IInv` is the conjunction of the six. None is inductive
alone. `Capacity` and `DistinctInBucket` rest on what `AddOrUpdate`,
`SwapRemove` and `RemoveAt` do to a sequence (lemmas of their own). `RangeOK`
needs itself for the arguments of frames: a node moves to bucket `i + 1` only
when it agrees with `own_id` on bit `i`. That bucket `i + 1` is in range when a
task goes there follows from `ChainOK`: the last bucket has no successor, and
whoever moves nodes has set one. `LockOrder` needs that frames below another
one stand at `migrate`, and that only the task that set the `OnceCell` gets to
`lock_nodes`, so that two never do. There is one lemma per action.
`AddsNeverPanic` adds to `IInv` that no frame is a remove and that a task past
the length checks stands in a bucket that has a successor, or is full and is
being split, since lengths do not fall without removes but by a split.

### Identifiers: `U160Proofs`

`U160Proofs` shows that the code of `u160.rs` computes on two limbs what the
other modules assume of identifiers, at the full width of 160 bits:
`DistanceByLimbs`, `GetBitByLimbs` and `OrderByLimbs` for the operators that the
table and the searches use, `Extremes` for `min`, `max` and `!`,
`SampleTargetHighest` for the id a sweep asks about, `FilterByLimbs` and
`OwnIdValid` for BEP 42. `ShrByLimbs` holds for shifts up to 254 (255 overflows
a shift of the u128), and `ShlByLimbs` says exactly where `<<` differs from a
shift of 160 bits: from 32 on it clears the bit that came from the last one of
`lsbytes`, because the clamped shift of `lsbytes` is by 31 and not by 32.
Neither shift is used by the program. Each proof goes bit by bit: the position
decides which limb is read and which carry applies, and the lemmas `ShlAt`,
`ShrAt`, `CarryDownAt`, `MaskPicks` and `FromIpBits` say what a word holds at a
position. The only assumption is that words are vectors of bits.

### The router: `RouterProofs`

`RouterUsesBucket` shows that every behaviour of the router, at once or one by
one, is a behaviour of `Bucket`, so that `IInv` holds behind the ban list too.

* `RetentionCorrect`, `RouterRetention`: the action property `Retention`. Each
  action's effect on the set of known ids is computed (in a bucket, or the
  argument of a frame that a split called), and the ones that shrink it are the
  four that `Retention` names. `LockOrder` is what makes the taken node reach
  the nested add: nobody else writes the bucket that is being emptied.
* `BanListBoundedCorrect`: the length is below `BAN_COUNT` after each push,
  which is inductive because the list is trimmed in the same step.
* `SerialSoundCorrect`: one request at a time, no unwrap fails, and between
  requests every node is where it is looked for. `SerialInv` says in addition
  that one task runs, that what its frames read of their bucket is still true
  where they use it (`FrameOK`), and that the only nodes astray are those a
  split has yet to move (`Settled`).
* `BanOvertakenCorrect`: `BanInv` says of a banned id that is not contested
  (`Clear`) that no frame adds or moves it, and that where `remove` can find it,
  a remove of it is on its way to that bucket.
* `NearestBucketsCorrect`: `NearInv` says of each frame of a lookup that what it
  has collected is in order (a node left out of this bucket or the ones after it
  is nearer than none it has, those of the same bucket apart) and that it is
  whole unless it is full. That the next bucket is nearer than this
  one (or all nearer buckets lie behind it) follows from the first bit on which
  two ids differ (`LessAt`, `NearerBucket`); the first differing bit exists by
  the argument of `NoneAfter`, a minimal element of a finite set of numbers,
  because induction is not at hand.

### Readers: `FileProofs`

For every number of tasks beside a lookup or a save:

* `FileTypeCorrect`, `LookupBoundedCorrect`, `RestartKeeps` from `ReadInv`:
  each frame of a lookup has collected at most `k_size` nodes, the depth minus
  the lists written is the bucket that comes next, and every list is one that a
  bucket once held, so that what is loaded satisfies `RangeOK` and
  `DistinctInBucket` again.
* `SavedUnlessSplitCorrect` from `SaveInv`: without a split a stable node is
  in the bucket where it was, hence in a list already written or in a bucket yet
  to be read; without a step lists and buckets agree.
* `LookupCompleteCorrect` from `CompleteInv`: each stable node is steady, and it
  is in what a frame has collected, or the answer has filled up, or it is still
  *ahead*, in a bucket or a call from which the walk has yet to read. Splits move
  nodes down the chain only, and the reader waits for the lock that a split holds,
  so it cannot overtake a node on its way.

The attempt to prove the last two showed that they do not hold of every node
that is known throughout: with two tasks TLC found a node whose second copy,
left behind the reader by a race, was the only one to stay. The properties speak
of nodes in one place since, and the theorems hold for every number of tasks.

### Messenger: `MessengerProofs`

`MessengerTypeCorrect` and `PermitsBalanceCorrect` rest on `MInv`, which says
besides (`OneSender`) that the sending half of a query's channel is in one place:
in its only queue entry, in the task that delivers, or used up; otherwise a
second reply could follow the first. `NoLeakCorrect` assumes of the behaviour
that the ids in the queue differ (`IdsDiffer`): the timer of a query then removes
its own entry whenever that is there, though it takes another query's, by the
common address, when it is not. `NoLeakUntilWrap` assumes
`Cardinality(Query) <= TidSpace` instead, which says that the 16-bit counter has
not wrapped (`FreshIds`). After 65536 queries ids do repeat, and the two say
nothing (see the hazards). `AnswerMatchesCorrect` needs no such assumption and
none on who sends replies: `OneSender` says that an entry has the id of its query
and our own address, so that whatever `remove_from_queue` finds has the id of the
reply, or the reply came from our own address (`RepliesOK`).

### Messages: `ServerProofs`

`RequestFaithfulCorrect`, `ReplyFaithfulCorrect` and `AllUnderstoodCorrect` hold
for every set of nodes, queries, responses and foreign dictionaries. They rest on
the round trip of `Codec`: `QueryRound` and `ReplyRound` say what `from_kmsg`
reads of what `to_kmsg` wrote, for every method and for every kind of response
that a handler gives. The peers of a response pass through `FlattenSeq`, a
recursive function; its values are the prefixes of the list, by a minimal
element again (`Stepwise`). `XInv` says that a packet between two nodes is a
query of the history, an answer in the history that goes back to where its
query came from, or a protocol error for another implementation, and that the
histories of handlers and results agree with those of the senders.

Assumptions: an address belongs to one socket (`PartyAssumption`), and queries
and responses are values of the two enums of `message.rs` (`MethodAssumption`,
`KindAssumption`).

### Search, sweep, server

* `FindProofs`: `FInv` relates `seen`, `ignore`, `asked` and the running
  queries: a seen node that fits its address is asked exactly once, and its
  query runs, got a response, or it is ignored. Its part `LimitOK` is the limit
  as the code has it, from which the weaker bounds of the properties follow. `NothingMissedCorrect` needs that `Within` only grows,
  `AnswerClosestCorrect` counts what the crowd that dropped a node contributes
  to the answer after the failures. The module also has `ValidateIsFromIp`: a
  node validates exactly if `from_ip` could have made its id, for every width
  and checksum, from `PrefixAssumption` (the fixed bits do not overlap).
* `SweepProofs`: `WInv` adds to the three invariants that the ids of all queued
  and asked nodes are in `queried`, which is what refuses them the next time.
* `ServerProofs`: `STypeOK`, `StoreIntact` and `ClockOK` are inductive together
  (`SInv`): by the clock a token is at least as old as it really is, unless the
  clock was set back after it was handed out. `AnnounceCorrect` is an action
  property proved over them.

### Model-checked only

All liveness (`Termination`, `ReadersReturn`, `EveryQueryReturns`, `SearchEnds`,
`SweepEnds`, `Settles`), which is out of the prover's reach; `ImplementsTable`,
which states liveness of `Table` too.

## Plan

The system is modelled as far as it decides anything; what is left is proof:
the safety part of `ImplementsTable`, that every step of one request at a time
is a step of `Table` or changes neither what is stored nor the call.

## Not modelled

The command line, parameters, logging, client names, `stats` and `Display` are
wording. Bencoding and the derived serde code are external, and so are crc32c,
ChaCha20, sled, the UDP socket and tokio's channels and locks, which are
modelled by what the code relies on. Random ids and hexadecimal text carry no
decision. `prune` of the sweep is never called. IPv6 nodes in a routing table,
which `ip4_to_bytes` refuses with a panic, do not occur when the node binds an
IPv4 address, as `main.rs` does. Packet sizes are not modelled: an answer that
does not fit into a datagram is a failed send. Transaction ids do not repeat in
`Messenger`: a repetition needs 65536 queries.
