# hcache in TLA+

hcache is an in-memory key-value cache with sorted sets behind an HTTP API. The
repository holds several servers for the same API: a Rust server that runs alone or
as a cluster and keeps its data in RocksDB (`src/rust`), and C++ servers without
persistence (`src/cpp`): one that shards the keys over the cores of a Seastar process,
two whose threads share concurrent maps (Seastar, Drogon), and one on F-Stack. This
directory models the storage of these servers, the handlers that call it, the
protocol of the cluster, and the client programs that test and load it (`client`).
TLC checks them on small instances, and TLAPS proves the most
important facts for any number of threads, keys, cores and nodes.

Requests of the API (`src/README.md`): `query`, `add`, `batch`, `del`, `list` on
strings, `zadd`, `zrange`, `zrmv` on sorted sets, `init`, and `updateCluster` for a
cluster. A key is a string or a sorted set, not both: `add` replaces a sorted set and
`zadd` refuses a key that was added.

## 1. Inventory

| Component | State | Operations | What must be right | Modelled in |
|---|---|---|---|---|
| Rust sorted set, `rust/src/storage.rs` | `value_to_score`, `score_to_values`, rows of `zset_db` | `zadd`, `zrmv`, `zrange` from any worker thread, without a common lock | readers see a member once and see it move, not vanish; the two indexes and the rows agree; every call is atomic | `ZSet`, `SortedSet`, `ZSetProofs` |
| Rust node, `rust/src/storage.rs`, `hcache.rs` | maps `kv`, `zsets`; RocksDB `db`, `zset_db`, flushed every 100 ms, no write-ahead log; `load_state` | `add`, `batch`, `del`, `zadd`, `zrmv`; flush thread; crash and `load_from_disk`; `/init` loader | memory and rows agree; what was flushed survives; `/init` says ok only when every row is served | `Node`, `NodeHistory`, `NodeProofs` |
| Rust cluster, `rust/src/hcache.rs`, `storage.rs`, `cluster.rs` | `me`, `count`, pool of peer connections behind a lock, `/data/cluster.json` | `updateCluster`, `try_load_peers`, `update_peers`, routing of requests, tarpc calls, the loader's choice of rows; crash, restart, broken connections | every key is served by its node; no key of a request is dropped; a read finds what was acknowledged; nobody waits forever; a node that restarts joins again | `Cluster`, `ClusterCrash`, `ClusterProofs`, `ClusterLoadProofs`, `ClusterCrashProofs` |
| C++ sharded storage, `cpp/src/hcache.cc`, `sharded_storage.cc` | per core: `kv_`, `zsets_` with two indexes | the handlers and the messages between cores | a request is atomic on each key; a key is of one kind | `ShardedStorage`, `Cache`, `ShardedProofs` |
| C++ shared storage, `cpp/src/storage.cc` behind `hcache_shared.cc`, `drogon.cc` | concurrent maps `kv_`, `zsets_`; per sorted set a concurrent map and a locked map | the handlers, on several threads | what was answered is there; reads are not disturbed by writes of other members | `SharedStorage`, `SharedHistory`, `SharedProofs` |
| Clients, `client/src/client.rs`, `batch-forever.rs` | the phase of the program, tasks with permits of a semaphore, permits forgotten and added again | tests, benchmarks and cleanup of `client.rs`; the endless batches of `batch-forever` | no answer makes them panic, in a first run or a later one; permits are not exceeded and not lost; `client.rs` ends and leaves what it should | `Client` over `Cache`, `ClientProofs` |
| C++ data loader, `cpp/include/hcache/data_loader.h` | the `.loaded` file of `INIT_DIR` | one pass before the server listens | rows are served when the server listens, also after a restart | no |
| C++ F-Stack server, `cpp/src/fstack.cc` | a parser state per connection | one event loop | a request of a connection is parsed from its start | no |
| Rust runtimes behind features that are off, unfinished HTTP parser | none of the cache | accept loops | | no |
| Vendored parser, the C++ client and data generator, deployment | | | | no |

How they interact. A Rust handler looks for the node of its key (`get_shard`, `count`,
`me`) and calls its own `Storage` or, by tarpc, a peer's. `Storage` changes memory
and RocksDB one after the other. The flush thread and the loader's threads work on
the same maps. A C++ handler calls a method of the storage on the core of the key, by
a message if that is another core, or directly on the shared maps.

What is hard. No lock spans two data structures, so every pair of steps of two
handlers can be interleaved. A crash loses what is not flushed, of two databases that are
flushed one after the other. `me` and `count` are two atomics that change while
requests read them. `update_peers` holds a lock while it connects to peers that may
be waiting for theirs. Calls between nodes fail, or are given up and served all the
same. A node that crashes comes back with what was flushed and with `count` 0, and
its peers keep connections to it that no longer work. A client that goes away takes the
future of its request with it, at whatever await that has come to. The tasks of a client share
permits, and one of them may die with its own. The list "hazards" of `PROJECT.json` names the places in the code, and for each
the properties that speak of it, or why none does yet.

## 2. Modules

- `ZSet` has one action per access to a data structure in `Storage::zadd_memory` and
  `Storage::zrmv`: `zset_db.put_opt`, `zsets.get_or_insert`, `value_to_score.get`, the
  critical section on `score_to_values`, and so on. `SortedSet` is the abstract
  specification: calls, one atomic effect each, answers. `Linearizable` in `ZSet` says
  that `ZSet` implements it: a write takes effect when `score_to_values` shows it.
- `Node` has one action per write of a handler to `kv`, `zsets`, `db` and `zset_db`, the
  loader's two writes per row, the two flushes, `Crash` and `Restart`. The two indexes
  of a sorted set are one map there; `ZSet` is about them. `query`, `list` and `zrange`
  read one map once and change nothing; they have no action. `NodeHistory` adds what
  was flushed of each key while nobody wrote it.
- `Cluster` has the steps of `update_peers` (lock, `me`, `count`, one connection at a
  time), the handlers' separate reads of `count` and `me`, the groups of a batch or
  list, the stages of a call (`getClient`, `sent`, `served`, and lost or late), and the
  loader. hyper drops the future of a request when its client goes away: `Disconnect` does
  so to a handler that awaits its calls, `InitDropped` to an `/init` that runs `update_peers`, which
  leaves `me` and `count` stored and the pool empty for good (`update` is `dropped`), and
  `GetClientPanics` is what a call finds there. `hyper_handler` is a table of the eight requests: whether a request has one key
  or many, and what it does to the `kv` and `zsets` of the node that serves it;
  `CachePeerServer` is the table of the RPC server, which differs for a batch. `kv` and
  `zsets` map keys to the request that wrote them, `got` is what a read found, `status` the
  answer. A connection set of the pool is one number, the peers connected so far.
- `ClusterCrash` extends `Cluster`: a flush, a crash, and a restart per node, and the peers to
  which a node's connections are broken (`cut`). A crash takes what was not flushed, the handlers on
  the node and the calls on their way to or from it; `Restart` is `load_from_disk`, after
  which the node goes through the actions of `Cluster` again. A call over a broken
  connection fails. The history variables `acked`, `kept` and `lost` say which
  requests were answered before another arrived, and which writes a crash has undone.
- `Client` runs two programs against `Cache`: `client.rs` as a sequence of phases
  (`Program`), each a set of tasks with their requests and the answers they insist
  on, and `batch-forever`. `Acquire`, `Ask`, `Receive` and `Join` are the steps of a task
  and of its awaiting; `SendBatch`, `BatchEnds` and `Break` those of `batch-forever`.
- `ShardedStorage` has one action per task of a core: a handler that starts on the core of
  its connection, a message that is served by the core of its keys, and the answer.
  `Cache` is what the API promises; `Linearizable` says that `ShardedStorage`
  implements it, key by key.
- `SharedStorage` has one action per call on a concurrent map and per critical section of
  `storage` and `zset`. Sorted sets are objects there, because a thread may work on one
  that another has taken out of the map; `shared_ptr` keeps it alive. `SharedHistory`
  adds what the answered requests promise of each key, and what nobody has written
  since a read began.
- `MC...` modules and their `.cfg` files are instances for TLC; `...Proofs` modules hold
  theorems.

Definitions described as "a faulty variant" are not used by the specifications. Each
is a definition of the model with a likely bug. Put in place of the correct one, it must
violate the property it stands beside in "mutants" of `PROJECT.json`.

Conventions: `Missing` (`None` in `Cluster`) stands for no value; a member of a small
set stands for a string. The program counters `pc` are named after the next step. No
module declares a RECURSIVE operator.

## 3. Runs

Passing runs:

| Run | Instance | What it shows |
|---|---|---|
| `zset_serialized` | 3 threads, 2 values, 2 scores, any number of requests | `IndexesAgree`, `ListedOnce`, `OnlyZrmvHides`, and refinement of `SortedSet` |
| `node_serialized` | 2 handlers, 2 keys, 1 loader thread, 3 requests of all kinds, 1 crash | memory and rows agree on quiet keys; what was flushed survives |
| `node_fair` | 2 handlers, 2 keys, 2 loader threads with the same row, 2 requests, 1 crash, concurrent writes of one key allowed | `InitialDataServed`, `OnlyDelHides`, and under fairness `EventuallyDurable` and `LoadEnds` |
| `cluster_route` | 2 nodes that learn their peers in any order, a key on each, the rows of both on node 1, `/init` on node 1, 1 request of six kinds, 1 failure, clients that go away | routing, the pool's bounds, no key skipped but by a failed call; a loader that read the final count has stored its rows; `/init` starts the loader, which ends, under fairness |
| `cluster_crash` | a complete cluster of 2 nodes with 1 key, 2 requests among query, add and del on either node, 1 crash of either node, 1 failure, clients that go away | reads find what was acknowledged unless the crash undid it; the pool's bounds; requests are answered and the nodes join again, under fairness |
| `client` | 2 runs of `client.rs` with 3 tasks, 2 permits, batches of 2 keys, tests of 2 pairs; `batch-forever` with 2 permits, 1 of its connections breaks | no answer makes a client panic, permits are accounted for, the run leaves what it should and ends, batches are sent for ever |
| `sharded` | 2 connections, 3 cores, 2 keys on different cores, 1 member, 2 scores, any number of requests | types, one kind per key, the stale scores of `zrmv` do no harm, refinement of `Cache` |
| `shared` | 2 threads, 2 keys, 2 members, 2 scores, 2 objects, any number of requests | acknowledged writes are visible, reads are stable |

Runs that end in a violation, each a disagreement of the code with what the repository
says (section 6): `zset_shared`, `node_resurrect`, `cluster_hash`, `cluster_drop`.

Why the bounds are enough. In `ZSet`, two writers of different values and a reader, or
three writers, meet in every order; two scores are a move. In `Node`, three requests
are an add, a del and a zadd in sequence or two at once, with a loader; one crash meets
every state, also between the two flushes, and after the restart requests go on.
`MaxRequests` and `MaxCrashes` are guards of `Call` and `Crash`.

In `cluster_route` no property relates two requests, so that one request meets every state of
the peers. A `zrmv` takes the way of a `zadd` and a `query` that of a `zrange`, so these two are
not sent there (`query` is in `cluster_crash`). The hash of the rows is another
than that of the handlers, with both rows on the node that loads, so that its
loader has something to lose; that node 0 keeps its rows, whatever count
its loader has read, is proved. Two nodes have all roles a shard can have for a handler (its own, another
one, and 0 while `me` is not stored yet); that a third shard changes nothing is proved for
`PoolInBounds`, `RoutedToOwner` and `NothingSkipped`, for any number of nodes and failures.
`MaxFailures` is a guard of `Lose` and `Timeout`; a request for both keys has one call.
In `cluster_crash` two requests are a write and a read of it, or two writes that overlap;
they arrive before, during or after the crash, at the node that crashes or the other
one. One crash, with a flush before it or not, is enough to break connections, to lose a
write and to join again; the nodes do not begin empty because `cluster_route` does.
In `client` two permits for three tasks make one wait; three keys are a full and a
partial chunk; the second run begins with what the first left; `Slots` is
one more than the connections that break, since `batch-forever` stops when all its permits
are gone (`MaxFailures < Slots` is part of the assumption). In `ShardedStorage` and
`SharedStorage` nothing is bounded but the sets: two requests overlap in all ways, and the
third core has no key, so that all requests of its connections are messages. In
`SharedStorage` one key takes sorted sets and both take strings; two objects are as many
as two threads can need, one in the map and one that a thread still uses. Symmetry of
threads, members and objects is used in `zset_shared` and `shared`, which check
invariants only and whose modules choose no element of these sets.

`cluster_...` runs say `CHECK_DEADLOCK FALSE`: each request is served once, and
when all are answered and all nodes configured nothing is left to do. All other runs
check for deadlock; in `client` it is `batch-forever` that never stops.

The assumption `Serialized`. The servers do not order concurrent writes of one key. With
`Serialized = TRUE` a write begins only when no other write that conflicts with it
is in progress. In `ZSet` and `SharedStorage` those are the writes of the same member, or of the
whole key; writes of different members of a sorted set overlap freely. In `Node` they are all
writes of the same key. Reads overlap everything. Clients do send what this excludes:
`batch-forever` keeps many batches of the same keys in flight
(`client/src/batch-forever.rs:42-69`), and nothing in the API forbids it. So what is
checked and proved under `Serialized` says what a key holds when its writes happen
not to overlap, and nothing of the races of two writes of a member or a key: a zadd with a zrmv or
another zadd of its member, a zadd with an add or del of its key, two adds of a key that
reach `kv` and `db` in different orders. `zset_shared` shows the first of them in `ZSet`, and the
hazards of `PROJECT.json` name all. `node_fair`, the theorems `OnlyZrmvHidesCorrect`,
`OnlyDelHidesCorrect` and `InitialDataServedCorrect`, the cluster runs, the sharded run and `client`
do not make the assumption.

Fairness. `Node` has weak fairness of each handler, each loader thread and the flush
thread, `Cluster` of `Listen`, `Configure` and `Loading` of each node, `ClusterCrash` of what
a node does while it runs, of each handler and of each call's exchange, `Client` of
`client.rs`, of `batch-forever`'s sending and of its receiving, and of the server for
either. They are tasks of the tokio runtime or threads of the operating system, none of
which waits for another except where a guard says so (the lock of `update_peers`, the
semaphores). `Restart` is fair because the deployment restarts the process
(`ros/lib/test-stack.ts:109`); `Listen` is fair because the RPC server is a task that only
binds a port; a call that was sent to a running node is served. The future of a request is fair
while it exists, and its client may end it at any await: `Disconnect` and `InitDropped`
are not fair and not excluded. `Start` runs `update_peers` in a task of its own, which nobody
drops. Users, operators, failures
and crashes are not fair: nothing makes them happen. So `EventuallyDurable` and
`Node!LoadEnds` allow for a process that dies first, `Answered` for a request whose
node dies or whose client goes away, `Cluster!LoadEnds` for an `/init` that is dropped; `Answered`
speaks of requests that have arrived.

## 4. Properties

- `ZSet`. `IndexesAgree`: when nobody writes a value, the two indexes and the rows agree.
  `ListedOnce`: no reader sees a value twice, also in the middle of writes.
  `OnlyZrmvHides`: a value a reader can see disappears only by a zrmv of it.
- `Node`. `RowsMatch`, `MembersHaveRows`: memory and rows agree on what nobody writes.
  `FlushedKeysSurvive`, `FlushedMembersSurvive`: what a read returned at a flush is
  returned until somebody writes the key, across crashes. `OnlyDelHides`,
  `InitialDataServed`, `EventuallyDurable`, `LoadEnds` as their comments say.
- `Cluster`. `PoolInBounds`: a handler that indexes the pool finds its peer, which only
  the lock guarantees, unless the `/init` that was connecting was dropped; `OkMeansConnected`,
  which fails, asks for it on every node that said ok. `RoutedToOwner`: a handler that read
  the final count serves a key on its node. `NothingSkipped`: an answer covers every key
  but those whose own call failed, although `me` is read twice. `LoadedRowsKept`: a loader that
  has read the final count has stored every row of its shard, whichever hash it takes;
  `LoadedRowsServed`, which fails, asks for the hash of the handlers. `LoadEnds`: `/init` waits
  for `update_peers`, which waits for every node, itself included, and still gets to the loader if
  its client stays; the loader ends whether or not it stays.
- `ClusterCrash`. `ReadsAckedWrites`: a read, through any node that knows its peers, finds
  the last write that was acknowledged when it was sent, or a later one, unless the owner
  crashed before the flush. `PoolInBounds`, also while a restarted node connects again.
  `Answered`: no request waits for ever for a lock, a peer or a broken connection, and
  `Rejoins`: a node that restarts is connected to all peers in the end.
- `Client`. `NoPanic`: the answers a client insists on are the ones it gets, whatever
  `batch-forever` does to the same keys, and also on what an earlier run left.
  `PermitsAccounted`: no more requests under way than permits, and a permit is lost only
  with a connection. `LeavesOnlyPairs`: the cleanup leaves no sorted set, and no string but
  the test pairs and what `batch-forever` writes. `Finishes`, `KeepsSending`.
- `ShardedStorage`. `ListedUnderScore`: a member is listed under the score that
  `value_to_score_` has for it, although `zrmv` leaves scores behind. `KeyExclusive`,
  `Linearizable`.
- `SharedStorage`. `KeyExclusive`, `ListedOnce`, `AckedVisible`: what nobody is writing is
  what the answered requests made of it, whoever created the sorted set.
  `StableReads`: a read returns what was promised of all that nobody wrote during it.

## 5. Proofs

TLAPS checks `ZSetProofs`, `NodeProofs`, `ClusterProofs`, `ClusterLoadProofs`,
`ClusterCrashProofs`, `ShardedProofs`, `SharedProofs` and `ClientProofs`; nothing is
assumed but the named assumptions of the modules on their constants, and `Serialized` where a
theorem says so. Every safety invariant the passing runs check is
stated by one of these theorems.

`ZSetProofs`, for any sets of threads, values and scores:

- `TypeCorrect` and `OnlyZrmvHidesCorrect` hold without `Serialized`. Only `ZrmvUnlink` and
  the move out of a score take a value out of a set, and the move puts it into another
  in the same critical section.
- `IndexesAgreeCorrect`, `ListedOnceCorrect` and `LinearizableCorrect` assume
  `Serialized`. `IndexesAgree` says nothing of a value that is being written, so it is not
  inductive. `WriterInv` says for every step a writer can be at which of the three
  copies have its value already; `OneWriter` keeps other writers away from them;
  `CreatedInv` is needed for the answer 404. With them every
  step maps to a step of `SortedSet` (`StepRefines`): the actions that change what a
  reader sees, or find that there is nothing to change, are the instant of a call; one
  creates the set; the others stutter.

`NodeProofs`, for any number of handlers, keys, directories, requests and crashes:

- `TypeCorrect`, `OnlyDelHidesCorrect` and `InitialDataServedCorrect` hold without
  `Serialized`. `RegisterInv` says which steps belong to which request, and `OwnStep` what
  a step of a handler leaves alone; both are shown once for all 13 steps. `LastingInv` adds to
  `InitialDataServed` the rows that a directory's thread has passed already.
- `RowsMatchCorrect` and `MembersHaveRowsCorrect` assume `Serialized`. They say nothing of
  a key that is being written, so they are not inductive: `Mine` says for every step of a
  handler which of memory and rows has its value already, `LoadInv` the same of a loader thread, and
  `OneWriter` keeps other writers away. The end of a request, and of a row, then leaves the key with
  both alike (`OwnResult`).
- `FlushedKeysSurviveCorrect` and `FlushedMembersSurviveCorrect` are about `NodeHistory`.
  `KeptInv` and `ZkeptInv` say that while something is promised of a key nobody writes it, and that
  what is promised is in the database, in its flushed part, and in memory if the
  process runs. A flush establishes this because `RowsMatch` holds at that moment; a crash
  brings the database back to its flushed part and `Restart` memory to the database.

`ClusterProofs`, for any number of nodes, keys, requests and failures, and any shard
function:

- `TypeCorrect`, `PoolInBoundsCorrect`, `RoutedToOwnerCorrect`, `NothingSkippedCorrect`.
- `PeersInv` ties `me`, `count` and `pool` to the progress of `update_peers`, a dropped one included. `ReadInv`
  says that what a handler has read is still true, unless it read a 0: `me` and
  `count` change once, and `me` first, so that a handler with the new `count` has the new
  `me`. `ForkInv` says that the groups still to be called are not the own one; `CallInv`
  that a handler that is about to take a client from the pool is on a node that has begun
  to store its peers, from where the lock covers it; `KeyInv` accounts for every key of a request: served, in the
  own group, in a group to come, or in a call. `OneKey`, `Before` and `AnswerInv` say where
  handlers start and end. From `KeyInv` and `AnswerInv` follows `NothingSkipped`.

`ClusterLoadProofs`, with the same constants and any two hashes:

- `LoadedRowsKeptCorrect`. `OwnInv` says that a request is served by the node that its
  handler's reads of `count` and `me` lead to, so that what erases a row of a node is a del
  served there; `CountInv` that a loader that has read the final count will read the final
  `me`, which is stored before it. Nothing is assumed of the hashes: that the rows a loader
  keeps are those the handlers look for is false (`cluster_hash`).

`ClusterCrashProofs`, for any number of crashes too:

- `CrashTypeCorrect`, `CrashPoolInBoundsCorrect`, `CrashRoutedToOwnerCorrect`.
- The invariant `IInv` of `ClusterProofs` survives a crash, a restart and a call over a broken
  connection; `CSteps` shows that every other step of `ClusterCrash` is a step of `Cluster` or
  a stutter, for which `ClusterProofs` has the lemmas. `IInv` is stated so that this holds: a crash sets
  `me` and `count` back to 0, so what `ReadInv` says of a handler on that node ends when the
  handler dies or has answered, and what `CallInv` says of its calls ends when they have left
  `getClient`, which a crash takes them out of.
- `ReadsAckedWritesCorrect`. The invariant is about the store, not about reads: `StoreInv`
  says of each write that its owner has served and no crash has undone (`Survives`) that
  what the owner has in `kv` while it runs, and in its database once the write is flushed,
  is that write or one that is not older, and that while the owner is down the write has been
  flushed (`kept`). `NotOlder` is relative to the requests that were answered before
  the write arrived. A request that has been answered may still have a call on its way, given
  up by its sender; `Ended` tells it from one that can no longer change a key, and
  `EveryGoesOn` shows that no step takes this back. `FoundInv` then follows at the
  instant a read is served, and `ReadsFound` says it is `ReadsAckedWrites`.

`ShardedProofs`, for any number of connections, cores and keys and any `get_cpu`:

- `TypeCorrect`, `KeyExclusiveCorrect`, `ListedUnderScoreCorrect`, `LinearizableCorrect`.
- `AtHome` says that a core has nothing of keys of other cores, so that the union of the
  cores' maps is a map (`Strings`, `Zkeys`, `Zsets`). `OneKind` is per core;
  `KeyExclusive` follows with `AtHome`. `ListedUnderScore` is inductive for itself once a
  fresh sorted set is known to have no scores. `Disjoint` and the types of messages say
  that each key of a list is in one message, which makes the number of keys left
  (`Todo`) go down with each message served. Each method of the storage on one core maps to
  one operation of `Cache` (`PerformEffect`).

`SharedProofs`, for any number of threads, keys, members, scores and objects:

- `TypeCorrect` holds without `Serialized`. `ThreadInv` says which steps belong to
  which request (`StepsOf`).
- `KeyExclusiveCorrect` and `ListedOnceCorrect` assume `Serialized`, which gives `NoConflict`:
  two requests that run are about different keys, or about different values of one sorted set.
  Neither property is inductive. `WholeInv` says for every step of an add, batch or del which
  of the two maps it has cleared already; `MemberInv` that a zadd past its look at `kv_`
  still has a key that is no string, and that the object it works on is still the one in
  the map; `EntryInv` which of the two indexes of the object has its value;
  `ListedInv` that a value is listed under its score or some zadd is moving it. A
  new object is empty (`DeadInv`) and of one key (`ObjInv`).
- `AckedVisibleCorrect` is about `SharedHistory`. `PromiseInv` ties what is promised of a key to
  the maps (`KeyInv`, while nobody writes the key as a whole) and of each value to its
  object (`EntriesInv`, while nobody writes that value). `KeyInv` has to allow for a sorted set
  that a zadd has created and not answered yet. `HSpecImplements` says that `SharedHistory`
  only watches `SharedStorage`.
- `StableReadsCorrect`. `CalmInv` says of a read at work that what nobody has written since it
  began is not being written now (`CalmSet`), that the keys it has looked up have the promised
  answer (`LookedInv`), and that a zrange works on the object its key still has
  (`RangeInv`).

`ClientProofs`, for any number of tasks, permits and broken connections:

- `PermitsAccountedCorrect`. `HoldsInv` says that a task with a request under way holds a
  permit, and that no more permits are held than there are. `SlotsInv` counts the free permits, the
  batches under way and the lost ones, which are disjoint: each step moves one
  from one place to another.
- `TypeCorrect`. `AskedInv` says that a task at work asks the request of the step it is at, and
  `BatchInv` the same of `batch-forever`.
- `NoPanicCorrect`: for every number of tasks and every interleaving with
  `batch-forever`, in a first and in a later run of `client.rs`. `SInv` says for each
  phase what the server holds under each kind of key once `Prog(t, k)` steps of task `t`
  have taken effect on key `k`: the `hello` of the tests (`HelloInv`), the test pairs
  (`PresentInv`), the keys of the benchmarks, which `batch-forever` writes too
  (`BenchInv`), and the sorted sets of tests and benchmarks (`TestZsetInv`,
  `BenchZsetInv`, `ZkeysInv`). `ProgramSteps` is the table of the steps of all phases,
  `StepMoves` what each may do to a key. From `SInv` follows that the part of an answer
  that has been collected is the one the task insists on (`AnsInv`, `TakesRight`), so
  that nothing panics when the answer arrives.
- `LeavesOnlyPairsCorrect` follows from `SInv` when the program has ended.

`MissingAssumption` of `Client` says that the mark for "no string" is none of the
values the clients write, which the proofs of what is stored need.

Only model-checked: liveness, which is beyond TLAPS (`EventuallyDurable`, both `LoadEnds`,
`Answered`, `Rejoins`, `Finishes`, `KeepsSending`), and of course what the runs that expect a
violation show.

## 6. Where code and documentation disagree

- `zset_shared`, `ListedOnce` (`rust/src/storage.rs:479`): two concurrent zadds of one value
  leave it under two scores; the README says that a zadd of an existing value updates its
  score.
- `node_resurrect`, `FlushedZsetsStayDeleted` (`rust/src/hcache.rs:76`): `del` and `add` leave the
  rows of a sorted set in `zset_db`, and a restart brings the members back.
- `cluster_hash`, `LoadedRowsServed` (`rust/src/hcache.rs:352`): the loader hashes a byte slice
  and the handlers a string, which Rust hashes differently, so that nodes load rows that
  nobody looks for on them.
- `cluster_drop`, `OkMeansConnected` (`rust/src/hcache.rs:302`): the client of the `/init` that runs
  `update_peers` goes away while the peers are dialled. `me`, `count` and `peer_updated` stay, the pool
  stays empty, and nothing dials again. The next `/init` loads and says ok, which for the
  README means that the start is complete, and every request for another node's
  key panics in `get_client`.

Behaviours that the models have, and that no property forbids:

- `zadd` of the Rust server never looks at `kv` (`rust/src/storage.rs:467`): on a key that was
  added it answers 200 and makes the key a string and a sorted set, where `src/README.md:37`
  asks for 400. A batch does not remove a sorted set of its keys on the node that
  received it, but does on the other nodes.
- From its start until its `count` is stored a node serves every key itself
  (`rust/src/hcache.rs:545`), also after a restart, so that writes of that time stay where
  nobody looks later. `RoutedToOwner` and `ReadsAckedWrites` speak of handlers that have
  read the final count.
- The connections of a pool to a node that was restarted are never opened again
  (`rust/src/storage.rs:56`): its keys are answered with 500 by every other node until that
  node restarts too. `Answered` counts the 500 as an answer.
- A broken connection costs `batch-forever` a permit for good; with as many as it has
  permits it stops.
- After a restart `load_state` is INIT again, and the first `/init` loads the initial data
  over newer values.
- A batch or list whose call to a peer failed is answered with 200 all the same, or with 404
  by a list that found nothing elsewhere (`rust/src/hcache.rs:229`, `:264`), where
  `src/README.md:35` has 400 for a batch that failed. `NothingSkipped` says that only the keys of that
  call are missing.
- With the old `count` and the new `me`, the loader of a node other than 0 finds no row to
  be its own, and `/init` says ok. `LoadedRowsKept` and `LoadedRowsServed` speak of loaders
  that read the final count.
- Concurrent writes of one key may be ordered differently in `kv` and `db`
  (`insert_kv` and a batch write them in opposite orders). `RowsMatch` holds with one
  write of a key at a time.
- In the shared C++ storage an add erases the key before it emplaces the new string, so
  that a query in between answers 404 for a key that was there and will be. `StableReads` speaks of reads without such a
  write. Without `Serialized`, an add and a zadd that overlap make the key a string and a
  sorted set.
- Drogon's `zadd` answers 404, not 400, when it refuses (`cpp/src/drogon.cc:161`);
  `Refused` is the status of the server in question.

## 7. Not modelled, and why

- HTTP and JSON parsing, the vendored parser, the alternative Rust runtimes: no state of
  the cache. The hand-written parser of `rust/src/http_parser.rs` is behind a feature that is
  off, and unfinished: it never calls the storage. Keys and members have no inner structure,
  so the splitting of `zset_db` rows at a zero byte is left out; scores are small
  numbers, so is the narrowing of a 64-bit score.
- Errors of RocksDB, whose results the code drops; a flush is atomic.
- Other futures that a client's going away may drop. A request that is dropped while its body is
  read has not arrived; `updateCluster` is dropped between the creation of the file and its
  contents, which is a file that does not parse; a handler that awaits nothing runs
  to its end, and no handler awaits between its own writes (`Node`, `ZSet`). The lock
  `all_cores` that `/init` awaits after it has set `load_state` (`rust/src/hcache.rs:320`) is
  never held by a writer at that time, so that the await does not suspend.
- `/init` after a restart in `ClusterCrash`: a second load over values that were acknowledged. `Node`
  has it, for one node; which of the two should win no document says.
- The 16 connections of a pool to one peer: `cut` says that all are broken, as they are after a crash
  of the peer; one connection that breaks while the peer lives is a failed call (`Lose`).
- Sorted sets in `ClusterCrash`: what a crash does to them inside a node is in `NodeHistory`.
- Errors of the connections of `client.rs`, which unwraps them: it would stop. Its time
  measurements.
- The order in which waiters get a lock: a lock is a guard, or one step from lock to
  unlock.
- The C++ data loader: it runs before the server listens, and its one hazard, a `.loaded`
  file that outlives the data it speaks of (`cpp/include/hcache/data_loader.h:48`), needs no
  interleaving to show. The F-Stack server: one event loop over the storage of one thread, whose
  hazards are those of the state of its parser (`cpp/src/fstack.cc:224`). The C++ client
  and the data generator keep no state a server depends on.

## 8. Plan

Done, in this order: `SortedSet`, `ZSet`, `ZSetProofs`; `Node`, `NodeHistory`; `Cluster`,
`ClusterProofs`; `Cache`, `ShardedStorage`, `ShardedProofs`; `SharedStorage`,
`SharedHistory`; `ClusterCrash`, `ClusterCrashProofs`; `Client`,
`ClientProofs`; `ClusterLoadProofs`; `NodeProofs`; `SharedProofs`; `ReadsAckedWrites` in
`ClusterCrashProofs`; `TypeOK`, `NoPanic` and `LeavesOnlyPairs` in `ClientProofs`.

Next:

1. `FStackConn`: one connection of the F-Stack server as a state machine over its receive
   buffer; the `.loaded` file of the C++ loader with a restart, in front of
   `SharedStorage`.
2. What `Serialized` excludes in `ZSet`, `Node` and `SharedStorage`: the weakest condition on
   overlapping writes under which each theorem still holds, request by request.
3. A weaker abstract specification that `Cluster` implements, from which
   `ReadsAckedWrites` would follow without history variables.
