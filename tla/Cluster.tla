------------------------------ MODULE Cluster ------------------------------
(***************************************************************************)
(* The Rust servers as a cluster (rust/src/hcache.rs, storage.rs,          *)
(* cluster.rs): how a node learns its peers while it serves requests, how  *)
(* a request finds the node that owns its keys, and the calls between      *)
(* nodes, which may fail or be answered too late.  A node's count is 0     *)
(* until it knows its peers; every key is then its own.  hyper drops the   *)
(* future of a request whose client goes away at the await it has come to. *)
(* What a node does with a key it owns is the subject of Node.             *)
(***************************************************************************)
EXTENDS Integers

CONSTANTS N,           \* number of nodes
          Keys,
          Shard,       \* Shard[k]: hash of the string k, modulo N
          RowShard,    \* RowShard[k]: hash of the bytes of k, modulo N
          Rows,        \* the keys of the initial data
          InitAt,      \* the nodes on which clients call /init
          Requests,    \* each is served once
          Ops,         \* the requests clients send
          MaxFailures, \* bound on the calls that fail or time out
          Row,         \* the value the initial data has for its keys
          None         \* no value, no node

Nodes == 0 .. N - 1

ASSUME NAssumption == N \in Nat \ {0}
ASSUME KeysAssumption ==
    /\ Shard \in [Keys -> Nodes]
    /\ RowShard \in [Keys -> Nodes]
    /\ Rows \subseteq Keys /\ InitAt \subseteq Nodes
ASSUME ValuesAssumption == /\ None \notin Nodes \cup Requests
                           /\ Row \notin Requests \cup {None}

VARIABLES file,        \* file[n]: /data/cluster.json of node n can be parsed
          started,     \* started[n]: the first task of n has looked for the file
          listening,   \* listening[n]: the RPC server of n accepts connections
          update,      \* update[n]: how far update_peers of n has come, before it was dropped
          me, count,   \* Storage.me and Storage.count
          pool,        \* pool[n]: the peers n has connected to, 0 .. pool[n] - 1
          inits,       \* inits[n]: a call of /init runs update_peers on n
          load_state,  \* Storage.load_state; COUNTED: loading, count has been read
          lcount,      \* lcount[n]: the count the loader of n has read
          kv, zsets,   \* kv[n][k]: who wrote the string k on node n; likewise the sorted sets
          node, op, keys, \* the request: where it arrived, what it asks
          pc,          \* pc[r]: the next step of its handler
          seen,        \* seen[r]: the count the handler has read
          forks,       \* forks[r]: shards a batch or list has still to look at
          own,         \* own[r]: the shard it serves itself
          stage,       \* stage[r][s]: the call to shard s
          done,        \* done[r][k]: the node that served r for key k
          got,         \* got[r][k]: what r, a read, found there
          status,      \* status[r]: the answer
          failures

cluster  == <<file, started, listening, update, me, count, pool>>
loader   == <<inits, load_state, lcount>>
request  == <<node, op, keys>>
handler  == <<pc, seen, forks, own, stage, done, got, status>>
store    == <<kv, zsets>>
vars     == <<cluster, loader, store, request, handler, failures>>

\* What the handlers of the requests do: to one key or to many, and to the maps
\* of the node that owns it.  A zrmv may empty a sorted set but leaves it there,
\* a zadd does not look at the string of the key.
handle_query  == [many |-> FALSE, kv |-> "read",  zsets |-> "keep"]
handle_add    == [many |-> FALSE, kv |-> "put",   zsets |-> "erase"]
handle_del    == [many |-> FALSE, kv |-> "erase", zsets |-> "erase"]
handle_zadd   == [many |-> FALSE, kv |-> "keep",  zsets |-> "put"]
handle_zrange == [many |-> FALSE, kv |-> "keep",  zsets |-> "read"]
handle_zrmv   == [many |-> FALSE, kv |-> "keep",  zsets |-> "keep"]
handle_list   == [many |-> TRUE,  kv |-> "read",  zsets |-> "keep"]
handle_batch  == [many |-> TRUE,  kv |-> "put",   zsets |-> "keep"]

hyper_handler == [query |-> handle_query, add |-> handle_add, del |-> handle_del,
                  zadd |-> handle_zadd, zrange |-> handle_zrange, zrmv |-> handle_zrmv,
                  list |-> handle_list, batch |-> handle_batch]

\* A peer serves its part of a batch pair by pair, like an add; it serves every
\* other request as its own handler would.
CachePeerServer == [hyper_handler EXCEPT !.batch.zsets = "erase"]

ASSUME OpsAssumption == Ops \subseteq DOMAIN hyper_handler

SingleOps == {o \in DOMAIN hyper_handler : ~hyper_handler[o].many}
ReadOps   == {o \in DOMAIN hyper_handler : "read" \in {hyper_handler[o].kv, hyper_handler[o].zsets}}

\* get_shard
ShardOf(k, c) == IF c = 0 THEN 0 ELSE Shard[k]
Group(r, s)   == {k \in keys[r] : ShardOf(k, seen[r]) = s}

Single(r) == op[r] \in SingleOps
Reads(r)  == op[r] \in ReadOps

\* A faulty variant: me is stored before the lock is taken.
LockedAfterMe(n) == update[n] = "countStored"

\* update_peers holds the write lock of Storage.cluster from before it stores
\* me until the pool is complete.
Locked(n) == update[n] \in {"locked", "meStored", "countStored"}

\* What request r leaves of a value.
After(effect, r, value) == CASE effect = "put"   -> r
                             [] effect = "erase" -> None
                             [] OTHER            -> value

\* Node n serves request r for the keys ks.
Serve(r, n, ks) ==
    LET handle == IF n = node[r] THEN hyper_handler[op[r]] ELSE CachePeerServer[op[r]]
        Value(k) == CASE handle.kv = "read"    -> kv[n][k]
                      [] handle.zsets = "read" -> zsets[n][k]
                      [] OTHER                 -> None IN
    /\ done' = [done EXCEPT ![r] = [k \in Keys |-> IF k \in ks THEN n ELSE @[k]]]
    /\ got' = [got EXCEPT ![r] = [k \in Keys |-> IF k \in ks THEN Value(k) ELSE @[k]]]
    /\ kv' = [kv EXCEPT ![n] =
                [k \in Keys |-> IF k \in ks THEN After(handle.kv, r, @[k]) ELSE @[k]]]
    /\ zsets' = [zsets EXCEPT ![n] =
                [k \in Keys |-> IF k \in ks THEN After(handle.zsets, r, @[k]) ELSE @[k]]]

\* No node knows of the others.
FreshNodes == /\ file = [n \in Nodes |-> FALSE]
              /\ started = [n \in Nodes |-> FALSE]
              /\ listening = [n \in Nodes |-> FALSE]
              /\ update = [n \in Nodes |-> "no"]
              /\ me = [n \in Nodes |-> 0]
              /\ count = [n \in Nodes |-> 0]
              /\ pool = [n \in Nodes |-> 0]

NoRequests == /\ node = [r \in Requests |-> 0]
              /\ op = [r \in Requests |-> "none"]
              /\ keys = [r \in Requests |-> {}]
              /\ pc = [r \in Requests |-> "idle"]
              /\ seen = [r \in Requests |-> 0]
              /\ forks = [r \in Requests |-> {}]
              /\ own = [r \in Requests |-> None]
              /\ stage = [r \in Requests |-> [s \in Nodes |-> "none"]]
              /\ done = [r \in Requests |-> [k \in Keys |-> None]]
              /\ got = [r \in Requests |-> [k \in Keys |-> None]]
              /\ status = [r \in Requests |-> "none"]
              /\ failures = 0

NothingStored == /\ inits = [n \in Nodes |-> FALSE]
                 /\ load_state = [n \in Nodes |-> "INIT"]
                 /\ lcount = [n \in Nodes |-> 0]
                 /\ kv = [n \in Nodes |-> [k \in Keys |-> None]]
                 /\ zsets = [n \in Nodes |-> [k \in Keys |-> None]]

Init == FreshNodes /\ NothingStored /\ NoRequests

-----------------------------------------------------------------------------
\* POST /updateCluster.  A file that is not completely written does not parse.
UpdateCluster(n) ==
    /\ ~file[n]
    /\ file' = [file EXCEPT ![n] = TRUE]
    /\ UNCHANGED <<started, listening, update, me, count, pool, loader, store, request, handler,
                   failures>>

\* A faulty variant: the node serves its peers only when it has its own.
ListenWhenReady(n) ==
    /\ ~listening[n] /\ update[n] = "ready"
    /\ listening' = [listening EXCEPT ![n] = TRUE]
    /\ UNCHANGED <<file, started, update, me, count, pool, loader, store, request, handler,
                   failures>>

\* The RPC server's own task binds its port.
Listen(n) ==
    /\ ~listening[n]
    /\ listening' = [listening EXCEPT ![n] = TRUE]
    /\ UNCHANGED <<file, started, update, me, count, pool, loader, store, request, handler,
                   failures>>

\* try_load_peers: the compare_exchange of peer_updated lets one caller in.
MayUpdate(n) == file[n] /\ update[n] = "no"

\* try_load_peers of the task tokio_run spawns at the start.
Start(n) ==
    /\ ~started[n]
    /\ started' = [started EXCEPT ![n] = TRUE]
    /\ update' = IF MayUpdate(n) THEN [update EXCEPT ![n] = "chosen"] ELSE update
    /\ UNCHANGED <<file, listening, me, count, pool, loader, store, request, handler, failures>>

\* update_peers: the write lock ...
UpdateLock(n) ==
    /\ update[n] = "chosen"
    /\ update' = [update EXCEPT ![n] = "locked"]
    /\ UNCHANGED <<file, started, listening, me, count, pool, loader, store, request, handler,
                   failures>>

\* Faulty variants: count is stored in the place of me; the index, which counts
\* from 1, is stored as it is.
UpdateCountOnly(n) ==
    /\ update[n] = "locked"
    /\ count' = [count EXCEPT ![n] = N]
    /\ update' = [update EXCEPT ![n] = "meStored"]
    /\ UNCHANGED <<file, started, listening, me, pool, loader, store, request, handler, failures>>
UpdateMeIndex(n) ==
    /\ update[n] = "locked"
    /\ me' = [me EXCEPT ![n] = n + 1]
    /\ update' = [update EXCEPT ![n] = "meStored"]
    /\ UNCHANGED <<file, started, listening, count, pool, loader, store, request, handler, failures>>

\* ... me.store ...
UpdateMe(n) ==
    /\ update[n] = "locked"
    /\ me' = [me EXCEPT ![n] = n]
    /\ update' = [update EXCEPT ![n] = "meStored"]
    /\ UNCHANGED <<file, started, listening, count, pool, loader, store, request, handler, failures>>

\* ... count.store ...
UpdateCount(n) ==
    /\ update[n] = "meStored"
    /\ count' = [count EXCEPT ![n] = N]
    /\ update' = [update EXCEPT ![n] = "countStored"]
    /\ UNCHANGED <<file, started, listening, me, pool, loader, store, request, handler, failures>>

\* ... and a connection to every peer in turn, itself included, each retried
\* until the peer listens.  The lock is released when the pool is complete.
Connect(n) ==
    /\ update[n] = "countStored"
    /\ listening[pool[n]]
    /\ pool' = [pool EXCEPT ![n] = @ + 1]
    /\ update' = IF pool[n] + 1 = N THEN [update EXCEPT ![n] = "ready"] ELSE update
    /\ UNCHANGED <<file, started, listening, me, count, loader, store, request, handler, failures>>

-----------------------------------------------------------------------------
\* compare_exchange of load_state: the first call to get here starts the loader.
StartLoader(n) ==
    load_state' = IF load_state[n] = "INIT" THEN [load_state EXCEPT ![n] = "LOADING"]
                                            ELSE load_state

\* GET /init tries to load the peers.  It goes on at once when there is no file,
\* or when update_peers has been called already, be it complete or not ...
InitCall(n) ==
    /\ load_state[n] = "INIT" /\ ~MayUpdate(n)
    /\ StartLoader(n)
    /\ UNCHANGED <<cluster, inits, lcount, store, request, handler, failures>>

\* ... and awaits update_peers when it is the first to find the file.
InitUpdate(n) ==
    /\ MayUpdate(n)
    /\ update' = [update EXCEPT ![n] = "chosen"]
    /\ inits' = [inits EXCEPT ![n] = TRUE]
    /\ UNCHANGED <<file, started, listening, me, count, pool, load_state, lcount, store, request,
                   handler, failures>>

\* The client goes away while the dials of update_peers are awaited (the lock it
\* takes first is free: nobody needs a peer yet).  The connections are closed and
\* the lock is released; me, count and peer_updated stay as they are.
InitDropped(n) ==
    /\ inits[n] /\ update[n] = "countStored"
    /\ inits' = [inits EXCEPT ![n] = FALSE]
    /\ pool' = [pool EXCEPT ![n] = 0]
    /\ update' = [update EXCEPT ![n] = "dropped"]
    /\ UNCHANGED <<file, started, listening, me, count, load_state, lcount, store, request,
                   handler, failures>>

\* (A faulty variant: it answers without starting the loader.)
InitResumeOnly(n) ==
    /\ inits[n] /\ update[n] = "ready"
    /\ inits' = [inits EXCEPT ![n] = FALSE]
    /\ UNCHANGED <<cluster, load_state, lcount, store, request, handler, failures>>
InitResume(n) ==
    /\ inits[n] /\ update[n] = "ready"
    /\ inits' = [inits EXCEPT ![n] = FALSE]
    /\ StartLoader(n)
    /\ UNCHANGED <<cluster, lcount, store, request, handler, failures>>

\* The loader reads count ...
LoadCount(n) ==
    /\ load_state[n] = "LOADING"
    /\ lcount' = [lcount EXCEPT ![n] = count[n]]
    /\ load_state' = [load_state EXCEPT ![n] = "COUNTED"]
    /\ UNCHANGED <<cluster, inits, store, request, handler, failures>>

\* ... then me, and stores the rows of its shard, which it computes from the
\* bytes of the key.
LoadRows(n) ==
    LET mine == {k \in Rows : (IF lcount[n] = 0 THEN 0 ELSE RowShard[k]) = me[n]} IN
    /\ load_state[n] = "COUNTED"
    /\ kv' = [kv EXCEPT ![n] = [k \in Keys |-> IF k \in mine THEN Row ELSE @[k]]]
    /\ load_state' = [load_state EXCEPT ![n] = "LOADED"]
    /\ UNCHANGED <<cluster, inits, lcount, zsets, request, handler, failures>>

-----------------------------------------------------------------------------
\* A client sends a request to node n.
Arrive(r, n) ==
    /\ pc[r] = "idle"
    /\ \E o \in Ops, ks \in SUBSET Keys :
         /\ ks # {}
         /\ o \in SingleOps => \E k \in Keys : ks = {k}
         /\ op' = [op EXCEPT ![r] = o]
         /\ keys' = [keys EXCEPT ![r] = ks]
    /\ node' = [node EXCEPT ![r] = n]
    /\ pc' = [pc EXCEPT ![r] = "readCount"]
    /\ UNCHANGED <<cluster, loader, store, seen, forks, own, stage, done, got, status, failures>>

\* The handler reads count ...
ReadCount(r) ==
    /\ pc[r] = "readCount"
    /\ seen' = [seen EXCEPT ![r] = count[node[r]]]
    /\ pc' = [pc EXCEPT ![r] = "readMe"]
    /\ UNCHANGED <<cluster, loader, store, request, forks, own, stage, done, got, status, failures>>

\* ... then me.  A request for one key is served here or sent to its shard.
ReadMeSingle(r) ==
    LET here == me[node[r]] IN
    /\ pc[r] = "readMe"
    /\ Single(r)
    /\ own' = [own EXCEPT ![r] = here]
    /\ IF Group(r, here) # {}
       THEN UNCHANGED stage
       ELSE stage' = [stage EXCEPT ![r] =
                        [s \in Nodes |-> IF Group(r, s) # {} THEN "getClient" ELSE "none"]]
    /\ pc' = [pc EXCEPT ![r] = "serve"]
    /\ UNCHANGED <<cluster, loader, store, request, seen, forks, done, got, status, failures>>

\* A batch or list sets its own keys aside and goes through the other shards.
ReadMeMany(r) ==
    LET here == me[node[r]] IN
    /\ pc[r] = "readMe"
    /\ ~Single(r)
    /\ own' = [own EXCEPT ![r] = here]
    /\ forks' = [forks EXCEPT ![r] = {s \in Nodes \ {here} : Group(r, s) # {}}]
    /\ pc' = [pc EXCEPT ![r] = "fork"]
    /\ UNCHANGED <<cluster, loader, store, request, seen, stage, done, got, status, failures>>

\* It reads me again for each, and spawns a call unless the shard is its own.
Fork(r) ==
    /\ pc[r] = "fork"
    /\ \E s \in forks[r] :
         /\ forks' = [forks EXCEPT ![r] = @ \ {s}]
         /\ stage' = IF me[node[r]] # s THEN [stage EXCEPT ![r][s] = "getClient"] ELSE stage
    /\ UNCHANGED <<cluster, loader, store, request, pc, seen, own, done, got, status, failures>>

\* A faulty variant: the own shard is read again, like Fork does.
ServeHereRereading(r) ==
    /\ pc[r] = "serve" \/ (pc[r] = "fork" /\ forks[r] = {})
    /\ Serve(r, node[r], Group(r, me[node[r]]))
    /\ pc' = [pc EXCEPT ![r] = "wait"]
    /\ UNCHANGED <<cluster, loader, request, seen, forks, own, stage, status, failures>>

\* The keys of its own shard are served on the node itself.
ServeHere(r) ==
    /\ pc[r] = "serve" \/ (pc[r] = "fork" /\ forks[r] = {})
    /\ Serve(r, node[r], Group(r, own[r]))
    /\ pc' = [pc EXCEPT ![r] = "wait"]
    /\ UNCHANGED <<cluster, loader, request, seen, forks, own, stage, status, failures>>

\* pool.get_client under the read lock of Storage.cluster, and the call.
Send(r, s) ==
    /\ stage[r][s] = "getClient"
    /\ ~Locked(node[r]) /\ s < pool[node[r]]
    /\ stage' = [stage EXCEPT ![r][s] = "sent"]
    /\ UNCHANGED <<cluster, loader, store, request, pc, seen, forks, own, done, got, status, failures>>

\* get_client indexes past the end of the pool and panics: the task ends that called
\* it, of a batch or list the one it has spawned.
GetClientPanics(r, s) ==
    /\ stage[r][s] = "getClient"
    /\ ~Locked(node[r]) /\ s >= pool[node[r]]
    /\ stage' = [stage EXCEPT ![r][s] = "failed"]
    /\ pc' = IF Single(r) THEN [pc EXCEPT ![r] = "died"] ELSE pc
    /\ UNCHANGED <<cluster, loader, store, request, seen, forks, own, done, got, status, failures>>

\* CachePeerServer of node s serves the call on its own storage, also when the
\* caller has stopped waiting.
Remote(r, s) ==
    /\ stage[r][s] \in {"sent", "late"}
    /\ Serve(r, s, Group(r, s))
    /\ stage' = [stage EXCEPT ![r][s] = IF @ = "sent" THEN "served" ELSE "failed"]
    /\ UNCHANGED <<cluster, loader, request, pc, seen, forks, own, status, failures>>

\* The answer of the call, and put_client, under the write lock.
Reply(r, s) ==
    /\ stage[r][s] = "served"
    /\ ~Locked(node[r])
    /\ stage' = [stage EXCEPT ![r][s] = "ok"]
    /\ UNCHANGED <<cluster, loader, store, request, pc, seen, forks, own, done, got, status, failures>>

\* The connection breaks: the call, or its answer, is lost.
Lose(r, s) ==
    /\ failures < MaxFailures
    /\ failures' = failures + 1
    /\ stage[r][s] \in {"sent", "served"}
    /\ stage' = [stage EXCEPT ![r][s] = "failed"]
    /\ UNCHANGED <<cluster, loader, store, request, pc, seen, forks, own, done, got, status>>

\* The deadline of context::current() passes: the caller gets an error, the
\* call may still be served.
Timeout(r, s) ==
    /\ failures < MaxFailures
    /\ failures' = failures + 1
    /\ stage[r][s] = "sent"
    /\ stage' = [stage EXCEPT ![r][s] = "late"]
    /\ UNCHANGED <<cluster, loader, store, request, pc, seen, forks, own, done, got, status>>

\* The client goes away and the handler is dropped while it awaits its calls.  The
\* call of a request for one key is dropped with it, but may still be served; the
\* tasks that a batch or list has spawned go on.
Disconnect(r) ==
    /\ pc[r] = "wait"
    /\ \E s \in Nodes : stage[r][s] # "none"
    /\ pc' = [pc EXCEPT ![r] = "died"]
    /\ stage' = IF Single(r)
                THEN [stage EXCEPT ![r] =
                        [s \in Nodes |-> CASE @[s] = "sent"                   -> "late"
                                           [] @[s] \in {"getClient", "served"} -> "failed"
                                           [] OTHER                           -> @[s]]]
                ELSE stage
    /\ UNCHANGED <<cluster, loader, store, request, seen, forks, own, done, got, status, failures>>

\* All calls have ended.  The answer is an error when the one call of a request
\* for one key failed; a batch or a list leaves out the groups whose calls did.
\* A read that found nothing is answered with 404.
Answer(r) ==
    LET lost  == \E s \in Nodes : stage[r][s] \in {"failed", "late"}
        found == \E k \in keys[r] :
                   LET s == ShardOf(k, seen[r]) IN
                   got[r][k] # None /\ (s = own[r] \/ stage[r][s] = "ok") IN
    /\ pc[r] = "wait"
    /\ \A s \in Nodes : stage[r][s] \in {"none", "ok", "failed", "late"}
    /\ status' = [status EXCEPT ![r] = CASE Single(r) /\ lost  -> "500"
                                         [] Reads(r) /\ ~found -> "404"
                                         [] OTHER              -> "200"]
    /\ pc' = [pc EXCEPT ![r] = "answered"]
    /\ UNCHANGED <<cluster, loader, store, request, seen, forks, own, stage, done, got, failures>>

Configure(n) == UpdateLock(n) \/ UpdateMe(n) \/ UpdateCount(n) \/ Connect(n)
Loading(n)   == InitResume(n) \/ LoadCount(n) \/ LoadRows(n)
Handle(r)    == ReadCount(r) \/ ReadMeSingle(r) \/ ReadMeMany(r) \/ Fork(r) \/ ServeHere(r)
                  \/ Answer(r)
Exchange(r, s) == Send(r, s) \/ Remote(r, s) \/ Reply(r, s)

Next == \/ \E n \in Nodes : UpdateCluster(n) \/ Listen(n) \/ Start(n) \/ Configure(n)
        \/ \E n \in InitAt : InitCall(n) \/ InitUpdate(n) \/ InitDropped(n) \/ Loading(n)
        \/ \E r \in Requests : Handle(r) \/ Disconnect(r)
        \/ \E r \in Requests, n \in Nodes : Arrive(r, n)
        \/ \E r \in Requests, s \in Nodes :
             Exchange(r, s) \/ GetClientPanics(r, s) \/ Lose(r, s) \/ Timeout(r, s)

Spec == Init /\ [][Next]_vars

\* The tasks of a node run when they can, a request as long as its client is there,
\* and its RPC server accepts connections in the end.  Nothing makes clients or
\* operators act, or keeps clients from going away.
FairSpec == /\ Spec
            /\ \A n \in Nodes : WF_vars(Listen(n)) /\ WF_vars(Configure(n))
            /\ \A n \in InitAt : WF_vars(Loading(n))

-----------------------------------------------------------------------------
\* The type of the state: me names a node, count is 0 or the number of nodes.
TypeOK ==
    /\ file \in [Nodes -> BOOLEAN] /\ started \in [Nodes -> BOOLEAN]
    /\ listening \in [Nodes -> BOOLEAN]
    /\ update \in [Nodes -> {"no", "chosen", "locked", "meStored", "countStored", "ready",
                             "dropped"}]
    /\ me \in [Nodes -> Nodes] /\ count \in [Nodes -> {0, N}] /\ pool \in [Nodes -> 0 .. N]
    /\ inits \in [Nodes -> BOOLEAN] /\ lcount \in [Nodes -> {0, N}]
    /\ load_state \in [Nodes -> {"INIT", "LOADING", "COUNTED", "LOADED"}]
    /\ kv \in [Nodes -> [Keys -> Requests \cup {Row, None}]]
    /\ zsets \in [Nodes -> [Keys -> Requests \cup {Row, None}]]
    /\ node \in [Requests -> Nodes] /\ keys \in [Requests -> SUBSET Keys]
    /\ op \in [Requests -> Ops \cup {"none"}]
    /\ pc \in [Requests -> {"idle", "readCount", "readMe", "serve", "fork", "wait", "answered", "died"}]
    /\ seen \in [Requests -> {0, N}] /\ forks \in [Requests -> SUBSET Nodes]
    /\ own \in [Requests -> Nodes \cup {None}]
    /\ stage \in [Requests -> [Nodes ->
                   {"none", "getClient", "sent", "served", "ok", "failed", "late"}]]
    /\ done \in [Requests -> [Keys -> Nodes \cup {None}]]
    /\ got \in [Requests -> [Keys -> Requests \cup {Row, None}]]
    /\ status \in [Requests -> {"none", "200", "404", "500"}]
    /\ failures \in Nat

\* A handler that asks the pool for the client of a shard finds one there, unless the
\* /init that was connecting to the peers was dropped: PeerClientPool.get_client
\* indexes a vector, which is empty until update_peers has replaced it, and only
\* the lock makes the handler wait that long.
PoolInBounds ==
    \A r \in Requests, s \in Nodes :
      stage[r][s] = "getClient" /\ ~Locked(node[r])
        => s < pool[node[r]] \/ update[node[r]] = "dropped"

\* On a node whose /init has answered ok, which says that the start is complete, a
\* handler finds the client of every shard in the pool.
OkMeansConnected ==
    \A r \in Requests, s \in Nodes :
      stage[r][s] = "getClient" /\ ~Locked(node[r]) /\ load_state[node[r]] = "LOADED"
        => s < pool[node[r]]

\* A handler that has read the final count serves every key on the node of its
\* shard, also when update_peers stores me and count between the handler's reads.
RoutedToOwner ==
    \A r \in Requests, k \in Keys :
      seen[r] = N /\ done[r][k] # None => done[r][k] = Shard[k]

\* Of a request that is answered, every key was served, but for those whose own
\* call failed: no group of keys falls between the own group, chosen by one read of
\* me, and the calls, chosen by later reads, and a failed call takes no other
\* group with it.
NothingSkipped ==
    \A r \in Requests :
      status[r] # "none" =>
        \A k \in keys[r] :
          done[r][k] # None \/ stage[r][ShardOf(k, seen[r])] \in {"failed", "late"}

\* Somebody has deleted k on node n.
Deleted(k, n) == \E r \in Requests : op[r] = "del" /\ done[r][k] = n

\* A loader that has read the final count, and the one of node 0 in any case, has
\* stored every row of its shard, computed from the bytes of the key, also while
\* update_peers and the handlers are at work: no row falls between two nodes.
LoadedRowsKept ==
    \A n \in Nodes :
      load_state[n] = "LOADED" /\ (lcount[n] = N \/ n = 0)
        => \A k \in Rows : RowShard[k] = n => kv[n][k] # None \/ Deleted(k, n)

\* A node that has loaded its part of the initial data, with the count of the
\* cluster, has every row that the handlers of all nodes look for on it.
LoadedRowsServed ==
    \A n \in Nodes :
      load_state[n] = "LOADED" /\ lcount[n] = N
        => \A k \in Rows : Shard[k] = n => kv[n][k] # None \/ Deleted(k, n)

\* /init that awaits update_peers, which waits for the RPC servers of all nodes and of
\* the node itself, gets to the loader if its client stays; the loader, a thread of
\* its own, ends whether the client stays or not.
LoadEnds == \A n \in InitAt :
    /\ inits[n] ~> load_state[n] # "INIT" \/ update[n] = "dropped"
    /\ load_state[n] # "INIT" ~> load_state[n] = "LOADED"
=============================================================================
