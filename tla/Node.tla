------------------------------- MODULE Node -------------------------------
(***************************************************************************)
(* One Rust server (rust/src/storage.rs, rust/src/hcache.rs): the maps kv  *)
(* and zsets in memory, the RocksDB databases db and zset_db behind them,  *)
(* the flush thread, the loader of the initial data, and a crash followed  *)
(* by a restart that loads the databases.  The write-ahead log is off, so  *)
(* a crash keeps of each database what was flushed.  A handler's local     *)
(* call runs on a worker thread and takes several steps; no lock spans     *)
(* them.  The two indexes of a sorted set are one map here (see ZSet).     *)
(***************************************************************************)
EXTENDS Naturals, FiniteSets

CONSTANTS Threads,     \* request handlers that run at the same time
          Keys,
          Data,        \* values of the key-value part
          Members,     \* values of the sorted sets
          Scores,
          Ops,         \* the requests clients send
          Lasting,     \* the keys they never delete
          Dirs,        \* the directories named by INIT_DIRS
          Rows,        \* Rows[d]: the keys directory d holds
          InitData,    \* the value the initial data gives its keys
          Serialized,  \* no key is in two writes at a time
          MaxRequests, \* bound on the requests of a behaviour
          MaxCrashes,  \* bound on its crashes
          Missing      \* no value, no score, no row

ASSUME DataAssumption ==
    /\ InitData \in Data
    /\ Missing \notin Data \cup Scores
    /\ Rows \in [Dirs -> SUBSET Keys]
    /\ Ops \subseteq {"add", "batch", "del", "zadd", "zrmv"}
    /\ Lasting \subseteq Keys
    /\ Serialized \in BOOLEAN

VARIABLES kv,         \* Storage.kv
          zexists,    \* the keys of Storage.zsets
          zsets,      \* the sorted sets: member -> score
          db,         \* Storage.db, unflushed writes included
          zset_db,    \* Storage.zset_db, unflushed writes included
          db_disk,    \* what a crash keeps of db
          zset_disk,  \* what a crash keeps of zset_db
          pc,         \* pc[t]: the next step of handler t
          req,        \* req[t]: the request handler t serves
          todo,       \* todo[t]: the keys a batch has still to insert
          attached,   \* attached[t]: the sorted set t holds is still in zsets
          load_state, \* Storage.load_state
          left,       \* left[d]: the rows of d not loaded yet
          loading,    \* loading[d]: the row of d that is in db only
          up,         \* the process runs
          requests, crashes

memory   == <<kv, zexists, zsets>>
dbs      == <<db, zset_db>>
disk     == <<db_disk, zset_disk>>
handlers == <<pc, req, todo, attached>>
loader   == <<load_state, left, loading>>
vars     == <<memory, dbs, disk, handlers, loader, up, requests, crashes>>

NoRow     == [m \in Members |-> Missing]
NoRequest == [op |-> "none", keys |-> {}, data |-> Missing,
              member |-> Missing, score |-> Missing]

Single   == {{k} : k \in Keys}
Requests == [op : {"add"}, keys : Single, data : Data, member : {Missing}, score : {Missing}]
       \cup [op : {"batch"}, keys : (SUBSET Keys) \ {{}}, data : Data,
             member : {Missing}, score : {Missing}]
       \cup [op : {"del"}, keys : Single, data : {Missing}, member : {Missing}, score : {Missing}]
       \cup [op : {"zadd"}, keys : Single, data : {Missing}, member : Members, score : Scores]
       \cup [op : {"zrmv"}, keys : Single, data : {Missing}, member : Members, score : {Missing}]

First == [add |-> "zsetsRemove", batch |-> "batchInsert", del |-> "dbDelete",
          zadd |-> "zsetDbPut", zrmv |-> "zsetFind"]

-----------------------------------------------------------------------------
\* A store after a put, or after a delete when x is Missing.
Put(store, keys, x)     == [k \in Keys |-> IF k \in keys THEN x ELSE store[k]]
PutRow(store, keys, m, s) ==
    [k \in Keys |-> IF k \in keys THEN [store[k] EXCEPT ![m] = s] ELSE store[k]]

At(t, step) == up /\ pc[t] = step
Goto(t, step) == pc' = [pc EXCEPT ![t] = step]
Answer(t) == /\ Goto(t, "idle")
             /\ req' = [req EXCEPT ![t] = NoRequest]

\* A faulty variant: the answered request is kept.
EndsKeeping(t) == Goto(t, "idle") /\ UNCHANGED <<req, todo>>

\* The last step of a request leaves no trace in the handler's registers.
Ends(t) == Answer(t) /\ UNCHANGED todo

\* No handler works on key k, and no row of k is being loaded.
Quiet(k) == /\ \A t \in Threads : k \notin req[t].keys
            /\ \A d \in Dirs : k \notin left[d]

Init == /\ kv = [k \in Keys |-> Missing]
        /\ zexists = [k \in Keys |-> FALSE]
        /\ zsets = [k \in Keys |-> NoRow]
        /\ db = [k \in Keys |-> Missing]
        /\ zset_db = [k \in Keys |-> NoRow]
        /\ db_disk = [k \in Keys |-> Missing]
        /\ zset_disk = [k \in Keys |-> NoRow]
        /\ pc = [t \in Threads |-> "idle"]
        /\ req = [t \in Threads |-> NoRequest]
        /\ todo = [t \in Threads |-> {}]
        /\ attached = [t \in Threads |-> FALSE]
        /\ load_state = "INIT"
        /\ left = [d \in Dirs |-> {}]
        /\ loading = [d \in Dirs |-> {}]
        /\ up = TRUE
        /\ requests = 0
        /\ crashes = 0

\* A request for keys this node owns reaches its handler.
Call(t) == /\ At(t, "idle")
           /\ requests < MaxRequests
           /\ requests' = requests + 1
           /\ \E r \in Requests :
                /\ r.op \in Ops
                /\ r.op = "del" => r.keys \cap Lasting = {}
                /\ Serialized => \A k \in r.keys : Quiet(k)
                /\ req' = [req EXCEPT ![t] = r]
                /\ todo' = [todo EXCEPT ![t] = IF r.op = "batch" THEN r.keys ELSE {}]
                /\ Goto(t, First[r.op])
           /\ UNCHANGED <<memory, dbs, disk, attached, loader, up, crashes>>

-----------------------------------------------------------------------------
\* zsets.remove, the first step of an add and the last of a del.  The sorted
\* sets other handlers hold are no longer reachable.
ZsetsRemove(t) ==
    LET keys == req[t].keys IN
    /\ At(t, "zsetsRemove")
    /\ zexists' = Put(zexists, keys, FALSE)
    /\ zsets' = Put(zsets, keys, NoRow)
    /\ attached' = [u \in Threads |-> attached[u] /\ req[u].keys \cap keys = {}]
    /\ IF req[t].op = "add" THEN Goto(t, "dbPut") /\ UNCHANGED <<req, todo>> ELSE Ends(t)
    /\ UNCHANGED <<kv, dbs, disk, loader, up, requests, crashes>>

\* A faulty variant: the old value is removed before the new one is inserted.
DbPutRemoving(t) == /\ At(t, "dbPut")
                    /\ db' = Put(db, req[t].keys, req[t].data)
                    /\ kv' = Put(kv, req[t].keys, Missing)
                    /\ Goto(t, "kvInsert")
                    /\ UNCHANGED <<zexists, zsets, zset_db, disk, req, todo, attached, loader,
                                   up, requests, crashes>>

\* insert_kv: db.put_opt ...
DbPut(t) == /\ At(t, "dbPut")
            /\ db' = Put(db, req[t].keys, req[t].data)
            /\ Goto(t, "kvInsert")
            /\ UNCHANGED <<memory, zset_db, disk, req, todo, attached, loader, up, requests, crashes>>

\* ... then kv.insert.
KvInsert(t) == /\ At(t, "kvInsert")
               /\ kv' = Put(kv, req[t].keys, req[t].data)
               /\ Ends(t)
               /\ UNCHANGED <<zexists, zsets, dbs, disk, attached, loader, up, requests, crashes>>

\* batch_insert_kv_in_memory inserts the pairs one by one ...
BatchInsert(t) ==
    /\ At(t, "batchInsert")
    /\ \E k \in todo[t] :
         /\ kv' = Put(kv, {k}, req[t].data)
         /\ todo' = [todo EXCEPT ![t] = @ \ {k}]
         /\ Goto(t, IF todo[t] = {k} THEN "batchWrite" ELSE "batchInsert")
    /\ UNCHANGED <<zexists, zsets, dbs, disk, req, attached, loader, up, requests, crashes>>

\* ... and writes them to db as one WriteBatch at the end.
BatchWrite(t) == /\ At(t, "batchWrite")
                 /\ db' = Put(db, req[t].keys, req[t].data)
                 /\ Ends(t)
                 /\ UNCHANGED <<memory, zset_db, disk, attached, loader, up, requests, crashes>>

\* A faulty variant: the row stays in db.
DbDeleteForgotten(t) ==
    /\ At(t, "dbDelete")
    /\ Goto(t, "kvRemove")
    /\ UNCHANGED <<memory, dbs, disk, req, todo, attached, loader, up, requests, crashes>>

\* remove_key: db.delete_opt ...
DbDelete(t) == /\ At(t, "dbDelete")
               /\ db' = Put(db, req[t].keys, Missing)
               /\ Goto(t, "kvRemove")
               /\ UNCHANGED <<memory, zset_db, disk, req, todo, attached, loader, up, requests, crashes>>

\* ... then kv.remove; the handler removes the sorted set after it.
KvRemove(t) == /\ At(t, "kvRemove")
               /\ kv' = Put(kv, req[t].keys, Missing)
               /\ Goto(t, "zsetsRemove")
               /\ UNCHANGED <<zexists, zsets, dbs, disk, req, todo, attached, loader, up, requests, crashes>>

\* zadd: zset_db.put_opt ...
ZsetDbPut(t) ==
    /\ At(t, "zsetDbPut")
    /\ zset_db' = PutRow(zset_db, req[t].keys, req[t].member, req[t].score)
    /\ Goto(t, "zsetGetOrInsert")
    /\ UNCHANGED <<memory, db, disk, req, todo, attached, loader, up, requests, crashes>>

\* ... zsets.get_or_insert, without a look at kv ...
ZsetGetOrInsert(t) ==
    /\ At(t, "zsetGetOrInsert")
    /\ zexists' = Put(zexists, req[t].keys, TRUE)
    /\ attached' = [attached EXCEPT ![t] = TRUE]
    /\ Goto(t, "zsetSet")
    /\ UNCHANGED <<kv, zsets, dbs, disk, req, todo, loader, up, requests, crashes>>

\* ... and the indexes of the sorted set it found, if that is still in zsets.
ZsetSet(t) ==
    /\ At(t, "zsetSet")
    /\ zsets' = IF attached[t] THEN PutRow(zsets, req[t].keys, req[t].member, req[t].score)
                ELSE zsets
    /\ attached' = [attached EXCEPT ![t] = FALSE]
    /\ Ends(t)
    /\ UNCHANGED <<kv, zexists, dbs, disk, loader, up, requests, crashes>>

\* zrmv: zsets.get ...
ZsetFind(t) ==
    LET found == \A k \in req[t].keys : zexists[k] IN
    /\ At(t, "zsetFind")
    /\ attached' = [attached EXCEPT ![t] = found]
    /\ IF found THEN Goto(t, "zsetTake") /\ UNCHANGED <<req, todo>> ELSE Ends(t)
    /\ UNCHANGED <<memory, dbs, disk, loader, up, requests, crashes>>

\* A faulty variant: the score is read, not removed.
ZsetTakeReading(t) ==
    LET taken == \E k \in req[t].keys : zsets[k][req[t].member] # Missing IN
    /\ At(t, "zsetTake")
    /\ IF taken THEN Goto(t, "zsetDbDelete") /\ UNCHANGED <<req, todo>> ELSE Ends(t)
    /\ attached' = [attached EXCEPT ![t] = FALSE]
    /\ UNCHANGED <<memory, dbs, disk, loader, up, requests, crashes>>

\* ... value_to_score.remove_with_guard of the sorted set it found.  A member
\* of a sorted set that has left zsets may have been there or not ...
ZsetTake(t) ==
    LET taken == \E k \in req[t].keys : zsets[k][req[t].member] # Missing IN
    /\ At(t, "zsetTake")
    /\ \E found \in IF attached[t] THEN {taken} ELSE BOOLEAN :
         IF found THEN Goto(t, "zsetDbDelete") /\ UNCHANGED <<req, todo>> ELSE Ends(t)
    /\ zsets' = IF attached[t] THEN PutRow(zsets, req[t].keys, req[t].member, Missing)
                ELSE zsets
    /\ attached' = [attached EXCEPT ![t] = FALSE]
    /\ UNCHANGED <<kv, zexists, dbs, disk, loader, up, requests, crashes>>

\* ... and zset_db.delete_opt if it was there.
ZsetDbDelete(t) ==
    /\ At(t, "zsetDbDelete")
    /\ zset_db' = PutRow(zset_db, req[t].keys, req[t].member, Missing)
    /\ Ends(t)
    /\ UNCHANGED <<memory, db, disk, attached, loader, up, requests, crashes>>

-----------------------------------------------------------------------------
\* GET /init: the first call since the start spawns the loader, which opens
\* every directory of INIT_DIRS.
StartLoad ==
    /\ up
    /\ load_state = "INIT"
    /\ Serialized => \A d \in Dirs : \A k \in Rows[d] : Quiet(k)
    /\ load_state' = "LOADING"
    /\ left' = Rows
    /\ UNCHANGED <<memory, dbs, disk, handlers, loading, up, requests, crashes>>

\* A directory's thread puts a row into db, whatever db or kv holds ...
LoadPut(d) ==
    /\ up
    /\ loading[d] = {}
    /\ \E k \in left[d] :
         /\ db' = Put(db, {k}, InitData)
         /\ loading' = [loading EXCEPT ![d] = {k}]
    /\ UNCHANGED <<memory, zset_db, disk, handlers, load_state, left, up, requests, crashes>>

\* A faulty variant: the iterator is not moved to the next row.
LoadInsertStuck(d) ==
    /\ up
    /\ loading[d] # {}
    /\ kv' = Put(kv, loading[d], InitData)
    /\ loading' = [loading EXCEPT ![d] = {}]
    /\ UNCHANGED <<zexists, zsets, dbs, disk, handlers, load_state, left, up, requests, crashes>>

\* ... and into kv.
LoadInsert(d) ==
    /\ up
    /\ loading[d] # {}
    /\ kv' = Put(kv, loading[d], InitData)
    /\ left' = [left EXCEPT ![d] = @ \ loading[d]]
    /\ loading' = [loading EXCEPT ![d] = {}]
    /\ UNCHANGED <<zexists, zsets, dbs, disk, handlers, load_state, up, requests, crashes>>

\* A faulty variant: the threads are not joined.
LoadedEarly ==
    /\ up
    /\ load_state = "LOADING"
    /\ load_state' = "LOADED"
    /\ UNCHANGED <<memory, dbs, disk, handlers, left, loading, up, requests, crashes>>

\* The threads of all directories are joined: from here on /init answers "ok".
Loaded ==
    /\ up
    /\ load_state = "LOADING"
    /\ \A d \in Dirs : left[d] = {}
    /\ load_state' = "LOADED"
    /\ UNCHANGED <<memory, dbs, disk, handlers, left, loading, up, requests, crashes>>

-----------------------------------------------------------------------------
\* Faulty variants: the flush thread has stopped, and it flushes db only.
FlushDbStopped     == up /\ UNCHANGED vars
FlushZsetDbSkipped == up /\ UNCHANGED vars

\* The flush thread, or RocksDB when a write buffer is full, makes the writes
\* of one database durable.
FlushDb == /\ up
           /\ db_disk' = db
           /\ UNCHANGED <<memory, dbs, zset_disk, handlers, loader, up, requests, crashes>>

FlushZsetDb == /\ up
               /\ zset_disk' = zset_db
               /\ UNCHANGED <<memory, dbs, db_disk, handlers, loader, up, requests, crashes>>

\* The process dies: requests in flight are never answered, and what was not
\* flushed is gone.
Crash == /\ up
         /\ crashes < MaxCrashes
         /\ crashes' = crashes + 1
         /\ up' = FALSE
         /\ kv' = [k \in Keys |-> Missing]
         /\ zexists' = [k \in Keys |-> FALSE]
         /\ zsets' = [k \in Keys |-> NoRow]
         /\ db' = db_disk
         /\ zset_db' = zset_disk
         /\ pc' = [t \in Threads |-> "idle"]
         /\ req' = [t \in Threads |-> NoRequest]
         /\ todo' = [t \in Threads |-> {}]
         /\ attached' = [t \in Threads |-> FALSE]
         /\ load_state' = "INIT"
         /\ left' = [d \in Dirs |-> {}]
         /\ loading' = [d \in Dirs |-> {}]
         /\ UNCHANGED <<disk, requests>>

\* A faulty variant: only zset_db is loaded.
RestartZsetsOnly ==
    /\ ~up
    /\ up' = TRUE
    /\ zexists' = [k \in Keys |-> zset_db[k] # NoRow]
    /\ zsets' = zset_db
    /\ UNCHANGED <<kv, dbs, disk, handlers, loader, requests, crashes>>

\* main: load_from_disk inserts every row of both databases before serving.
Restart == /\ ~up
           /\ up' = TRUE
           /\ kv' = db
           /\ zexists' = [k \in Keys |-> zset_db[k] # NoRow]
           /\ zsets' = zset_db
           /\ UNCHANGED <<dbs, disk, handlers, loader, requests, crashes>>

Handle(t) == \/ ZsetsRemove(t) \/ DbPut(t) \/ KvInsert(t)
             \/ BatchInsert(t) \/ BatchWrite(t)
             \/ DbDelete(t) \/ KvRemove(t)
             \/ ZsetDbPut(t) \/ ZsetGetOrInsert(t) \/ ZsetSet(t)
             \/ ZsetFind(t) \/ ZsetTake(t) \/ ZsetDbDelete(t)

Load(d) == LoadPut(d) \/ LoadInsert(d)

Next == \/ \E t \in Threads : Call(t) \/ Handle(t)
        \/ StartLoad \/ Loaded \/ \E d \in Dirs : Load(d)
        \/ FlushDb \/ FlushZsetDb
        \/ Crash \/ Restart

\* Worker threads, the loader and the flush thread run whenever they can, and
\* a dead process is started again.  Nothing makes clients call.
Fairness == /\ \A t \in Threads : WF_vars(Handle(t))
            /\ \A d \in Dirs : WF_vars(Load(d))
            /\ WF_vars(Loaded)
            /\ WF_vars(FlushDb) /\ WF_vars(FlushZsetDb)
            /\ WF_vars(Restart)

Spec     == Init /\ [][Next]_vars
FairSpec == Spec /\ Fairness

-----------------------------------------------------------------------------
\* Types of the stores and of the handlers' registers.  A handler between its
\* two writes has its request, and a loader thread a row of its directory.
TypeOK ==
    /\ {kv, db, db_disk} \subseteq [Keys -> Data \cup {Missing}]
    /\ zexists \in [Keys -> BOOLEAN]
    /\ {zsets, zset_db, zset_disk} \subseteq [Keys -> [Members -> Scores \cup {Missing}]]
    /\ \A t \in Threads : /\ req[t] \in Requests \cup {NoRequest}
                          /\ pc[t] = "idle" <=> req[t] = NoRequest
                          /\ todo[t] \subseteq req[t].keys
                          /\ attached[t] => pc[t] \in {"zsetSet", "zsetTake"}
    /\ load_state \in {"INIT", "LOADING", "LOADED"}
    /\ \A d \in Dirs : loading[d] \subseteq left[d] /\ left[d] \subseteq Rows[d]
    /\ up \in BOOLEAN

\* When nobody writes a key, memory answers a query with the row a restart
\* after a flush would load: neither an add, a batch, a del nor the loader
\* leaves the two apart.
RowsMatch == up => \A k \in Keys : Quiet(k) => kv[k] = db[k]

\* Likewise every member a zrange returns has its row, with its score.
MembersHaveRows ==
    up => \A k \in Keys : Quiet(k) => \A m \in Members :
             zsets[k][m] # Missing => zexists[k] /\ zset_db[k][m] = zsets[k][m]

\* A key that can be queried stays so until a del of it, or the death of the
\* process: an add or the loader replaces the value in one step.
OnlyDelHides ==
    [][\A k \in Keys : kv[k] # Missing /\ kv'[k] = Missing =>
         ~up' \/ \E t \in Threads : req[t].op = "del" /\ k \in req[t].keys]_vars

\* When /init answers "ok", every key of the initial data that nobody deletes
\* can be queried, whatever else is done to it meanwhile.
InitialDataServed ==
    load_state = "LOADED" =>
        \A d \in Dirs : \A k \in Rows[d] \cap Lasting : kv[k] # Missing

\* A row that is not overwritten becomes durable, unless the process dies first:
\* the flush thread writes it out, whatever handlers and loaders go on writing.
EventuallyDurable ==
    \A k \in Keys, x \in Data :
        up /\ db[k] = x ~> ~up \/ db[k] # x \/ db_disk[k] = x

\* The loader ends: a client that polls /init sees "ok" unless the process dies.
LoadEnds == load_state = "LOADING" ~> load_state # "LOADING"
=============================================================================
