----------------------------- MODULE NodeProofs -----------------------------
(***************************************************************************)
(* Proofs about Node and NodeHistory, for any number of handlers, keys,    *)
(* directories, requests and crashes.                                      *)
(***************************************************************************)
EXTENDS NodeHistory, TLAPS

Strings == Data \cup {Missing}
Entries == [Members -> Scores \cup {Missing}]

\* The steps of the handler of each request.
StepsOf == [add   |-> {"zsetsRemove", "dbPut", "kvInsert"},
            batch |-> {"batchInsert", "batchWrite"},
            del   |-> {"dbDelete", "kvRemove", "zsetsRemove"},
            zadd  |-> {"zsetDbPut", "zsetGetOrInsert", "zsetSet"},
            zrmv  |-> {"zsetFind", "zsetTake", "zsetDbDelete"}]

Steps == {"idle", "zsetsRemove", "dbPut", "kvInsert", "batchInsert", "batchWrite", "dbDelete",
          "kvRemove", "zsetDbPut", "zsetGetOrInsert", "zsetSet", "zsetFind", "zsetTake",
          "zsetDbDelete"}

StoreType ==
    /\ kv \in [Keys -> Strings] /\ db \in [Keys -> Strings] /\ db_disk \in [Keys -> Strings]
    /\ zexists \in [Keys -> BOOLEAN]
    /\ zsets \in [Keys -> Entries] /\ zset_db \in [Keys -> Entries] /\ zset_disk \in [Keys -> Entries]

RegisterType ==
    /\ pc \in [Threads -> Steps]
    /\ req \in [Threads -> Requests \cup {NoRequest}]
    /\ todo \in [Threads -> SUBSET Keys]
    /\ attached \in [Threads -> BOOLEAN]

LoaderType ==
    /\ load_state \in {"INIT", "LOADING", "LOADED"}
    /\ left \in [Dirs -> SUBSET Keys] /\ loading \in [Dirs -> SUBSET Keys]
    /\ \A d \in Dirs : loading[d] \subseteq left[d] /\ left[d] \subseteq Rows[d]
    /\ load_state = "INIT" => \A d \in Dirs : left[d] = {}
    /\ up \in BOOLEAN

\* A handler is at a step of its request; only a batch has keys to insert.
RegisterInv == \A t \in Threads :
    /\ pc[t] = "idle" <=> req[t] = NoRequest
    /\ req[t] # NoRequest => pc[t] \in StepsOf[req[t].op]
    /\ todo[t] \subseteq req[t].keys
    /\ todo[t] # {} => pc[t] = "batchInsert"
    /\ attached[t] => pc[t] \in {"zsetSet", "zsetTake"}

\* A dead process has no handlers, no loader and no memory.
DownInv == ~up => /\ \A t \in Threads : req[t] = NoRequest
                  /\ load_state = "INIT" /\ \A d \in Dirs : left[d] = {}
                  /\ \A k \in Keys : kv[k] = Missing

TypeInv == StoreType /\ RegisterType /\ LoaderType /\ RegisterInv /\ DownInv

-----------------------------------------------------------------------------
(* Requests and stores. *)

LEMMA RequestFields ==
    ASSUME NEW r \in Requests
    PROVE  /\ r.op \in {"add", "batch", "del", "zadd", "zrmv"}
           /\ r.keys \subseteq Keys /\ r.keys # {}
           /\ r.op \in {"add", "batch"} => r.data \in Data
           /\ r.op \in {"zadd", "zrmv"} => r.member \in Members
           /\ r.op = "zadd" => r.score \in Scores
           /\ r # NoRequest
BY DEF Requests, Single, NoRequest

LEMMA NoRequestFields == NoRequest.keys = {} /\ NoRequest.op = "none"
BY DEF NoRequest

LEMMA PutType ==
    ASSUME NEW S, NEW f \in [Keys -> S], NEW ks, NEW x \in S
    PROVE  /\ Put(f, ks, x) \in [Keys -> S]
           /\ \A k \in Keys : Put(f, ks, x)[k] = IF k \in ks THEN x ELSE f[k]
BY DEF Put

LEMMA PutRowType ==
    ASSUME NEW f \in [Keys -> Entries], NEW ks, NEW m \in Members, NEW s \in Scores \cup {Missing}
    PROVE  /\ PutRow(f, ks, m, s) \in [Keys -> Entries]
           /\ \A k \in Keys, i \in Members :
                PutRow(f, ks, m, s)[k][i] = IF k \in ks /\ i = m THEN s ELSE f[k][i]
BY DEF PutRow, Entries

LEMMA NoRowType == NoRow \in Entries /\ \A m \in Members : NoRow[m] = Missing
BY DEF NoRow, Entries

\* A handler at a step has the request of that step.
LEMMA AtStep ==
    ASSUME TypeInv, NEW t \in Threads, NEW step, At(t, step), step # "idle"
    PROVE  /\ up /\ pc[t] = step /\ req[t] \in Requests /\ req[t] # NoRequest
           /\ step \in StepsOf[req[t].op]
           /\ req[t].keys \subseteq Keys
BY RequestFields DEF TypeInv, RegisterInv, RegisterType, At

LEMMA StepOps ==
    ASSUME TypeInv, NEW t \in Threads, req[t] # NoRequest
    PROVE  /\ pc[t] \in {"dbPut", "kvInsert"} => req[t].op = "add" /\ req[t].data \in Data
           /\ pc[t] \in {"batchInsert", "batchWrite"} => req[t].op = "batch" /\ req[t].data \in Data
           /\ pc[t] \in {"dbDelete", "kvRemove"} => req[t].op = "del"
           /\ pc[t] = "zsetsRemove" => req[t].op \in {"add", "del"}
           /\ pc[t] \in {"zsetDbPut", "zsetGetOrInsert", "zsetSet"} =>
                req[t].op = "zadd" /\ req[t].member \in Members /\ req[t].score \in Scores
           /\ pc[t] \in {"zsetFind", "zsetTake", "zsetDbDelete"} =>
                req[t].op = "zrmv" /\ req[t].member \in Members
<1>1. req[t] \in Requests /\ pc[t] \in StepsOf[req[t].op]
  BY DEF TypeInv, RegisterType, RegisterInv
<1>2. req[t].op \in {"add", "batch", "del", "zadd", "zrmv"}
  BY <1>1, RequestFields
<1>3. CASE req[t].op = "add"
  BY <1>1, <1>3, RequestFields DEF StepsOf
<1>4. CASE req[t].op = "batch"
  BY <1>1, <1>4, RequestFields DEF StepsOf
<1>5. CASE req[t].op = "del"
  BY <1>1, <1>5, RequestFields DEF StepsOf
<1>6. CASE req[t].op = "zadd"
  BY <1>1, <1>6, RequestFields DEF StepsOf
<1>7. CASE req[t].op = "zrmv"
  BY <1>1, <1>7, RequestFields DEF StepsOf
<1> QED
  BY <1>2, <1>3, <1>4, <1>5, <1>6, <1>7

-----------------------------------------------------------------------------
(* Types. *)

LEMMA StepsAreSteps ==
    ASSUME NEW op \in {"add", "batch", "del", "zadd", "zrmv"}, NEW step \in StepsOf[op]
    PROVE  step # "idle" /\ step \in Steps
BY DEF StepsOf, Steps

\* A handler goes on to another step of its request ...
LEMMA GoesOn ==
    ASSUME TypeInv, NEW t \in Threads, req[t] # NoRequest,
           NEW next \in StepsOf[req[t].op], Goto(t, next), UNCHANGED req,
           todo' \in [Threads -> SUBSET Keys], \A u \in Threads \ {t} : todo'[u] = todo[u],
           todo'[t] \subseteq todo[t], todo'[t] # {} => next = "batchInsert",
           attached' \in [Threads -> BOOLEAN],
           \A u \in Threads \ {t} : attached'[u] => attached[u],
           attached'[t] => next \in {"zsetSet", "zsetTake"}
    PROVE  RegisterType' /\ RegisterInv'
<1>1. req[t] \in Requests /\ next # "idle" /\ next \in Steps
  BY RequestFields, StepsAreSteps DEF TypeInv, RegisterType
<1>2. pc' \in [Threads -> Steps] /\ pc'[t] = next /\ \A u \in Threads \ {t} : pc'[u] = pc[u]
  BY <1>1 DEF TypeInv, RegisterType, Goto
<1>3. RegisterType'
  BY <1>2 DEF TypeInv, RegisterType
<1>4. RegisterInv'
  BY <1>1, <1>2 DEF TypeInv, RegisterInv
<1> QED
  BY <1>3, <1>4

\* ... or answers it.
LEMMA Answers ==
    ASSUME TypeInv, NEW t \in Threads, Answer(t), todo[t] = {}, UNCHANGED todo,
           attached' \in [Threads -> BOOLEAN],
           \A u \in Threads \ {t} : attached'[u] => attached[u], ~attached'[t]
    PROVE  /\ RegisterType' /\ RegisterInv'
           /\ pc'[t] = "idle" /\ req'[t] = NoRequest
           /\ \A u \in Threads \ {t} : pc'[u] = pc[u] /\ req'[u] = req[u]
<1>1. /\ pc' \in [Threads -> Steps] /\ pc'[t] = "idle"
      /\ \A u \in Threads \ {t} : pc'[u] = pc[u]
  <2>1. pc \in [Threads -> Steps] /\ pc' = [pc EXCEPT ![t] = "idle"] /\ "idle" \in Steps
    BY DEF TypeInv, RegisterType, Answer, Goto, Steps
  <2> QED
    BY <2>1
<1>2. /\ req' \in [Threads -> Requests \cup {NoRequest}] /\ req'[t] = NoRequest
      /\ \A u \in Threads \ {t} : req'[u] = req[u]
  BY DEF TypeInv, RegisterType, Answer
<1>3. RegisterType'
  BY <1>1, <1>2 DEF TypeInv, RegisterType
<1>4. RegisterInv'
  BY <1>1, <1>2 DEF TypeInv, RegisterInv
<1> QED
  BY <1>1, <1>2, <1>3, <1>4

\* Where the handler of a request is after a step, and what the others see of it.
OwnStep(t) ==
    /\ up /\ up' /\ req[t] \in Requests /\ req[t] # NoRequest
    /\ \A u \in Threads \ {t} :
         /\ pc'[u] = pc[u] /\ req'[u] = req[u] /\ todo'[u] = todo[u]
         /\ req[u].keys \cap req[t].keys = {} => attached'[u] = attached[u]
    /\ \/ req'[t] = req[t] /\ pc'[t] \in StepsOf[req[t].op]
       \/ req'[t] = NoRequest /\ pc'[t] = "idle"
    /\ \A k \in Keys \ req[t].keys : /\ kv'[k] = kv[k] /\ db'[k] = db[k]
                                     /\ zexists'[k] = zexists[k]
                                     /\ zsets'[k] = zsets[k] /\ zset_db'[k] = zset_db[k]
    /\ UNCHANGED <<disk, loader>>

RegisterStep(t) == RegisterType' /\ RegisterInv' /\ StoreType' /\ OwnStep(t)

LEMMA ZsetsRemoveStep ==
    ASSUME TypeInv, NEW t \in Threads, ZsetsRemove(t)
    PROVE  RegisterStep(t)
<1>1. /\ up /\ pc[t] = "zsetsRemove" /\ req[t] \in Requests /\ req[t] # NoRequest
      /\ req[t].keys \subseteq Keys /\ req[t].op \in {"add", "del"} /\ todo[t] = {}
  BY AtStep, StepOps DEF ZsetsRemove, TypeInv, RegisterInv
<1>2. /\ attached' \in [Threads -> BOOLEAN]
      /\ \A u \in Threads : /\ attached'[u] => attached[u]
                            /\ req[u].keys \cap req[t].keys = {} => attached'[u] = attached[u]
  BY DEF TypeInv, RegisterType, ZsetsRemove
<1>3. ~attached[t] /\ ~attached'[t]
  BY <1>1, <1>2 DEF TypeInv, RegisterInv
<1>4. StoreType' /\ \A k \in Keys \ req[t].keys : zexists'[k] = zexists[k] /\ zsets'[k] = zsets[k]
  <2>1. zexists' = Put(zexists, req[t].keys, FALSE) /\ zsets' = Put(zsets, req[t].keys, NoRow)
    BY DEF ZsetsRemove
  <2>2. zexists \in [Keys -> BOOLEAN] /\ zsets \in [Keys -> Entries]
    BY DEF TypeInv, StoreType
  <2>3. zexists' \in [Keys -> BOOLEAN] /\ \A k \in Keys \ req[t].keys : zexists'[k] = zexists[k]
    BY <2>1, <2>2 DEF Put
  <2>4. zsets' \in [Keys -> Entries] /\ \A k \in Keys \ req[t].keys : zsets'[k] = zsets[k]
    BY <2>1, <2>2, NoRowType DEF Put
  <2> QED
    BY <2>3, <2>4 DEF TypeInv, StoreType, ZsetsRemove, dbs, disk
<1>5. UNCHANGED <<up, kv, db, zset_db, disk, loader>>
  BY DEF ZsetsRemove, dbs
<1>6. CASE req[t].op = "add"
  <2>1. Goto(t, "dbPut") /\ UNCHANGED <<req, todo>>
    BY <1>6 DEF ZsetsRemove
  <2>2. "dbPut" \in StepsOf[req[t].op]
    BY <1>6 DEF StepsOf
  <2>3. RegisterType' /\ RegisterInv'
    BY <1>1, <1>2, <1>3, <2>1, <2>2, GoesOn DEF TypeInv, RegisterType
  <2>4. pc'[t] = "dbPut" /\ \A u \in Threads \ {t} : pc'[u] = pc[u]
    BY <2>1 DEF TypeInv, RegisterType, Goto
  <2> QED
    BY <1>1, <1>2, <1>4, <1>5, <2>1, <2>2, <2>3, <2>4 DEF RegisterStep, OwnStep
<1>7. CASE req[t].op # "add"
  <2>1. Answer(t) /\ UNCHANGED todo
    BY <1>7 DEF ZsetsRemove, Ends
  <2>2. /\ RegisterType' /\ RegisterInv' /\ pc'[t] = "idle" /\ req'[t] = NoRequest
        /\ \A u \in Threads \ {t} : pc'[u] = pc[u] /\ req'[u] = req[u]
    BY <1>1, <1>2, <1>3, <2>1, Answers
  <2> QED
    BY <1>1, <1>2, <1>4, <1>5, <2>1, <2>2 DEF RegisterStep, OwnStep
<1> QED
  BY <1>6, <1>7

\* The stores keep their types, and the other keys their values.
StoreStep(t) ==
    /\ StoreType'
    /\ \A k \in Keys \ req[t].keys : /\ kv'[k] = kv[k] /\ db'[k] = db[k]
                                     /\ zexists'[k] = zexists[k]
                                     /\ zsets'[k] = zsets[k] /\ zset_db'[k] = zset_db[k]
    /\ UNCHANGED <<up, disk, loader>>

\* The steps that leave the sorted sets of other handlers where they are.
LEMMA GoesOnStep ==
    ASSUME TypeInv, NEW t \in Threads, up, req[t] # NoRequest, StoreStep(t),
           NEW next \in StepsOf[req[t].op], Goto(t, next), UNCHANGED <<req, todo>>, todo[t] = {},
           NEW held \in BOOLEAN, attached' = [attached EXCEPT ![t] = held],
           held => next \in {"zsetSet", "zsetTake"}
    PROVE  RegisterStep(t)
<1>1. req[t] \in Requests
  BY DEF TypeInv, RegisterType
<1>2. /\ attached' \in [Threads -> BOOLEAN] /\ attached'[t] = held
      /\ \A u \in Threads \ {t} : attached'[u] = attached[u]
  BY DEF TypeInv, RegisterType
<1>3. RegisterType' /\ RegisterInv'
  BY <1>2, GoesOn DEF TypeInv, RegisterType
<1>4. pc'[t] = next /\ \A u \in Threads \ {t} : pc'[u] = pc[u]
  BY DEF TypeInv, RegisterType, Goto
<1> QED
  BY <1>1, <1>2, <1>3, <1>4 DEF RegisterStep, OwnStep, StoreStep

LEMMA AnswersStep ==
    ASSUME TypeInv, NEW t \in Threads, up, req[t] # NoRequest, StoreStep(t),
           Ends(t), todo[t] = {}, attached' = [attached EXCEPT ![t] = FALSE]
    PROVE  RegisterStep(t)
<1>1. req[t] \in Requests
  BY DEF TypeInv, RegisterType
<1>2. /\ attached' \in [Threads -> BOOLEAN] /\ ~attached'[t]
      /\ \A u \in Threads \ {t} : attached'[u] = attached[u]
  BY DEF TypeInv, RegisterType
<1>3. /\ RegisterType' /\ RegisterInv' /\ pc'[t] = "idle" /\ req'[t] = NoRequest
      /\ \A u \in Threads \ {t} : pc'[u] = pc[u] /\ req'[u] = req[u]
  BY <1>2, Answers DEF Ends
<1> QED
  BY <1>1, <1>2, <1>3 DEF RegisterStep, OwnStep, StoreStep, Ends

\* What a handler knows at any step but those of a batch and of zsetSet, zsetTake.
LEMMA Unattached ==
    ASSUME TypeInv, NEW t \in Threads
    PROVE  /\ pc[t] # "batchInsert" => todo[t] = {}
           /\ pc[t] \notin {"zsetSet", "zsetTake"} => attached = [attached EXCEPT ![t] = FALSE]
<1>1. attached \in [Threads -> BOOLEAN]
  BY DEF TypeInv, RegisterType
<1> QED
  BY <1>1 DEF TypeInv, RegisterInv

\* A put or a delete of the handler's keys in kv or db.
LEMMA StringStores ==
    ASSUME TypeInv, NEW t \in Threads, NEW x \in Strings, NEW ks \in SUBSET req[t].keys,
           kv' \in {kv, Put(kv, ks, x)}, db' \in {db, Put(db, ks, x)},
           UNCHANGED <<zexists, zsets, zset_db, disk, loader, up>>
    PROVE  StoreStep(t)
<1>1. kv' \in [Keys -> Strings] /\ db' \in [Keys -> Strings]
  BY DEF TypeInv, StoreType, Put
<1>2. \A k \in Keys \ req[t].keys : kv'[k] = kv[k] /\ db'[k] = db[k]
  BY DEF TypeInv, StoreType, Put
<1> QED
  BY <1>1, <1>2 DEF TypeInv, StoreType, StoreStep, disk

\* A put or a delete of a member in zsets or zset_db.
LEMMA EntryStores ==
    ASSUME TypeInv, NEW t \in Threads, NEW m \in Members, NEW s \in Scores \cup {Missing},
           zsets' \in {zsets, PutRow(zsets, req[t].keys, m, s)},
           zset_db' \in {zset_db, PutRow(zset_db, req[t].keys, m, s)},
           zexists' \in {zexists, Put(zexists, req[t].keys, TRUE)},
           UNCHANGED <<kv, db, disk, loader, up>>
    PROVE  StoreStep(t)
<1>1. zsets' \in [Keys -> Entries] /\ zset_db' \in [Keys -> Entries]
  <2>1. zsets \in [Keys -> Entries] /\ zset_db \in [Keys -> Entries]
    BY DEF TypeInv, StoreType
  <2>2. /\ PutRow(zsets, req[t].keys, m, s) \in [Keys -> Entries]
        /\ PutRow(zset_db, req[t].keys, m, s) \in [Keys -> Entries]
    BY <2>1, PutRowType
  <2> QED
    BY <2>1, <2>2
<1>2. \A k \in Keys \ req[t].keys : zsets'[k] = zsets[k] /\ zset_db'[k] = zset_db[k]
  BY DEF TypeInv, StoreType, PutRow
<1>3. /\ zexists' \in [Keys -> BOOLEAN]
      /\ \A k \in Keys \ req[t].keys : zexists'[k] = zexists[k]
  BY DEF TypeInv, StoreType, Put
<1> QED
  BY <1>1, <1>2, <1>3 DEF TypeInv, StoreType, StoreStep, disk

LEMMA StringSteps ==
    ASSUME TypeInv, NEW t \in Threads,
           \/ DbPut(t) \/ KvInsert(t) \/ BatchWrite(t) \/ DbDelete(t) \/ KvRemove(t)
    PROVE  RegisterStep(t)
<1>1. CASE DbPut(t)
  <2>1. /\ up /\ pc[t] = "dbPut" /\ req[t] # NoRequest /\ req[t].op = "add" /\ req[t].data \in Strings
    BY <1>1, AtStep, StepOps DEF DbPut, Strings
  <2>2. StoreStep(t)
    BY <1>1, <2>1, StringStores DEF DbPut, memory
  <2>3. "kvInsert" \in StepsOf[req[t].op]
    BY <2>1 DEF StepsOf
  <2> QED
    BY <1>1, <2>1, <2>2, <2>3, Unattached, GoesOnStep DEF DbPut
<1>2. CASE KvInsert(t)
  <2>1. up /\ pc[t] = "kvInsert" /\ req[t] # NoRequest /\ req[t].data \in Strings
    BY <1>2, AtStep, StepOps DEF KvInsert, Strings
  <2>2. StoreStep(t)
    BY <1>2, <2>1, StringStores DEF KvInsert, dbs
  <2> QED
    BY <1>2, <2>1, <2>2, Unattached, AnswersStep DEF KvInsert
<1>3. CASE BatchWrite(t)
  <2>1. up /\ pc[t] = "batchWrite" /\ req[t] # NoRequest /\ req[t].data \in Strings
    BY <1>3, AtStep, StepOps DEF BatchWrite, Strings
  <2>2. StoreStep(t)
    BY <1>3, <2>1, StringStores DEF BatchWrite, memory
  <2> QED
    BY <1>3, <2>1, <2>2, Unattached, AnswersStep DEF BatchWrite
<1>4. CASE DbDelete(t)
  <2>1. up /\ pc[t] = "dbDelete" /\ req[t] # NoRequest /\ req[t].op = "del" /\ Missing \in Strings
    BY <1>4, AtStep, StepOps DEF DbDelete, Strings
  <2>2. StoreStep(t)
    BY <1>4, <2>1, StringStores DEF DbDelete, memory
  <2>3. "kvRemove" \in StepsOf[req[t].op]
    BY <2>1 DEF StepsOf
  <2> QED
    BY <1>4, <2>1, <2>2, <2>3, Unattached, GoesOnStep DEF DbDelete
<1>5. CASE KvRemove(t)
  <2>1. up /\ pc[t] = "kvRemove" /\ req[t] # NoRequest /\ req[t].op = "del" /\ Missing \in Strings
    BY <1>5, AtStep, StepOps DEF KvRemove, Strings
  <2>2. StoreStep(t)
    BY <1>5, <2>1, StringStores DEF KvRemove, dbs
  <2>3. "zsetsRemove" \in StepsOf[req[t].op]
    BY <2>1 DEF StepsOf
  <2> QED
    BY <1>5, <2>1, <2>2, <2>3, Unattached, GoesOnStep DEF KvRemove
<1> QED
  BY <1>1, <1>2, <1>3, <1>4, <1>5

LEMMA BatchInsertStep ==
    ASSUME TypeInv, NEW t \in Threads, BatchInsert(t)
    PROVE  RegisterStep(t)
<1>1. /\ up /\ pc[t] = "batchInsert" /\ req[t] \in Requests /\ req[t] # NoRequest
      /\ req[t].op = "batch" /\ req[t].data \in Strings /\ ~attached[t]
  BY AtStep, StepOps DEF BatchInsert, Strings, TypeInv, RegisterInv
<1>2. PICK k \in todo[t] : /\ kv' = Put(kv, {k}, req[t].data)
                           /\ todo' = [todo EXCEPT ![t] = @ \ {k}]
                           /\ Goto(t, IF todo[t] = {k} THEN "batchWrite" ELSE "batchInsert")
  BY DEF BatchInsert
<1>3. StoreStep(t)
  <2>1. {k} \in SUBSET req[t].keys
    BY <1>2 DEF TypeInv, RegisterInv
  <2> QED
    BY <1>1, <1>2, <2>1, StringStores DEF BatchInsert, dbs
<1> DEFINE next == IF todo[t] = {k} THEN "batchWrite" ELSE "batchInsert"
<1>4. next \in StepsOf[req[t].op] /\ next \notin {"zsetSet", "zsetTake"}
  BY <1>1 DEF StepsOf
<1>5. /\ todo' \in [Threads -> SUBSET Keys] /\ \A u \in Threads \ {t} : todo'[u] = todo[u]
      /\ todo'[t] \subseteq todo[t] /\ (todo'[t] # {} => next = "batchInsert")
  BY <1>2 DEF TypeInv, RegisterType
<1>6. UNCHANGED <<req, attached>> /\ attached' \in [Threads -> BOOLEAN]
  BY DEF BatchInsert, TypeInv, RegisterType
<1>7. Goto(t, next)
  BY <1>2
<1> HIDE DEF next
<1>8. RegisterType' /\ RegisterInv'
  BY <1>1, <1>4, <1>5, <1>6, <1>7, GoesOn
<1>9. pc'[t] = next /\ \A u \in Threads \ {t} : pc'[u] = pc[u]
  BY <1>7 DEF TypeInv, RegisterType, Goto
<1> QED
  BY <1>1, <1>3, <1>4, <1>5, <1>6, <1>8, <1>9 DEF RegisterStep, OwnStep, StoreStep

LEMMA ZaddSteps ==
    ASSUME TypeInv, NEW t \in Threads, ZsetDbPut(t) \/ ZsetGetOrInsert(t) \/ ZsetSet(t)
    PROVE  RegisterStep(t)
<1>1. CASE ZsetDbPut(t)
  <2>1. /\ up /\ pc[t] = "zsetDbPut" /\ req[t] # NoRequest
        /\ req[t].op = "zadd" /\ req[t].member \in Members /\ req[t].score \in Scores
    BY <1>1, AtStep, StepOps DEF ZsetDbPut
  <2>2. StoreStep(t)
    BY <1>1, <2>1, EntryStores DEF ZsetDbPut, memory
  <2>3. "zsetGetOrInsert" \in StepsOf[req[t].op]
    BY <2>1 DEF StepsOf
  <2> QED
    BY <1>1, <2>1, <2>2, <2>3, Unattached, GoesOnStep DEF ZsetDbPut
<1>2. CASE ZsetGetOrInsert(t)
  <2>1. /\ up /\ pc[t] = "zsetGetOrInsert" /\ req[t] # NoRequest
        /\ req[t].op = "zadd" /\ req[t].member \in Members /\ req[t].score \in Scores
    BY <1>2, AtStep, StepOps DEF ZsetGetOrInsert
  <2>2. StoreStep(t)
    BY <1>2, <2>1, EntryStores DEF ZsetGetOrInsert, dbs
  <2>3. "zsetSet" \in StepsOf[req[t].op]
    BY <2>1 DEF StepsOf
  <2> QED
    BY <1>2, <2>1, <2>2, <2>3, Unattached, GoesOnStep DEF ZsetGetOrInsert
<1>3. CASE ZsetSet(t)
  <2>1. /\ up /\ pc[t] = "zsetSet" /\ req[t] # NoRequest
        /\ req[t].op = "zadd" /\ req[t].member \in Members /\ req[t].score \in Scores
    BY <1>3, AtStep, StepOps DEF ZsetSet
  <2>2. StoreStep(t)
    BY <1>3, <2>1, EntryStores DEF ZsetSet, dbs
  <2> QED
    BY <1>3, <2>1, <2>2, Unattached, AnswersStep DEF ZsetSet
<1> QED
  BY <1>1, <1>2, <1>3

LEMMA ZrmvSteps ==
    ASSUME TypeInv, NEW t \in Threads, ZsetFind(t) \/ ZsetTake(t) \/ ZsetDbDelete(t)
    PROVE  RegisterStep(t)
<1>1. CASE ZsetFind(t)
  <2> DEFINE found == \A k \in req[t].keys : zexists[k]
  <2>1. /\ up /\ pc[t] = "zsetFind" /\ req[t] # NoRequest
        /\ req[t].op = "zrmv" /\ req[t].member \in Members
    BY <1>1, AtStep, StepOps DEF ZsetFind
  <2>2. StoreStep(t)
    BY <1>1, <2>1, EntryStores DEF ZsetFind, dbs, memory
  <2>3. "zsetTake" \in StepsOf[req[t].op] /\ todo[t] = {}
    BY <2>1, Unattached DEF StepsOf
  <2>4. CASE found
    <3>1. attached' = [attached EXCEPT ![t] = TRUE] /\ Goto(t, "zsetTake") /\ UNCHANGED <<req, todo>>
      BY <1>1, <2>4 DEF ZsetFind
    <3> QED
      BY <2>1, <2>2, <2>3, <3>1, GoesOnStep
  <2>5. CASE ~found
    <3>1. attached' = [attached EXCEPT ![t] = FALSE] /\ Ends(t)
      BY <1>1, <2>5 DEF ZsetFind
    <3> QED
      BY <2>1, <2>2, <2>3, <3>1, AnswersStep
  <2> QED
    BY <2>4, <2>5
<1>2. CASE ZsetTake(t)
  <2>1. /\ up /\ pc[t] = "zsetTake" /\ req[t] # NoRequest
        /\ req[t].op = "zrmv" /\ req[t].member \in Members
    BY <1>2, AtStep, StepOps DEF ZsetTake
  <2>2. StoreStep(t)
    BY <1>2, <2>1, EntryStores DEF ZsetTake, dbs
  <2>3. "zsetDbDelete" \in StepsOf[req[t].op] /\ todo[t] = {}
    BY <2>1, Unattached DEF StepsOf
  <2>4. /\ (Goto(t, "zsetDbDelete") /\ UNCHANGED <<req, todo>>) \/ Ends(t)
        /\ attached' = [attached EXCEPT ![t] = FALSE]
    BY <1>2 DEF ZsetTake
  <2> QED
    BY <2>1, <2>2, <2>3, <2>4, GoesOnStep, AnswersStep
<1>3. CASE ZsetDbDelete(t)
  <2>1. /\ up /\ pc[t] = "zsetDbDelete" /\ req[t] # NoRequest
        /\ req[t].op = "zrmv" /\ req[t].member \in Members
    BY <1>3, AtStep, StepOps DEF ZsetDbDelete
  <2>2. StoreStep(t)
    BY <1>3, <2>1, EntryStores DEF ZsetDbDelete, memory
  <2> QED
    BY <1>3, <2>1, <2>2, Unattached, AnswersStep DEF ZsetDbDelete
<1> QED
  BY <1>1, <1>2, <1>3

LEMMA HandleStep ==
    ASSUME TypeInv, NEW t \in Threads, Handle(t)
    PROVE  RegisterStep(t)
BY ZsetsRemoveStep, StringSteps, BatchInsertStep, ZaddSteps, ZrmvSteps DEF Handle

LEMMA InitTyped == Init => TypeInv
<1> SUFFICES ASSUME Init PROVE TypeInv
  OBVIOUS
<1>1. StoreType
  BY NoRowType DEF Init, StoreType, Strings
<1>2. RegisterType /\ RegisterInv
  BY NoRequestFields DEF Init, RegisterType, RegisterInv, Steps
<1>3. LoaderType /\ DownInv
  BY DEF Init, LoaderType, DownInv
<1> QED
  BY <1>1, <1>2, <1>3 DEF TypeInv

LEMMA CallTyped ==
    ASSUME TypeInv, NEW t \in Threads, Call(t)
    PROVE  TypeInv'
<1>1. PICK r \in Requests : /\ req' = [req EXCEPT ![t] = r]
                            /\ todo' = [todo EXCEPT ![t] = IF r.op = "batch" THEN r.keys ELSE {}]
                            /\ pc' = [pc EXCEPT ![t] = First[r.op]]
  BY DEF Call, Goto
<1>2. /\ r.keys \subseteq Keys /\ r # NoRequest /\ First[r.op] \in StepsOf[r.op]
      /\ First[r.op] # "idle" /\ First[r.op] \in Steps
      /\ r.op = "batch" => First[r.op] = "batchInsert"
  BY RequestFields DEF First, StepsOf, Steps
<1>3. RegisterType'
  BY <1>1, <1>2 DEF TypeInv, RegisterType, Call
<1>4. RegisterInv'
  <2>1. /\ pc'[t] = First[r.op] /\ req'[t] = r /\ ~attached[t]
        /\ todo'[t] = IF r.op = "batch" THEN r.keys ELSE {}
    BY <1>1 DEF TypeInv, RegisterType, RegisterInv, Call, At
  <2>2. \A u \in Threads \ {t} : pc'[u] = pc[u] /\ req'[u] = req[u] /\ todo'[u] = todo[u]
    BY <1>1 DEF TypeInv, RegisterType
  <2>3. attached' = attached
    BY DEF Call
  <2> QED
    BY <1>2, <2>1, <2>2, <2>3 DEF TypeInv, RegisterInv
<1>5. StoreType' /\ LoaderType' /\ DownInv'
  BY DEF TypeInv, StoreType, LoaderType, DownInv, Call, At, memory, dbs, disk, loader
<1> QED
  BY <1>3, <1>4, <1>5 DEF TypeInv

LEMMA LoaderTyped ==
    ASSUME TypeInv, StartLoad \/ Loaded \/ \E d \in Dirs : Load(d)
    PROVE  TypeInv'
<1>1. /\ UNCHANGED <<handlers, disk, zexists, zsets, zset_db, up>> /\ up
      /\ RegisterType' /\ RegisterInv' /\ DownInv'
  BY DEF StartLoad, Loaded, Load, LoadPut, LoadInsert, memory, dbs, handlers, TypeInv, RegisterType,
     RegisterInv, DownInv
<1>2. StoreType'
  <2>1. InitData \in Strings
    BY DataAssumption DEF Strings
  <2>2. kv' \in [Keys -> Strings] /\ db' \in [Keys -> Strings]
    BY <2>1 DEF StartLoad, Loaded, Load, LoadPut, LoadInsert, memory, dbs, TypeInv, StoreType, Put
  <2> QED
    BY <1>1, <2>2 DEF TypeInv, StoreType, disk
<1>3. LoaderType'
  <2>1. CASE StartLoad
    BY <2>1, DataAssumption DEF TypeInv, LoaderType, StartLoad
  <2>2. CASE Loaded
    BY <2>2 DEF TypeInv, LoaderType, Loaded
  <2>3. ASSUME NEW d \in Dirs, LoadPut(d) PROVE LoaderType'
    <3>1. PICK k \in left[d] : loading' = [loading EXCEPT ![d] = {k}]
      BY <2>3 DEF LoadPut
    <3>2. UNCHANGED <<load_state, left, up>>
      BY <2>3 DEF LoadPut
    <3>3. loading' \in [Dirs -> SUBSET Keys] /\ \A e \in Dirs : loading'[e] \subseteq left[e]
      BY <3>1 DEF TypeInv, LoaderType
    <3> QED
      BY <3>2, <3>3 DEF TypeInv, LoaderType
  <2>4. ASSUME NEW d \in Dirs, LoadInsert(d) PROVE LoaderType'
    <3>1. /\ left' = [left EXCEPT ![d] = @ \ loading[d]] /\ loading' = [loading EXCEPT ![d] = {}]
          /\ UNCHANGED <<load_state, up>>
      BY <2>4 DEF LoadInsert
    <3>2. left' \in [Dirs -> SUBSET Keys] /\ loading' \in [Dirs -> SUBSET Keys]
      BY <3>1 DEF TypeInv, LoaderType
    <3>3. \A e \in Dirs : left'[e] \subseteq left[e] /\ loading'[e] \subseteq left'[e]
      BY <3>1 DEF TypeInv, LoaderType
    <3> QED
      BY <3>1, <3>2, <3>3 DEF TypeInv, LoaderType
  <2> QED
    BY <2>1, <2>2, <2>3, <2>4 DEF Load
<1> QED
  BY <1>1, <1>2, <1>3 DEF TypeInv

LEMMA DiskTyped ==
    ASSUME TypeInv, FlushDb \/ FlushZsetDb \/ Crash \/ Restart
    PROVE  TypeInv'
<1>1. CASE FlushDb \/ FlushZsetDb
  <2>1. UNCHANGED <<memory, dbs, handlers, loader, up>>
    BY <1>1 DEF FlushDb, FlushZsetDb
  <2>2. StoreType'
    BY <1>1, <2>1 DEF FlushDb, FlushZsetDb, TypeInv, StoreType, memory, dbs
  <2> QED
    BY <2>1, <2>2 DEF TypeInv, RegisterType, RegisterInv, LoaderType, DownInv, handlers, loader, memory
<1>2. CASE Crash
  <2>1. StoreType'
    BY <1>2, NoRowType DEF Crash, TypeInv, StoreType, Strings, disk
  <2>2. RegisterType' /\ RegisterInv'
    BY <1>2, NoRequestFields DEF Crash, RegisterType, RegisterInv, Steps
  <2>3. LoaderType' /\ DownInv'
    BY <1>2 DEF Crash, LoaderType, DownInv
  <2> QED
    BY <2>1, <2>2, <2>3 DEF TypeInv
<1>3. CASE Restart
  <2>1. StoreType'
    BY <1>3 DEF Restart, TypeInv, StoreType, dbs, disk
  <2> QED
    BY <1>3, <2>1 DEF Restart, TypeInv, RegisterType, RegisterInv, LoaderType, DownInv, handlers, loader
<1> QED
  BY <1>1, <1>2, <1>3

LEMMA TypeStep == TypeInv /\ [Next]_vars => TypeInv'
<1> SUFFICES ASSUME TypeInv, [Next]_vars PROVE TypeInv'
  OBVIOUS
<1>1. ASSUME NEW t \in Threads, Handle(t) PROVE TypeInv'
  BY <1>1, HandleStep DEF TypeInv, RegisterStep, OwnStep, LoaderType, DownInv, loader
<1>2. CASE UNCHANGED vars
  BY <1>2 DEF TypeInv, StoreType, RegisterType, RegisterInv, LoaderType, DownInv, vars, memory, dbs,
     disk, handlers, loader
<1> QED
  BY <1>1, <1>2, CallTyped, LoaderTyped, DiskTyped DEF Next

LEMMA TypeInvariance == Spec => []TypeInv
BY InitTyped, TypeStep, PTL DEF Spec

\* The stores, registers and loader keep their types, and a handler between its two
\* writes has its request.
THEOREM TypeCorrect == Spec => []TypeOK
<1>1. TypeInv => TypeOK
  BY DEF TypeInv, StoreType, RegisterType, RegisterInv, LoaderType, TypeOK, Strings, Entries
<1> QED
  BY <1>1, TypeInvariance, PTL

-----------------------------------------------------------------------------
(* What is found stays found. *)

\* A string is removed by the handler of a del, or by the death of the process.
LEMMA Removals ==
    ASSUME TypeInv, [Next]_vars, NEW k \in Keys, kv[k] # Missing, kv'[k] = Missing
    PROVE  ~up' \/ \E t \in Threads : req[t].op = "del" /\ k \in req[t].keys
<1>1. InitData # Missing /\ \A x \in Data : x # Missing
  BY DataAssumption
<1>2. ASSUME NEW t \in Threads, Handle(t)
      PROVE  req[t].op = "del" /\ k \in req[t].keys
  <2>1. k \in req[t].keys
    BY <1>2, HandleStep DEF RegisterStep, OwnStep
  <2>2. KvInsert(t) \/ BatchInsert(t) \/ KvRemove(t)
    BY <1>2 DEF Handle, ZsetsRemove, DbPut, BatchWrite, DbDelete, ZsetDbPut, ZsetGetOrInsert,
       ZsetSet, ZsetFind, ZsetTake, ZsetDbDelete, memory
  <2>3. CASE KvInsert(t) \/ BatchInsert(t)
    <3>1. req[t].data \in Data
      BY <2>3, AtStep, StepOps DEF KvInsert, BatchInsert
    <3> QED
      BY <1>1, <2>3, <3>1 DEF KvInsert, BatchInsert, Put
  <2>4. CASE KvRemove(t)
    BY <2>1, <2>4, AtStep, StepOps DEF KvRemove
  <2> QED
    BY <2>2, <2>3, <2>4
<1>3. CASE \E d \in Dirs : Load(d)
  BY <1>1, <1>3 DEF Load, LoadPut, LoadInsert, Put, memory
<1>4. CASE Restart
  BY <1>4 DEF Restart, TypeInv, DownInv
<1>5. CASE Crash
  BY <1>5 DEF Crash
<1>6. CASE StartLoad \/ Loaded \/ FlushDb \/ FlushZsetDb \/ (\E t \in Threads : Call(t)) \/ UNCHANGED vars
  BY <1>6 DEF StartLoad, Loaded, FlushDb, FlushZsetDb, Call, vars, memory
<1> QED
  BY <1>2, <1>3, <1>4, <1>5, <1>6 DEF Next

\* A key that can be queried stays so until a del of it or the death of the process,
\* whatever handlers and loader threads write at the same time.
THEOREM OnlyDelHidesCorrect == Spec => OnlyDelHides
<1> DEFINE Hides == \A k \in Keys : kv[k] # Missing /\ kv'[k] = Missing =>
                      ~up' \/ \E t \in Threads : req[t].op = "del" /\ k \in req[t].keys
<1>1. TypeInv /\ [Next]_vars => [Hides]_vars
  BY Removals
<1> QED
  BY <1>1, TypeInvariance, PTL DEF Spec, OnlyDelHides

\* Nobody deletes a lasting key, and a row that is not left is in kv.
LastingInv ==
    /\ \A t \in Threads : req[t].op = "del" => req[t].keys \cap Lasting = {}
    /\ load_state # "INIT" =>
         \A d \in Dirs : \A k \in (Rows[d] \ left[d]) \cap Lasting : kv[k] # Missing
    /\ load_state = "LOADED" => \A d \in Dirs : left[d] = {}

LEMMA LastingStep ==
    ASSUME TypeInv, LastingInv, [Next]_vars
    PROVE  LastingInv'
<1>1. up' => \A k \in Keys \cap Lasting : kv[k] # Missing => kv'[k] # Missing
  BY Removals DEF LastingInv
<1>2. \A d \in Dirs : Rows[d] \subseteq Keys
  BY DataAssumption
<1>3. CASE \E t \in Threads : Call(t)
  <2>1. PICK t \in Threads : Call(t)
    BY <1>3
  <2>2. PICK r \in Requests : /\ r.op = "del" => r.keys \cap Lasting = {}
                              /\ req' = [req EXCEPT ![t] = r]
    BY <2>1 DEF Call
  <2>3. UNCHANGED <<kv, load_state, left>>
    BY <2>1 DEF Call, memory, loader
  <2> QED
    BY <2>2, <2>3 DEF LastingInv, TypeInv, RegisterType
<1>4. CASE \E t \in Threads : Handle(t)
  <2>1. PICK t \in Threads : Handle(t)
    BY <1>4
  <2>2. OwnStep(t)
    BY <2>1, HandleStep DEF RegisterStep
  <2>3. \A u \in Threads : req'[u] \in {req[u], NoRequest}
    BY <2>2 DEF OwnStep
  <2> QED
    BY <1>1, <1>2, <2>2, <2>3, NoRequestFields DEF LastingInv, OwnStep, loader
<1>5. CASE StartLoad
  BY <1>5 DEF LastingInv, StartLoad, handlers, TypeInv, LoaderType
<1>6. CASE Loaded
  BY <1>6 DEF LastingInv, Loaded, handlers, memory
<1>7. ASSUME NEW d \in Dirs, LoadPut(d) PROVE LastingInv'
  BY <1>7 DEF LastingInv, LoadPut, handlers, memory
<1>8. ASSUME NEW d \in Dirs, LoadInsert(d) PROVE LastingInv'
  <2>1. /\ kv' = Put(kv, loading[d], InitData) /\ left' = [left EXCEPT ![d] = @ \ loading[d]]
        /\ UNCHANGED <<req, load_state, up>> /\ up /\ loading[d] # {}
    BY <1>8 DEF LoadInsert, handlers
  <2>2. \A k \in Keys : k \in loading[d] => kv'[k] # Missing
    BY <2>1, DataAssumption DEF Put
  <2>3. \A e \in Dirs : left'[e] = IF e = d THEN left[e] \ loading[d] ELSE left[e]
    BY <2>1 DEF TypeInv, LoaderType
  <2> QED
    BY <1>1, <1>2, <2>1, <2>2, <2>3 DEF LastingInv, TypeInv, LoaderType
<1>9. CASE FlushDb \/ FlushZsetDb \/ UNCHANGED vars
  BY <1>9 DEF LastingInv, FlushDb, FlushZsetDb, vars, memory, handlers, loader
<1>10. CASE Crash
  BY <1>10, NoRequestFields DEF LastingInv, Crash
<1>11. CASE Restart
  BY <1>11 DEF LastingInv, Restart, TypeInv, DownInv, LoaderType, handlers, loader
<1> QED
  BY <1>3, <1>4, <1>5, <1>6, <1>7, <1>8, <1>9, <1>10, <1>11 DEF Next, Load

\* When /init answers ok, every key of the initial data that clients never delete can be
\* queried, whatever the handlers and other loader threads do to it meanwhile.
THEOREM InitialDataServedCorrect == Spec => []InitialDataServed
<1>1. Init => LastingInv
  BY NoRequestFields DEF Init, LastingInv
<1>2. TypeInv /\ LastingInv /\ [Next]_vars => LastingInv'
  BY LastingStep
<1>3. TypeInv /\ LastingInv => InitialDataServed
  BY DEF LastingInv, InitialDataServed
<1> QED
  BY <1>1, <1>2, <1>3, TypeInvariance, PTL DEF Spec

-----------------------------------------------------------------------------
(* Memory and rows, with one write of a key at a time. *)

\* The entries of the sorted set of k that can be found have their rows.
ZMatch(k) == \A m \in Members :
    zsets[k][m] # Missing => zexists[k] /\ zset_db[k][m] = zsets[k][m]
Matches(k) == kv[k] = db[k] /\ ZMatch(k)

\* No key is in two requests, or in a request and among the rows to be loaded.
OneWriter == /\ \A t, u \in Threads : t # u => req[t].keys \cap req[u].keys = {}
             /\ \A t \in Threads, d \in Dirs : req[t].keys \cap left[d] = {}

\* How far the handler of a request has come with its keys.
Mine(t) == \A k \in req[t].keys :
    /\ pc[t] = "kvInsert" => db[k] = req[t].data
    /\ req[t].op = "batch" /\ k \notin todo[t] => kv[k] = req[t].data
    /\ pc[t] = "kvRemove" => db[k] = Missing
    /\ req[t].op = "del" /\ pc[t] = "zsetsRemove" => db[k] = Missing /\ kv[k] = Missing
    /\ req[t].op \in {"zadd", "zrmv"} => kv[k] = db[k]
    /\ pc[t] \in {"zsetGetOrInsert", "zsetSet"} => zset_db[k][req[t].member] = req[t].score
    /\ pc[t] = "zsetSet" => zexists[k] /\ attached[t]
    /\ pc[t] = "zsetTake" => attached[t]
    /\ pc[t] = "zsetDbDelete" => zsets[k][req[t].member] = Missing
    /\ \A m \in Members : zsets[k][m] # Missing =>
         /\ zexists[k]
         /\ \/ zset_db[k][m] = zsets[k][m]
            \/ pc[t] \in {"zsetGetOrInsert", "zsetSet"} /\ m = req[t].member

WriterInv == \A t \in Threads : Mine(t)
LoadInv   == \A d \in Dirs : /\ \A k \in left[d] : ZMatch(k)
                             /\ \A k \in loading[d] : db[k] = InitData
QuietInv  == up => \A k \in Keys : Quiet(k) => Matches(k)
MatchInv  == OneWriter /\ WriterInv /\ LoadInv /\ QuietInv

\* A handler keeps what it knows of its keys, and when it ends they match.
OwnResult(t) == \/ req'[t] = req[t] /\ Mine(t)'
                \/ req'[t] = NoRequest /\ \A k \in req[t].keys : Matches(k)'

LEMMA StringResults ==
    ASSUME TypeInv, NEW t \in Threads, Mine(t),
           \/ DbPut(t) \/ KvInsert(t) \/ BatchInsert(t) \/ BatchWrite(t) \/ DbDelete(t) \/ KvRemove(t)
    PROVE  OwnResult(t)
<1>1. /\ req[t].keys \subseteq Keys /\ req[t] # NoRequest
      /\ UNCHANGED <<zexists, zsets, zset_db, attached>>
  BY AtStep DEF DbPut, KvInsert, BatchInsert, BatchWrite, DbDelete, KvRemove, memory, dbs
<1>2. /\ pc \in [Threads -> Steps] /\ todo \in [Threads -> SUBSET Keys]
      /\ req \in [Threads -> Requests \cup {NoRequest}]
      /\ pc[t] # "batchInsert" => todo[t] = {}
  BY DEF TypeInv, RegisterType, RegisterInv
<1>3. /\ kv \in [Keys -> Strings] /\ db \in [Keys -> Strings]
  BY DEF TypeInv, StoreType
<1>4. CASE DbPut(t)
  <2>1. /\ req' = req /\ pc'[t] = "kvInsert" /\ req[t].op = "add"
        /\ \A k \in req[t].keys : db'[k] = req[t].data
    BY <1>1, <1>2, <1>3, <1>4, AtStep, StepOps DEF DbPut, Goto, Put
  <2> QED
    BY <1>1, <1>4, <2>1, AtStep DEF DbPut, OwnResult, Mine, memory
<1>5. CASE KvInsert(t)
  <2>1. /\ req'[t] = NoRequest /\ pc[t] = "kvInsert" /\ db' = db
        /\ \A k \in req[t].keys : kv'[k] = req[t].data
    BY <1>1, <1>2, <1>3, <1>5, AtStep DEF KvInsert, Ends, Answer, Put, dbs
  <2> QED
    BY <1>1, <2>1 DEF OwnResult, Mine, Matches, ZMatch
<1>6. CASE BatchInsert(t)
  <2>1. PICK k \in todo[t] : /\ kv' = Put(kv, {k}, req[t].data)
                             /\ todo' = [todo EXCEPT ![t] = @ \ {k}]
                             /\ pc'[t] \in {"batchInsert", "batchWrite"}
    BY <1>2, <1>6 DEF BatchInsert, Goto
  <2>2. /\ req' = req /\ pc[t] = "batchInsert" /\ req[t].op = "batch" /\ db' = db
        /\ todo'[t] = todo[t] \ {k}
        /\ \A i \in Keys : kv'[i] = IF i = k THEN req[t].data ELSE kv[i]
    BY <1>1, <1>2, <1>3, <1>6, <2>1, AtStep, StepOps DEF BatchInsert, Put, dbs
  <2>3. \A i \in req[t].keys : i \notin todo'[t] => kv'[i] = req[t].data
    BY <1>1, <2>2 DEF Mine
  <2>4. \A i \in req[t].keys, m \in Members : zsets[i][m] # Missing =>
          zexists[i] /\ zset_db[i][m] = zsets[i][m]
    BY <2>2 DEF Mine
  <2>5. Mine(t)'
    BY <1>1, <2>1, <2>2, <2>3, <2>4 DEF Mine
  <2> QED
    BY <2>2, <2>5 DEF OwnResult
<1>7. CASE BatchWrite(t)
  <2>1. /\ req'[t] = NoRequest /\ pc[t] = "batchWrite" /\ req[t].op = "batch" /\ kv' = kv
        /\ \A k \in req[t].keys : db'[k] = req[t].data
    BY <1>1, <1>2, <1>3, <1>7, AtStep, StepOps DEF BatchWrite, Ends, Answer, Put, memory
  <2> QED
    BY <1>1, <1>2, <2>1 DEF OwnResult, Mine, Matches, ZMatch
<1>8. CASE DbDelete(t)
  <2>1. /\ req' = req /\ pc'[t] = "kvRemove" /\ pc[t] = "dbDelete" /\ req[t].op = "del"
        /\ \A k \in req[t].keys : db'[k] = Missing
    BY <1>1, <1>2, <1>3, <1>8, AtStep, StepOps DEF DbDelete, Goto, Put
  <2> QED
    BY <1>1, <1>8, <2>1 DEF DbDelete, OwnResult, Mine, memory
<1>9. CASE KvRemove(t)
  <2>1. /\ req' = req /\ pc'[t] = "zsetsRemove" /\ pc[t] = "kvRemove" /\ req[t].op = "del" /\ db' = db
        /\ \A k \in req[t].keys : kv'[k] = Missing
    BY <1>1, <1>2, <1>3, <1>9, AtStep, StepOps DEF KvRemove, Goto, Put, dbs
  <2> QED
    BY <1>1, <2>1 DEF OwnResult, Mine
<1> QED
  BY <1>4, <1>5, <1>6, <1>7, <1>8, <1>9

LEMMA ZsetsRemoveResult ==
    ASSUME TypeInv, NEW t \in Threads, Mine(t), ZsetsRemove(t)
    PROVE  OwnResult(t)
<1>1. /\ req[t].keys \subseteq Keys /\ req[t] # NoRequest /\ req[t].op \in {"add", "del"}
      /\ pc[t] = "zsetsRemove" /\ UNCHANGED <<kv, db, zset_db>>
  BY AtStep, StepOps DEF ZsetsRemove, dbs
<1>2. \A k \in req[t].keys : zsets'[k] = NoRow
  BY <1>1 DEF ZsetsRemove, Put
<1>3. \A k \in req[t].keys, m \in Members : zsets'[k][m] = Missing
  BY <1>2, NoRowType
<1>4. CASE req[t].op = "add"
  <2>1. req' = req /\ pc'[t] = "dbPut"
    BY <1>4 DEF ZsetsRemove, Goto, TypeInv, RegisterType
  <2> QED
    BY <1>1, <1>3, <1>4, <2>1 DEF OwnResult, Mine
<1>5. CASE req[t].op = "del"
  <2>1. req'[t] = NoRequest
    BY <1>5 DEF ZsetsRemove, Ends, Answer, TypeInv, RegisterType
  <2> QED
    BY <1>1, <1>3, <1>5, <2>1 DEF OwnResult, Mine, Matches, ZMatch
<1> QED
  BY <1>1, <1>4, <1>5

LEMMA ZaddResults ==
    ASSUME TypeInv, NEW t \in Threads, Mine(t),
           ZsetDbPut(t) \/ ZsetGetOrInsert(t) \/ ZsetSet(t)
    PROVE  OwnResult(t)
<1>1. /\ req[t].keys \subseteq Keys /\ req[t] \in Requests /\ req[t] # NoRequest
      /\ req[t].op = "zadd" /\ req[t].member \in Members /\ req[t].score \in Scores
      /\ todo[t] = {} /\ UNCHANGED <<kv, db>>
  <2>1. UNCHANGED <<kv, db>>
    BY DEF ZsetDbPut, ZsetGetOrInsert, ZsetSet, memory, dbs
  <2>2. pc[t] \in {"zsetDbPut", "zsetGetOrInsert", "zsetSet"}
    BY DEF ZsetDbPut, ZsetGetOrInsert, ZsetSet, At
  <2>3. req[t] \in Requests /\ req[t] # NoRequest
    BY <2>2 DEF TypeInv, RegisterInv, RegisterType
  <2> QED
    BY <2>1, <2>2, <2>3, StepOps, RequestFields, Unattached
<1>2. /\ pc \in [Threads -> Steps] /\ attached \in [Threads -> BOOLEAN]
      /\ req \in [Threads -> Requests \cup {NoRequest}]
  BY DEF TypeInv, RegisterType
<1>3. /\ zexists \in [Keys -> BOOLEAN]
      /\ zsets \in [Keys -> Entries] /\ zset_db \in [Keys -> Entries]
  BY DEF TypeInv, StoreType
<1>4. CASE ZsetDbPut(t)
  <2>1. req' = req /\ pc'[t] = "zsetGetOrInsert" /\ UNCHANGED <<zexists, zsets>>
    BY <1>2, <1>4 DEF ZsetDbPut, Goto, memory
  <2>2. \A k \in req[t].keys, m \in Members :
          zset_db'[k][m] = IF m = req[t].member THEN req[t].score ELSE zset_db[k][m]
    <3>1. zset_db' = PutRow(zset_db, req[t].keys, req[t].member, req[t].score)
      BY <1>4 DEF ZsetDbPut
    <3>2. /\ zset_db \in [Keys -> Entries] /\ req[t].member \in Members
          /\ req[t].score \in Scores \cup {Missing}
      BY <1>1, <1>3
    <3>3. \A k \in Keys, i \in Members :
            PutRow(zset_db, req[t].keys, req[t].member, req[t].score)[k][i] =
              IF k \in req[t].keys /\ i = req[t].member THEN req[t].score ELSE zset_db[k][i]
      BY <3>2 DEF PutRow, Entries
    <3> QED
      BY <1>1, <3>1, <3>3
  <2>3. pc[t] = "zsetDbPut"
    BY <1>4 DEF ZsetDbPut, At
  <2>4. Mine(t)'
    BY <1>1, <2>1, <2>2, <2>3 DEF Mine
  <2> QED
    BY <2>1, <2>4 DEF OwnResult
<1>5. CASE ZsetGetOrInsert(t)
  <2>1. /\ req' = req /\ pc'[t] = "zsetSet" /\ attached'[t] /\ UNCHANGED <<zsets, zset_db>>
        /\ pc[t] = "zsetGetOrInsert"
    BY <1>2, <1>5 DEF ZsetGetOrInsert, Goto, dbs, At
  <2>2. \A k \in req[t].keys : zexists'[k]
    BY <1>1, <1>3, <1>5 DEF ZsetGetOrInsert, Put
  <2>3. Mine(t)'
    BY <1>1, <2>1, <2>2 DEF Mine
  <2> QED
    BY <2>1, <2>3 DEF OwnResult
<1>6. CASE ZsetSet(t)
  <2>1. req'[t] = NoRequest /\ UNCHANGED <<zexists, zset_db>> /\ pc[t] = "zsetSet"
    BY <1>2, <1>6 DEF ZsetSet, Ends, Answer, dbs, At
  <2>2. attached[t]
    BY <1>1, <2>1, RequestFields DEF Mine
  <2>3. \A k \in req[t].keys, m \in Members :
          zsets'[k][m] = IF m = req[t].member THEN req[t].score ELSE zsets[k][m]
    <3>1. zsets' = PutRow(zsets, req[t].keys, req[t].member, req[t].score)
      BY <1>6, <2>2 DEF ZsetSet
    <3>2. /\ zsets \in [Keys -> Entries] /\ req[t].member \in Members
          /\ req[t].score \in Scores \cup {Missing}
      BY <1>1, <1>3
    <3>3. \A k \in Keys, i \in Members :
            PutRow(zsets, req[t].keys, req[t].member, req[t].score)[k][i] =
              IF k \in req[t].keys /\ i = req[t].member THEN req[t].score ELSE zsets[k][i]
      BY <3>2 DEF PutRow, Entries
    <3> QED
      BY <1>1, <3>1, <3>3
  <2>4. ASSUME NEW k \in req[t].keys PROVE Matches(k)'
    BY <1>1, <2>1, <2>3 DEF Mine, Matches, ZMatch
  <2> QED
    BY <2>1, <2>4 DEF OwnResult
<1> QED
  BY <1>4, <1>5, <1>6

LEMMA ZrmvResults ==
    ASSUME TypeInv, NEW t \in Threads, Mine(t),
           ZsetFind(t) \/ ZsetTake(t) \/ ZsetDbDelete(t)
    PROVE  OwnResult(t)
<1>1. /\ req[t].keys \subseteq Keys /\ req[t] \in Requests /\ req[t] # NoRequest
      /\ req[t].op = "zrmv" /\ req[t].member \in Members
      /\ todo[t] = {} /\ UNCHANGED <<kv, db, zexists>>
  <2>1. UNCHANGED <<kv, db, zexists>>
    BY DEF ZsetFind, ZsetTake, ZsetDbDelete, memory, dbs
  <2>2. pc[t] \in {"zsetFind", "zsetTake", "zsetDbDelete"}
    BY DEF ZsetFind, ZsetTake, ZsetDbDelete, At
  <2>3. req[t] \in Requests /\ req[t] # NoRequest
    BY <2>2 DEF TypeInv, RegisterInv, RegisterType
  <2> QED
    BY <2>1, <2>2, <2>3, StepOps, RequestFields, Unattached
<1>2. /\ pc \in [Threads -> Steps] /\ attached \in [Threads -> BOOLEAN]
      /\ req \in [Threads -> Requests \cup {NoRequest}]
  BY DEF TypeInv, RegisterType
<1>3. zsets \in [Keys -> Entries] /\ zset_db \in [Keys -> Entries]
  BY DEF TypeInv, StoreType
<1>4. CASE ZsetFind(t)
  <2>1. /\ UNCHANGED <<zsets, zset_db>> /\ pc[t] = "zsetFind"
        /\ \/ req' = req /\ pc'[t] = "zsetTake" /\ attached'[t]
           \/ req'[t] = NoRequest
    BY <1>2, <1>4 DEF ZsetFind, Ends, Answer, Goto, memory, dbs, At
  <2>2. CASE req' = req /\ pc'[t] = "zsetTake" /\ attached'[t]
    <3>1. Mine(t)'
      BY <1>1, <2>1, <2>2 DEF Mine
    <3> QED
      BY <2>2, <3>1 DEF OwnResult
  <2>3. CASE req'[t] = NoRequest
    BY <1>1, <2>1, <2>3 DEF OwnResult, Mine, Matches, ZMatch
  <2> QED
    BY <2>1, <2>2, <2>3
<1>5. CASE ZsetTake(t)
  <2>1. /\ UNCHANGED zset_db /\ pc[t] = "zsetTake"
        /\ \/ req' = req /\ pc'[t] = "zsetDbDelete"
           \/ req'[t] = NoRequest
    BY <1>2, <1>5 DEF ZsetTake, Ends, Answer, Goto, dbs, At
  <2>2. attached[t]
    BY <1>1, <2>1, RequestFields DEF Mine
  <2>3. \A k \in req[t].keys, m \in Members :
          zsets'[k][m] = IF m = req[t].member THEN Missing ELSE zsets[k][m]
    <3>1. zsets' = PutRow(zsets, req[t].keys, req[t].member, Missing)
      BY <1>5, <2>2 DEF ZsetTake
    <3>2. /\ zsets \in [Keys -> Entries] /\ req[t].member \in Members
          /\ Missing \in Scores \cup {Missing}
      BY <1>1, <1>3
    <3>3. \A k \in Keys, i \in Members :
            PutRow(zsets, req[t].keys, req[t].member, Missing)[k][i] =
              IF k \in req[t].keys /\ i = req[t].member THEN Missing ELSE zsets[k][i]
      BY <3>2 DEF PutRow, Entries
    <3> QED
      BY <1>1, <3>1, <3>3
  <2>4. CASE req' = req /\ pc'[t] = "zsetDbDelete"
    <3>1. Mine(t)'
      BY <1>1, <2>1, <2>3, <2>4 DEF Mine
    <3> QED
      BY <2>4, <3>1 DEF OwnResult
  <2>5. CASE req'[t] = NoRequest
    BY <1>1, <2>1, <2>3, <2>5 DEF OwnResult, Mine, Matches, ZMatch
  <2> QED
    BY <2>1, <2>4, <2>5
<1>6. CASE ZsetDbDelete(t)
  <2>1. req'[t] = NoRequest /\ UNCHANGED zsets /\ pc[t] = "zsetDbDelete"
    BY <1>2, <1>6 DEF ZsetDbDelete, Ends, Answer, memory, At
  <2>2. \A k \in req[t].keys, m \in Members :
          zset_db'[k][m] = IF m = req[t].member THEN Missing ELSE zset_db[k][m]
    <3>1. zset_db' = PutRow(zset_db, req[t].keys, req[t].member, Missing)
      BY <1>6 DEF ZsetDbDelete
    <3>2. /\ zset_db \in [Keys -> Entries] /\ req[t].member \in Members
          /\ Missing \in Scores \cup {Missing}
      BY <1>1, <1>3
    <3>3. \A k \in Keys, i \in Members :
            PutRow(zset_db, req[t].keys, req[t].member, Missing)[k][i] =
              IF k \in req[t].keys /\ i = req[t].member THEN Missing ELSE zset_db[k][i]
      BY <3>2 DEF PutRow, Entries
    <3> QED
      BY <1>1, <3>1, <3>3
  <2>3. ASSUME NEW k \in req[t].keys PROVE Matches(k)'
    BY <1>1, <2>1, <2>2 DEF Mine, Matches, ZMatch
  <2> QED
    BY <2>1, <2>3 DEF OwnResult
<1> QED
  BY <1>4, <1>5, <1>6

LEMMA HandleMatch ==
    ASSUME TypeInv, MatchInv, NEW t \in Threads, Handle(t)
    PROVE  MatchInv'
<1>1. RegisterStep(t) /\ OwnStep(t)
  BY HandleStep DEF RegisterStep
<1>2. OwnResult(t)
  BY StringResults, ZsetsRemoveResult, ZaddResults, ZrmvResults DEF Handle, MatchInv, WriterInv
<1>3. /\ \A u \in Threads : req'[u] \in {req[u], NoRequest} /\ req[u].keys \subseteq Keys
      /\ UNCHANGED <<left, loading>> /\ up
  BY <1>1, RequestFields, NoRequestFields DEF OwnStep, loader, TypeInv, RegisterType
<1>4. OneWriter'
  BY <1>3, NoRequestFields DEF MatchInv, OneWriter
<1>5. ASSUME NEW k \in Keys \ req[t].keys
      PROVE  Matches(k)' <=> Matches(k)
  BY <1>1 DEF OwnStep, Matches, ZMatch
<1>6. ASSUME NEW u \in Threads \ {t} PROVE Mine(u)'
  <2>1. /\ pc'[u] = pc[u] /\ req'[u] = req[u] /\ todo'[u] = todo[u] /\ attached'[u] = attached[u]
        /\ req[u].keys \subseteq Keys \ req[t].keys
    BY <1>1, <1>3 DEF OwnStep, MatchInv, OneWriter
  <2>2. \A k \in req[u].keys : /\ kv'[k] = kv[k] /\ db'[k] = db[k]
                               /\ zexists'[k] = zexists[k]
                               /\ zsets'[k] = zsets[k] /\ zset_db'[k] = zset_db[k]
    BY <1>1, <2>1 DEF OwnStep
  <2>3. Mine(u)
    BY DEF MatchInv, WriterInv
  <2> QED
    BY <2>1, <2>2, <2>3 DEF Mine
<1>7. Mine(t)'
  BY <1>2, NoRequestFields DEF OwnResult, Mine
<1>8. LoadInv'
  <2>1. \A d \in Dirs : left[d] \subseteq Keys \ req[t].keys /\ loading[d] \subseteq left[d]
    BY DEF MatchInv, OneWriter, TypeInv, LoaderType
  <2>2. \A d \in Dirs : \A k \in left[d] : /\ db'[k] = db[k] /\ zexists'[k] = zexists[k]
                                           /\ zsets'[k] = zsets[k] /\ zset_db'[k] = zset_db[k]
    BY <1>1, <2>1 DEF OwnStep
  <2> QED
    BY <1>3, <2>1, <2>2 DEF MatchInv, LoadInv, ZMatch
<1>9. QuietInv'
  <2> SUFFICES ASSUME NEW k \in Keys, Quiet(k)' PROVE Matches(k)'
    BY DEF QuietInv
  <2>1. CASE k \in req[t].keys
    BY <1>2, <2>1 DEF OwnResult, Quiet
  <2>2. CASE k \notin req[t].keys
    <3>1. Quiet(k)
      BY <1>1, <1>3, <2>2 DEF Quiet, OwnStep
    <3> QED
      BY <1>3, <1>5, <2>2, <3>1 DEF MatchInv, QuietInv
  <2> QED
    BY <2>1, <2>2
<1> QED
  BY <1>4, <1>6, <1>7, <1>8, <1>9 DEF MatchInv, WriterInv

LEMMA CallMatch ==
    ASSUME Serialized, TypeInv, MatchInv, NEW t \in Threads, Call(t)
    PROVE  MatchInv'
<1>1. PICK r \in Requests : /\ \A k \in r.keys : Quiet(k)
                            /\ req' = [req EXCEPT ![t] = r]
                            /\ todo' = [todo EXCEPT ![t] = IF r.op = "batch" THEN r.keys ELSE {}]
                            /\ pc' = [pc EXCEPT ![t] = First[r.op]]
  BY DEF Call, Goto
<1>2. /\ req[t] = NoRequest /\ up
      /\ UNCHANGED <<kv, db, zexists, zsets, zset_db, attached, left, loading, up>>
  BY DEF Call, At, TypeInv, RegisterInv, memory, dbs, loader
<1>3. /\ req'[t] = r /\ pc'[t] = First[r.op]
      /\ todo'[t] = IF r.op = "batch" THEN r.keys ELSE {}
      /\ \A u \in Threads \ {t} : pc'[u] = pc[u] /\ req'[u] = req[u] /\ todo'[u] = todo[u]
  BY <1>1 DEF TypeInv, RegisterType
<1>4. r.keys \subseteq Keys /\ r.op \in {"add", "batch", "del", "zadd", "zrmv"}
  BY RequestFields
<1>5. OneWriter'
  BY <1>1, <1>2, <1>3 DEF MatchInv, OneWriter, Quiet
<1>6. \A k \in r.keys : Matches(k)
  BY <1>1, <1>2, <1>4 DEF MatchInv, QuietInv
<1>7. Mine(t)'
  <2>1. /\ First[r.op] \notin {"kvInsert", "kvRemove", "zsetGetOrInsert", "zsetSet", "zsetTake",
                               "zsetDbDelete"}
        /\ r.op = "del" => First[r.op] # "zsetsRemove"
    BY <1>4 DEF First
  <2> QED
    BY <1>2, <1>3, <1>6, <2>1 DEF Mine, Matches, ZMatch
<1>8. \A u \in Threads \ {t} : Mine(u)'
  BY <1>2, <1>3 DEF MatchInv, WriterInv, Mine
<1>9. LoadInv'
  BY <1>2 DEF MatchInv, LoadInv, ZMatch
<1>10. QuietInv'
  <2>1. \A k \in Keys : Quiet(k)' => Quiet(k)
    BY <1>2, <1>3, NoRequestFields DEF Quiet
  <2> QED
    BY <1>2, <2>1 DEF MatchInv, QuietInv, Matches, ZMatch
<1> QED
  BY <1>5, <1>7, <1>8, <1>9, <1>10 DEF MatchInv, WriterInv

LEMMA LoaderMatch ==
    ASSUME Serialized, TypeInv, MatchInv, StartLoad \/ Loaded \/ \E d \in Dirs : Load(d)
    PROVE  MatchInv'
<1>1. /\ up /\ UNCHANGED <<zexists, zsets, zset_db, pc, req, todo, attached, up>>
  BY DEF StartLoad, Loaded, Load, LoadPut, LoadInsert, memory, dbs, handlers
<1>2. CASE StartLoad
  <2>1. /\ left' = Rows /\ UNCHANGED <<kv, db, loading>>
        /\ \A d \in Dirs : loading[d] = {} /\ Rows[d] \subseteq Keys
        /\ \A d \in Dirs : \A k \in Rows[d] : Quiet(k)
    BY <1>2, DataAssumption DEF StartLoad, TypeInv, LoaderType, memory, dbs
  <2>2. OneWriter'
    BY <1>1, <2>1 DEF MatchInv, OneWriter, Quiet
  <2>3. WriterInv'
    BY <1>1, <2>1 DEF MatchInv, WriterInv, Mine
  <2>4. LoadInv'
    BY <1>1, <2>1 DEF MatchInv, LoadInv, QuietInv, Matches, ZMatch
  <2>5. QuietInv'
    <3>1. \A k \in Keys : Quiet(k)' => Quiet(k)
      BY <1>1, <1>2 DEF Quiet, StartLoad, TypeInv, LoaderType
    <3> QED
      BY <1>1, <2>1, <3>1 DEF MatchInv, QuietInv, Matches, ZMatch
  <2> QED
    BY <2>2, <2>3, <2>4, <2>5 DEF MatchInv
<1>3. CASE Loaded
  <2>1. UNCHANGED <<kv, db, left, loading>>
    BY <1>3 DEF Loaded, memory, dbs
  <2> QED
    BY <1>1, <2>1
       DEF MatchInv, OneWriter, WriterInv, Mine, LoadInv, QuietInv, Quiet, Matches, ZMatch
<1>4. ASSUME NEW d \in Dirs, LoadPut(d) PROVE MatchInv'
  <2>1. PICK k \in left[d] : db' = Put(db, {k}, InitData) /\ loading' = [loading EXCEPT ![d] = {k}]
    BY <1>4 DEF LoadPut
  <2>2. UNCHANGED <<kv, left>>
    BY <1>4 DEF LoadPut, memory
  <2>3. /\ \A i \in Keys : db'[i] = IF i = k THEN InitData ELSE db[i]
        /\ \A e \in Dirs : loading'[e] = IF e = d THEN {k} ELSE loading[e]
    BY <2>1 DEF TypeInv, LoaderType, Put
  <2>4. (\A t \in Threads : k \notin req[t].keys /\ req[t].keys \subseteq Keys) /\ k \in Keys
    BY <2>1, RequestFields, NoRequestFields
       DEF MatchInv, OneWriter, TypeInv, LoaderType, RegisterType
  <2>5. OneWriter'
    BY <1>1, <2>2 DEF MatchInv, OneWriter
  <2>6. WriterInv'
    <3>1. \A t \in Threads : \A i \in req[t].keys : db'[i] = db[i]
      BY <2>3, <2>4
    <3> QED
      BY <1>1, <2>2, <3>1 DEF MatchInv, WriterInv, Mine
  <2>7. LoadInv'
    <3>1. \A e \in Dirs : loading[e] \subseteq Keys
      BY DEF TypeInv, LoaderType
    <3> QED
      BY <1>1, <2>2, <2>3, <2>4, <3>1 DEF MatchInv, LoadInv, ZMatch
  <2>8. QuietInv'
    <3>1. \A i \in Keys : Quiet(i)' => Quiet(i) /\ i # k
      BY <1>1, <2>1, <2>2 DEF Quiet
    <3> QED
      BY <1>1, <2>2, <2>3, <3>1 DEF MatchInv, QuietInv, Matches, ZMatch
  <2> QED
    BY <2>5, <2>6, <2>7, <2>8 DEF MatchInv
<1>5. ASSUME NEW d \in Dirs, LoadInsert(d) PROVE MatchInv'
  <2>1. /\ kv' = Put(kv, loading[d], InitData) /\ UNCHANGED db
        /\ left' = [left EXCEPT ![d] = @ \ loading[d]] /\ loading' = [loading EXCEPT ![d] = {}]
    BY <1>5 DEF LoadInsert, dbs
  <2>2. /\ \A i \in Keys : kv'[i] = IF i \in loading[d] THEN InitData ELSE kv[i]
        /\ \A e \in Dirs : /\ left'[e] = IF e = d THEN left[e] \ loading[e] ELSE left[e]
                           /\ loading'[e] = IF e = d THEN {} ELSE loading[e]
    BY <2>1 DEF TypeInv, LoaderType, Put
  <2>3. /\ \A t \in Threads : req[t].keys \cap loading[d] = {} /\ req[t].keys \subseteq Keys
        /\ loading[d] \subseteq left[d]
    BY RequestFields, NoRequestFields DEF MatchInv, OneWriter, TypeInv, LoaderType, RegisterType
  <2>4. OneWriter'
    BY <1>1, <2>2 DEF MatchInv, OneWriter
  <2>5. WriterInv'
    <3>1. \A t \in Threads : \A i \in req[t].keys : kv'[i] = kv[i]
      BY <2>2, <2>3
    <3> QED
      BY <1>1, <2>1, <3>1 DEF MatchInv, WriterInv, Mine
  <2>6. LoadInv'
    BY <1>1, <2>1, <2>2 DEF MatchInv, LoadInv, ZMatch
  <2>7. QuietInv'
    <3> SUFFICES ASSUME NEW k \in Keys, Quiet(k)' PROVE Matches(k)'
      BY DEF QuietInv
    <3>1. CASE k \in loading[d]
      BY <1>1, <2>1, <2>2, <2>3, <3>1 DEF MatchInv, LoadInv, Matches, ZMatch
    <3>2. CASE k \notin loading[d]
      <4>1. Quiet(k)
        BY <1>1, <2>2, <3>2 DEF Quiet
      <4> QED
        BY <1>1, <2>1, <2>2, <3>2, <4>1 DEF MatchInv, QuietInv, Matches, ZMatch
    <3> QED
      BY <3>1, <3>2
  <2> QED
    BY <2>4, <2>5, <2>6, <2>7 DEF MatchInv
<1> QED
  BY <1>2, <1>3, <1>4, <1>5 DEF Load

LEMMA DiskMatch ==
    ASSUME TypeInv, MatchInv, FlushDb \/ FlushZsetDb \/ Crash \/ Restart
    PROVE  MatchInv'
<1>1. CASE FlushDb \/ FlushZsetDb
  <2>1. UNCHANGED <<memory, dbs, handlers, loader, up>>
    BY <1>1 DEF FlushDb, FlushZsetDb
  <2> QED
    BY <2>1 DEF MatchInv, OneWriter, WriterInv, Mine, LoadInv, QuietInv, Quiet, Matches, ZMatch,
       memory, dbs, handlers, loader
<1>2. CASE Crash
  <2>1. /\ \A t \in Threads : req'[t].keys = {}
        /\ \A d \in Dirs : left'[d] = {} /\ loading'[d] = {}
        /\ ~up'
    BY <1>2, NoRequestFields DEF Crash
  <2> QED
    BY <2>1 DEF MatchInv, OneWriter, WriterInv, Mine, LoadInv, QuietInv
<1>3. CASE Restart
  <2>1. /\ \A t \in Threads : req'[t].keys = {}
        /\ \A d \in Dirs : left'[d] = {} /\ loading'[d] = {}
    BY <1>3, NoRequestFields DEF Restart, TypeInv, DownInv, LoaderType, handlers, loader
  <2>2. /\ UNCHANGED <<db, zset_db>> /\ kv' = db /\ zsets' = zset_db
        /\ zexists' = [k \in Keys |-> zset_db[k] # NoRow]
    BY <1>3 DEF Restart, dbs
  <2>3. \A k \in Keys, m \in Members : zset_db[k][m] # Missing => zset_db[k] # NoRow
    BY NoRowType
  <2>4. \A k \in Keys : Matches(k)'
    BY <2>2, <2>3 DEF Matches, ZMatch
  <2> QED
    BY <2>1, <2>4 DEF MatchInv, OneWriter, WriterInv, Mine, LoadInv, QuietInv
<1> QED
  BY <1>1, <1>2, <1>3

LEMMA MatchStep ==
    ASSUME Serialized, TypeInv, MatchInv, [Next]_vars
    PROVE  MatchInv'
<1>1. CASE UNCHANGED vars
  BY <1>1 DEF MatchInv, OneWriter, WriterInv, Mine, LoadInv, QuietInv, Quiet, Matches, ZMatch,
     vars, memory, dbs, handlers, loader
<1> QED
  BY <1>1, CallMatch, HandleMatch, LoaderMatch, DiskMatch DEF Next

LEMMA InitMatch == Init => MatchInv
<1> SUFFICES ASSUME Init PROVE MatchInv
  OBVIOUS
<1>1. /\ \A t \in Threads : req[t].keys = {}
      /\ \A d \in Dirs : left[d] = {} /\ loading[d] = {}
  BY NoRequestFields DEF Init
<1>2. \A k \in Keys : Matches(k)
  BY NoRowType DEF Init, Matches, ZMatch
<1> QED
  BY <1>1, <1>2 DEF MatchInv, OneWriter, WriterInv, Mine, LoadInv, QuietInv

\* With one write of a key at a time, memory answers a query of a quiet key with the row
\* a restart after a flush would load.
THEOREM RowsMatchCorrect == ASSUME Serialized PROVE Spec => []RowsMatch
<1>1. TypeInv /\ MatchInv /\ [Next]_vars => MatchInv'
  BY MatchStep
<1>2. MatchInv => RowsMatch
  BY DEF MatchInv, QuietInv, Matches, RowsMatch
<1> QED
  BY <1>1, <1>2, InitMatch, TypeInvariance, PTL DEF Spec

\* Likewise every member a zrange of a quiet key returns has its row, with its score.
THEOREM MembersHaveRowsCorrect == ASSUME Serialized PROVE Spec => []MembersHaveRows
<1>1. TypeInv /\ MatchInv /\ [Next]_vars => MatchInv'
  BY MatchStep
<1>2. MatchInv => MembersHaveRows
  BY DEF MatchInv, QuietInv, Matches, ZMatch, MembersHaveRows
<1> QED
  BY <1>1, <1>2, InitMatch, TypeInvariance, PTL DEF Spec

-----------------------------------------------------------------------------
(* What was flushed survives crashes and restarts, with one write of a key at a time. *)

\* While something is promised of a key nobody writes it, and what is promised is in both
\* the database and its flushed part; a process that runs has it in memory.
KeptInv == \A k \in Keys : kept[k] # Unknown =>
    /\ Quiet(k)
    /\ db_disk[k] = kept[k] /\ db[k] = kept[k]
    /\ up => kv[k] = kept[k]

ZkeptInv == \A k \in Keys : zkept[k] # Unknown =>
    /\ Quiet(k)
    /\ \A m \in Members : zkept[k][m] # Missing =>
         /\ zset_disk[k][m] = zkept[k][m] /\ zset_db[k][m] = zkept[k][m]
         /\ up => zexists[k] /\ zsets[k][m] = zkept[k][m]

HistoryInv == /\ kept \in [Keys -> Strings \cup {Unknown}]
              /\ zkept \in [Keys -> Entries \cup {Unknown}]
              /\ KeptInv /\ ZkeptInv

\* Handlers and the loader leave a key alone that nobody writes.
Works == \/ \E t \in Threads : Call(t) \/ Handle(t)
         \/ StartLoad \/ Loaded \/ \E d \in Dirs : Load(d)

LEMMA QuietKept ==
    ASSUME TypeInv, Works, NEW k \in Keys, Quiet(k)
    PROVE  /\ up /\ UNCHANGED <<db_disk, zset_disk>>
           /\ kv'[k] = kv[k] /\ db'[k] = db[k] /\ zexists'[k] = zexists[k]
           /\ zsets'[k] = zsets[k] /\ zset_db'[k] = zset_db[k]
<1>1. ASSUME NEW t \in Threads, Call(t)
      PROVE  up /\ UNCHANGED <<memory, dbs, disk>>
  BY <1>1 DEF Call, At
<1>2. ASSUME NEW t \in Threads, Handle(t)
      PROVE  /\ up /\ UNCHANGED <<db_disk, zset_disk>>
             /\ kv'[k] = kv[k] /\ db'[k] = db[k] /\ zexists'[k] = zexists[k]
             /\ zsets'[k] = zsets[k] /\ zset_db'[k] = zset_db[k]
  <2>1. OwnStep(t)
    BY <1>2, HandleStep DEF RegisterStep
  <2>2. k \notin req[t].keys
    BY DEF Quiet
  <2> QED
    BY <2>1, <2>2 DEF OwnStep, disk
<1>3. ASSUME StartLoad \/ Loaded
      PROVE  up /\ UNCHANGED <<memory, dbs, disk>>
  BY <1>3 DEF StartLoad, Loaded
<1>4. ASSUME NEW d \in Dirs, Load(d)
      PROVE  /\ up /\ UNCHANGED <<db_disk, zset_disk>>
             /\ kv'[k] = kv[k] /\ db'[k] = db[k] /\ zexists'[k] = zexists[k]
             /\ zsets'[k] = zsets[k] /\ zset_db'[k] = zset_db[k]
  <2>1. k \notin left[d] /\ k \notin loading[d]
    BY DEF Quiet, TypeInv, LoaderType
  <2>2. CASE LoadPut(d)
    <3>1. PICK i \in left[d] : db' = Put(db, {i}, InitData)
      BY <2>2 DEF LoadPut
    <3>2. db'[k] = db[k]
      BY <2>1, <3>1 DEF Put
    <3> QED
      BY <2>2, <3>2 DEF LoadPut, memory, disk
  <2>3. CASE LoadInsert(d)
    <3>1. kv'[k] = kv[k]
      BY <2>1, <2>3 DEF LoadInsert, Put
    <3> QED
      BY <2>3, <3>1 DEF LoadInsert, dbs, disk
  <2> QED
    BY <1>4, <2>2, <2>3 DEF Load
<1> QED
  BY <1>1, <1>2, <1>3, <1>4 DEF Works, memory, dbs, disk

LEMMA OthersKept ==
    ASSUME TypeInv, HistoryInv, Others, kept' = Remember(kept), zkept' = Remember(zkept)
    PROVE  HistoryInv'
<1>1. ASSUME NEW k \in Keys
      PROVE  /\ kept'[k] # Unknown => Quiet(k)' /\ kept'[k] = kept[k]
             /\ zkept'[k] # Unknown => Quiet(k)' /\ zkept'[k] = zkept[k]
  BY DEF Remember, Quiet
<1>2. /\ kept' \in [Keys -> Strings \cup {Unknown}]
      /\ zkept' \in [Keys -> Entries \cup {Unknown}]
  BY DEF HistoryInv, Remember
<1>3. CASE Works
  <2>1. KeptInv'
    <3> SUFFICES ASSUME NEW k \in Keys, kept'[k] # Unknown
                 PROVE  /\ Quiet(k)' /\ db_disk'[k] = kept'[k] /\ db'[k] = kept'[k]
                        /\ kv'[k] = kept'[k]
      BY DEF KeptInv
    <3>1. Quiet(k)' /\ kept'[k] = kept[k]
      BY <1>1
    <3>2. Quiet(k) /\ db_disk[k] = kept[k] /\ db[k] = kept[k] /\ (up => kv[k] = kept[k])
      BY <3>1 DEF HistoryInv, KeptInv
    <3> QED
      BY <1>3, <3>1, <3>2, QuietKept
  <2>2. ZkeptInv'
    <3> SUFFICES ASSUME NEW k \in Keys, zkept'[k] # Unknown
                 PROVE  /\ Quiet(k)'
                        /\ \A m \in Members : zkept'[k][m] # Missing =>
                             /\ zset_disk'[k][m] = zkept'[k][m] /\ zset_db'[k][m] = zkept'[k][m]
                             /\ zexists'[k] /\ zsets'[k][m] = zkept'[k][m]
      BY DEF ZkeptInv
    <3>1. Quiet(k)' /\ zkept'[k] = zkept[k]
      BY <1>1
    <3>2. /\ Quiet(k)
          /\ \A m \in Members : zkept[k][m] # Missing =>
               /\ zset_disk[k][m] = zkept[k][m] /\ zset_db[k][m] = zkept[k][m]
               /\ up => zexists[k] /\ zsets[k][m] = zkept[k][m]
      BY <3>1 DEF HistoryInv, ZkeptInv
    <3>3. /\ up /\ zset_disk' = zset_disk /\ zexists'[k] = zexists[k]
          /\ zsets'[k] = zsets[k] /\ zset_db'[k] = zset_db[k]
      BY <1>3, <3>2, QuietKept
    <3> QED
      BY <3>1, <3>2, <3>3
  <2> QED
    BY <1>2, <2>1, <2>2 DEF HistoryInv
<1>4. CASE Crash
  <2>1. ~up' /\ db' = db_disk /\ zset_db' = zset_disk /\ UNCHANGED <<db_disk, zset_disk>>
    BY <1>4 DEF Crash, disk
  <2>2. KeptInv'
    BY <1>1, <2>1 DEF HistoryInv, KeptInv
  <2>3. ZkeptInv'
    BY <1>1, <2>1 DEF HistoryInv, ZkeptInv
  <2> QED
    BY <1>2, <2>2, <2>3 DEF HistoryInv
<1>5. CASE Restart
  <2>1. /\ kv' = db /\ zsets' = zset_db /\ zexists' = [k \in Keys |-> zset_db[k] # NoRow]
        /\ UNCHANGED <<db, zset_db, db_disk, zset_disk>>
    BY <1>5 DEF Restart, dbs, disk
  <2>2. KeptInv'
    BY <1>1, <2>1 DEF HistoryInv, KeptInv
  <2>3. \A k \in Keys, m \in Members : zset_db[k][m] # Missing => zset_db[k] # NoRow
    BY NoRowType
  <2>4. ZkeptInv'
    <3> SUFFICES ASSUME NEW k \in Keys, zkept'[k] # Unknown
                 PROVE  /\ Quiet(k)'
                        /\ \A m \in Members : zkept'[k][m] # Missing =>
                             /\ zset_disk'[k][m] = zkept'[k][m] /\ zset_db'[k][m] = zkept'[k][m]
                             /\ zexists'[k] /\ zsets'[k][m] = zkept'[k][m]
      BY DEF ZkeptInv
    <3>1. Quiet(k)' /\ zkept'[k] = zkept[k]
      BY <1>1
    <3>2. \A m \in Members : zkept[k][m] # Missing =>
            zset_disk[k][m] = zkept[k][m] /\ zset_db[k][m] = zkept[k][m]
      BY <3>1 DEF HistoryInv, ZkeptInv
    <3>3. zexists'[k] <=> zset_db[k] # NoRow
      BY <2>1
    <3> QED
      BY <2>1, <2>3, <3>1, <3>2, <3>3
  <2> QED
    BY <1>2, <2>2, <2>4 DEF HistoryInv
<1> QED
  BY <1>3, <1>4, <1>5 DEF Others, Works

LEMMA FlushDbKept ==
    ASSUME TypeInv, MatchInv, HistoryInv, FlushDb, kept' = Recorded(kv, kept), UNCHANGED zkept
    PROVE  HistoryInv'
<1>1. /\ up /\ db_disk' = db
      /\ UNCHANGED <<kv, zexists, zsets, db, zset_db, zset_disk, req, left, up>>
  BY DEF FlushDb, memory, dbs, handlers, loader
<1>2. \A k \in Keys : /\ Quiet(k)' <=> Quiet(k)
                      /\ kept'[k] = IF Quiet(k) THEN kv[k] ELSE kept[k]
  BY <1>1 DEF Recorded, Quiet
<1>3. kept' \in [Keys -> Strings \cup {Unknown}]
  BY DEF HistoryInv, Recorded, TypeInv, StoreType
<1>4. \A k \in Keys : Quiet(k) => kv[k] = db[k]
  BY <1>1 DEF MatchInv, QuietInv, Matches
<1>5. KeptInv'
  BY <1>1, <1>2, <1>4 DEF HistoryInv, KeptInv
<1>6. ZkeptInv'
  BY <1>1, <1>2 DEF HistoryInv, ZkeptInv
<1> QED
  BY <1>3, <1>5, <1>6 DEF HistoryInv

LEMMA FlushZsetDbKept ==
    ASSUME TypeInv, MatchInv, HistoryInv, FlushZsetDb, zkept' = Recorded(zsets, zkept),
           UNCHANGED kept
    PROVE  HistoryInv'
<1>1. /\ up /\ zset_disk' = zset_db
      /\ UNCHANGED <<kv, zexists, zsets, db, zset_db, db_disk, req, left, up>>
  BY DEF FlushZsetDb, memory, dbs, handlers, loader
<1>2. \A k \in Keys : /\ Quiet(k)' <=> Quiet(k)
                      /\ zkept'[k] = IF Quiet(k) THEN zsets[k] ELSE zkept[k]
  BY <1>1 DEF Recorded, Quiet
<1>3. zkept' \in [Keys -> Entries \cup {Unknown}]
  BY DEF HistoryInv, Recorded, TypeInv, StoreType
<1>4. \A k \in Keys : Quiet(k) => \A m \in Members : zsets[k][m] # Missing =>
        zexists[k] /\ zset_db[k][m] = zsets[k][m]
  BY <1>1 DEF MatchInv, QuietInv, Matches, ZMatch
<1>5. KeptInv'
  BY <1>1, <1>2 DEF HistoryInv, KeptInv
<1>6. ZkeptInv'
  BY <1>1, <1>2, <1>4 DEF HistoryInv, ZkeptInv
<1> QED
  BY <1>3, <1>5, <1>6 DEF HistoryInv

LEMMA HistoryStep ==
    ASSUME TypeInv, MatchInv, HistoryInv, [HNext]_hvars
    PROVE  HistoryInv' /\ [Next]_vars
<1>1. CASE UNCHANGED hvars
  BY <1>1 DEF hvars, vars, memory, dbs, disk, handlers, loader, HistoryInv, KeptInv, ZkeptInv, Quiet
<1>2. CASE HNext
  <2>1. HistoryInv'
    BY <1>2, FlushDbKept, FlushZsetDbKept, OthersKept DEF HNext
  <2>2. Next
    BY <1>2 DEF HNext, Others, Next
  <2> QED
    BY <2>1, <2>2
<1> QED
  BY <1>1, <1>2

LEMMA HistoryInvariance == ASSUME Serialized PROVE HSpec => [](TypeInv /\ MatchInv /\ HistoryInv)
<1>1. HInit => TypeInv /\ MatchInv /\ HistoryInv
  BY InitTyped, InitMatch DEF HInit, HistoryInv, KeptInv, ZkeptInv
<1>2. TypeInv /\ MatchInv /\ HistoryInv /\ [HNext]_hvars => (TypeInv /\ MatchInv /\ HistoryInv)'
  BY HistoryStep, TypeStep, MatchStep
<1> QED
  BY <1>1, <1>2, PTL DEF HSpec

\* With one write of a key at a time, what a query returned when db was flushed is what it
\* returns until somebody writes the key again, through any number of crashes.
THEOREM FlushedKeysSurviveCorrect == ASSUME Serialized PROVE HSpec => []FlushedKeysSurvive
<1>1. HistoryInv => FlushedKeysSurvive
  BY DEF HistoryInv, KeptInv, FlushedKeysSurvive
<1> QED
  BY <1>1, HistoryInvariance, PTL

\* Likewise every member of a sorted set that zset_db had when it was flushed.
THEOREM FlushedMembersSurviveCorrect == ASSUME Serialized PROVE HSpec => []FlushedMembersSurvive
<1>1. HistoryInv => FlushedMembersSurvive
  BY DEF HistoryInv, ZkeptInv, FlushedMembersSurvive
<1> QED
  BY <1>1, HistoryInvariance, PTL
=============================================================================
