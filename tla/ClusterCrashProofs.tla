------------------------- MODULE ClusterCrashProofs -------------------------
(***************************************************************************)
(* Proofs about ClusterCrash, for any number of nodes, requests and        *)
(* crashes: the invariant of Cluster survives them, and a second one says  *)
(* which of the acknowledged writes do.                                    *)
(***************************************************************************)
EXTENDS ClusterCrash, ClusterProofs

\* What a step of ClusterCrash is for Cluster.
LEMMA CSteps ==
    ASSUME [CNext]_cvars
    PROVE  \/ [Next]_vars
           \/ \E n \in Nodes : Crash(n) \/ Restart(n)
           \/ \E r \in Requests, s \in Nodes : SendCut(r, s)
<1>1. CASE \E n \in Nodes : Run(n) \/ Flush(n)
  BY <1>1 DEF Run, Flush, Next
<1>2. CASE \E r \in Requests : CHandle(r) \/ CDisconnect(r)
  BY <1>2 DEF CHandle, CDisconnect, Next
<1>3. CASE \E r \in Requests, n \in Nodes : CArrive(r, n)
  BY <1>3 DEF CArrive, Next
<1>4. CASE \E r \in Requests, s \in Nodes : CExchange(r, s) \/ CallFails(r, s)
  BY <1>4 DEF CExchange, CallFails, Exchange, Next
<1>5. CASE UNCHANGED cvars
  BY <1>5 DEF cvars
<1> QED
  BY <1>1, <1>2, <1>3, <1>4, <1>5 DEF CNext

-----------------------------------------------------------------------------
(* The complete cluster. *)

LEMMA CInitTyped == CInit => CTypeOK
<1> SUFFICES ASSUME CInit PROVE CTypeOK
  OBVIOUS
<1>1. kv \in [Nodes -> [Keys -> Requests \cup {Row, None}]]
  BY DEF CInit
<1> QED
  BY <1>1, NAssumption, CrashAssumption DEF CInit, NoRequests, CTypeOK, TypeOK, Nodes

LEMMA CInitInv == CInit => IInv
BY NAssumption
   DEF CInit, NoRequests, IInv, PeersInv, OneKey, Before, ReadInv, ForkInv, CallInv, KeyInv,
       AnswerInv, RoutedToOwner, Single, SingleOps, hyper_handler, Configured, Nodes

-----------------------------------------------------------------------------
(* A crash: the requests of the node die, the others go on. *)

LEMMA StageAfterType ==
    ASSUME TypeOK, NEW n \in Nodes, NEW r \in Requests, NEW s \in Nodes
    PROVE  StageAfter(n, r, s) \in Stages
BY DEF TypeOK, Stages, StageAfter

LEMMA CrashTyped ==
    ASSUME CTypeOK, NEW n \in Nodes, Crash(n)
    PROVE  CTypeOK'
<1>1. /\ started' \in [Nodes -> BOOLEAN] /\ listening' \in [Nodes -> BOOLEAN]
      /\ update' \in [Nodes -> {"no", "chosen", "locked", "meStored", "countStored", "ready", "dropped"}]
      /\ me' \in [Nodes -> Nodes] /\ count' \in [Nodes -> {0, N}] /\ pool' \in [Nodes -> 0 .. N]
      /\ inits' \in [Nodes -> BOOLEAN] /\ lcount' \in [Nodes -> {0, N}]
      /\ load_state' \in [Nodes -> {"INIT", "LOADING", "COUNTED", "LOADED"}]
  <2>1. 0 \in Nodes /\ 0 \in 0 .. N
    BY NAssumption DEF Nodes
  <2>2. TypeOK
    BY DEF CTypeOK
  <2>3. started' \in [Nodes -> BOOLEAN] /\ listening' \in [Nodes -> BOOLEAN] /\ inits' \in [Nodes -> BOOLEAN]
    BY <2>2 DEF TypeOK, Crash
  <2>4. /\ update' \in [Nodes -> {"no", "chosen", "locked", "meStored", "countStored", "ready", "dropped"}]
        /\ load_state' \in [Nodes -> {"INIT", "LOADING", "COUNTED", "LOADED"}]
    BY <2>2 DEF TypeOK, Crash
  <2>5. me' \in [Nodes -> Nodes] /\ count' \in [Nodes -> {0, N}]
    BY <2>1, <2>2 DEF TypeOK, Crash
  <2>6. pool' \in [Nodes -> 0 .. N] /\ lcount' \in [Nodes -> {0, N}]
    BY <2>1, <2>2 DEF TypeOK, Crash
  <2> QED
    BY <2>3, <2>4, <2>5, <2>6
<1>2. kv' \in [Nodes -> [Keys -> Requests \cup {Row, None}]]
  BY DEF CTypeOK, TypeOK, Crash
<1>3. stage' \in [Requests -> [Nodes -> Stages]]
  BY StageAfterType DEF CTypeOK, Crash
<1>4. pc' \in [Requests -> {"idle", "readCount", "readMe", "serve", "fork", "wait", "answered", "died"}]
  BY DEF CTypeOK, TypeOK, Crash
<1>5. UNCHANGED <<file, zsets, request, seen, forks, own, done, got, status, failures>>
  BY DEF Crash
<1>6. TypeOK'
  BY <1>1, <1>2, <1>3, <1>4, <1>5 DEF CTypeOK, TypeOK, request, Stages
<1>7. crashes' \in 0 .. MaxCrashes /\ up' \in [Nodes -> BOOLEAN]
  BY CrashAssumption DEF CTypeOK, Crash
<1>8. cut' \in [Nodes -> SUBSET Nodes]
  BY DEF CTypeOK, Crash
<1>9. lost' \subseteq Requests \X Keys /\ UNCHANGED <<disk, acked, kept>>
  BY DEF CTypeOK, Crash, ServedBy
<1> QED
  BY <1>6, <1>7, <1>8, <1>9 DEF CTypeOK

LEMMA CrashInv ==
    ASSUME TypeOK, IInv, NEW n \in Nodes, Crash(n)
    PROVE  IInv'
<1>1. \A m \in Nodes :
        /\ m = n => update'[m] = "no" /\ me'[m] = 0 /\ count'[m] = 0 /\ pool'[m] = 0
        /\ m # n => /\ update'[m] = update[m] /\ me'[m] = me[m]
                    /\ count'[m] = count[m] /\ pool'[m] = pool[m]
  BY DEF TypeOK, Crash
<1>2. \A r \in Requests :
        /\ node[r] \in Nodes
        /\ pc'[r] = IF node[r] = n /\ pc[r] \notin {"idle", "answered"} THEN "died" ELSE pc[r]
  BY DEF TypeOK, Crash
<1>3. \A r \in Requests, s \in Nodes : stage'[r][s] = StageAfter(n, r, s)
  BY DEF Crash
<1>4. UNCHANGED <<node, op, keys, seen, forks, own, done, status>>
  BY DEF Crash, request
<1>5. PeersInv'
  BY <1>1, NAssumption DEF IInv, PeersInv, Configured
<1>6. OneKey' /\ RoutedToOwner'
  BY <1>4 DEF IInv, OneKey, RoutedToOwner, Single
<1>7. Before'
  BY <1>2, <1>3, <1>4 DEF IInv, Before, StageAfter
<1>8. ReadInv'
  <2>1. \A r \in Requests : pc'[r] \in {"readMe", "serve", "fork", "wait"} =>
                              pc'[r] = pc[r] /\ node[r] # n
    BY <1>2
  <2> QED
    BY <1>1, <1>2, <1>4, <2>1 DEF IInv, ReadInv
<1>9. ForkInv'
  <2>1. \A r \in Requests : pc[r] \in {"fork", "died"} => pc'[r] \in {"fork", "died"}
    BY <1>2
  <2> QED
    BY <1>4, <2>1 DEF IInv, ForkInv, ShardOf
<1>10. CallInv'
  <2>1. \A r \in Requests, s \in Nodes :
          stage'[r][s] = "getClient" => stage[r][s] = "getClient" /\ node[r] # n
    BY <1>3 DEF StageAfter
  <2> QED
    BY <1>1, <1>2, <1>4, <2>1 DEF IInv, CallInv
<1>11. KeyInv'
  <2>1. \A r \in Requests : pc'[r] \in {"serve", "fork", "wait", "answered"} => pc'[r] = pc[r]
    BY <1>2
  <2>2. \A r \in Requests, s \in Nodes :
          stage[r][s] \in {"getClient", "sent", "failed", "late"}
            => stage'[r][s] \in {"getClient", "sent", "failed", "late"}
    BY <1>3 DEF StageAfter
  <2>3. \A r \in Requests : \A k \in keys[r] : ShardOf(k, seen[r]) \in Nodes
    BY ShardType DEF TypeOK
  <2> QED
    BY <1>4, <2>1, <2>2, <2>3 DEF IInv, KeyInv, ShardOf
<1>12. AnswerInv'
  <2>1. \A r \in Requests : pc'[r] = "answered" <=> pc[r] = "answered"
    BY <1>2
  <2>2. \A r \in Requests, s \in Nodes :
          stage[r][s] \in {"none", "ok", "failed", "late"}
            => stage'[r][s] \in {"none", "ok", "failed", "late"}
    BY <1>3 DEF StageAfter
  <2> QED
    BY <1>4, <2>1, <2>2 DEF IInv, AnswerInv
<1> QED
  BY <1>5, <1>6, <1>7, <1>8, <1>9, <1>10, <1>11, <1>12 DEF IInv

-----------------------------------------------------------------------------
(* The other steps Cluster does not have. *)

LEMMA RestartInv ==
    ASSUME CTypeOK, IInv, NEW n \in Nodes, Restart(n)
    PROVE  CTypeOK' /\ IInv'
<1>1. /\ kv' \in [Nodes -> [Keys -> Requests \cup {Row, None}]]
      /\ up' \in [Nodes -> BOOLEAN]
  BY DEF CTypeOK, TypeOK, Restart
<1>2. UNCHANGED <<cluster, loader, zsets, request, handler, failures, disk, cut, history, crashes>>
  BY DEF Restart
<1>3. TypeOK'
  BY <1>1, <1>2 DEF CTypeOK, TypeOK, cluster, loader, request, handler
<1>4. CTypeOK'
  BY <1>1, <1>2, <1>3 DEF CTypeOK, history
<1>5. PeersInv' /\ OneKey' /\ Before' /\ ReadInv'
  BY <1>2 DEF IInv, PeersInv, OneKey, Single, Before, ReadInv, cluster, request, handler
<1>6. ForkInv' /\ CallInv' /\ KeyInv'
  BY <1>2 DEF IInv, ForkInv, CallInv, KeyInv, ShardOf, cluster, request, handler
<1>7. AnswerInv' /\ RoutedToOwner'
  BY <1>2 DEF IInv, AnswerInv, RoutedToOwner, cluster, request, handler
<1> QED
  BY <1>4, <1>5, <1>6, <1>7 DEF IInv

LEMMA SendCutInv ==
    ASSUME TypeOK, IInv, NEW r \in Requests, NEW s \in Nodes, SendCut(r, s)
    PROVE  TypeOK' /\ IInv'
<1>1. stage' = [stage EXCEPT ![r][s] = "failed"] /\ stage[r][s] = "getClient"
  BY DEF SendCut
<1>2. UNCHANGED <<cluster, loader, store, request, pc, seen, forks, own, done, got, status, failures>>
  BY DEF SendCut
<1>3. stage' \in [Requests -> [Nodes -> Stages]]
  BY <1>1, StageType DEF Stages
<1>4. TypeOK'
  BY <1>2, <1>3 DEF TypeOK, cluster, loader, store, request, Stages
<1>5. \A q \in Requests, t \in Nodes :
        \/ stage'[q][t] = stage[q][t]
        \/ q = r /\ stage[q][t] = "getClient" /\ stage'[q][t] = "failed"
  BY <1>1 DEF TypeOK
<1>6. PeersInv' /\ OneKey' /\ ReadInv' /\ RoutedToOwner'
  BY <1>2 DEF IInv, PeersInv, OneKey, Single, ReadInv, RoutedToOwner, cluster, request
<1>7. Before' /\ CallInv' /\ AnswerInv'
  BY <1>2, <1>5 DEF IInv, Before, CallInv, AnswerInv, cluster, request
<1>8. ForkInv'
  BY <1>2 DEF IInv, ForkInv, ShardOf, request
<1>9. KeyInv'
  <2>1. \A q \in Requests : \A k \in keys[q] : ShardOf(k, seen[q]) \in Nodes
    BY ShardType DEF TypeOK
  <2> QED
    BY <1>2, <1>5, <2>1 DEF IInv, KeyInv, ShardOf, request
<1> QED
  BY <1>4, <1>6, <1>7, <1>8, <1>9 DEF IInv

-----------------------------------------------------------------------------
(* The invariant. *)

\* The types of what Cluster does not have, in the steps other than a crash.
LEMMA HistoryTyped ==
    ASSUME CTypeOK, TypeOK', [CNext]_cvars,
           ~ \E n \in Nodes : Crash(n) \/ Restart(n)
    PROVE  CTypeOK'
<1>1. CASE \E n \in Nodes : Flush(n)
  BY <1>1 DEF Flush, CTypeOK, TypeOK, ServedBy, vars, store
<1>2. CASE \E r \in Requests, n \in Nodes : CArrive(r, n)
  BY <1>2 DEF CArrive, CTypeOK
<1>3. CASE Undisturbed
  BY <1>3 DEF Undisturbed, history, CTypeOK
<1>4. CASE UNCHANGED cvars
  BY <1>4 DEF cvars, history, CTypeOK
<1> QED
  BY <1>1, <1>2, <1>3, <1>4 DEF CNext, Run, CHandle, CDisconnect, CExchange, CallFails

LEMMA CInvStep == CTypeOK /\ IInv /\ [CNext]_cvars => CTypeOK' /\ IInv'
<1> SUFFICES ASSUME CTypeOK, IInv, [CNext]_cvars PROVE CTypeOK' /\ IInv'
  OBVIOUS
<1>1. TypeOK
  BY DEF CTypeOK
<1>2. CASE \E n \in Nodes : Crash(n)
  BY <1>1, <1>2, CrashTyped, CrashInv
<1>3. CASE \E n \in Nodes : Restart(n)
  BY <1>3, RestartInv
<1>4. CASE ~ \E n \in Nodes : Crash(n) \/ Restart(n)
  <2>1. TypeOK' /\ IInv'
    BY <1>1, <1>4, CSteps, InvStep, SendCutInv
  <2> QED
    BY <1>4, <2>1, HistoryTyped
<1> QED
  BY <1>2, <1>3, <1>4

LEMMA CInvariance == CSpec => [](CTypeOK /\ IInv)
<1>1. CInit => CTypeOK /\ IInv
  BY CInitTyped, CInitInv
<1> QED
  BY <1>1, CInvStep, PTL DEF CSpec

\* The state of the nodes and requests keeps its types through crashes and restarts.
THEOREM CrashTypeCorrect == CSpec => []CTypeOK
<1> QED
  BY CInvariance, PTL

\* A node that has come back with an empty pool, and any other, finds the client
\* of a shard in its pool whenever a handler asks for one.
THEOREM CrashPoolInBoundsCorrect == CSpec => []PoolInBounds
<1>1. CTypeOK /\ IInv => PoolInBounds
  <2> SUFFICES ASSUME CTypeOK, IInv, NEW r \in Requests, NEW s \in Nodes,
                      stage[r][s] = "getClient", ~Locked(node[r]), update[node[r]] # "dropped"
               PROVE  s < pool[node[r]]
    BY DEF PoolInBounds
  <2>1. node[r] \in Nodes
    BY DEF CTypeOK, TypeOK
  <2>2. update[node[r]] = "ready"
    BY DEF IInv, CallInv, Configured, Locked
  <2>3. pool[node[r]] = N
    BY <2>1, <2>2 DEF IInv, PeersInv
  <2> QED
    BY <2>3, NAssumption DEF Nodes
<1> QED
  BY <1>1, CInvariance, PTL

\* A handler that has read the final count serves every key on the node of its
\* shard, whichever nodes have crashed before or crash meanwhile.
THEOREM CrashRoutedToOwnerCorrect == CSpec => []RoutedToOwner
<1>1. IInv => RoutedToOwner
  BY DEF IInv
<1> QED
  BY <1>1, CInvariance, PTL

-----------------------------------------------------------------------------
(* Acknowledged writes and the crashes that undo them. *)

\* Request w leaves a value, or none, under k.
Writes(w, k) == Leaves(w, k, After(hyper_handler[op[w]].kv, w, None))

\* The value x of key k was left by a request that was not answered before w was sent.
NotOlder(w, k, x) == \E v \in Requests : /\ pc[v] # "idle" /\ Leaves(v, k, x)
                                         /\ ~(v \in acked[w] /\ Ended(v, k))

\* The owner of k has served the write w, and no crash has undone it.
Survives(w, k) == /\ seen[w] = N /\ done[w][k] # None
                  /\ Writes(w, k) /\ <<w, k>> \notin lost

\* The handlers at work are those of nodes that run.
AliveInv == \A r \in Requests :
    pc[r] \in {"readCount", "readMe", "serve", "fork", "wait"} => up[node[r]]

OpInv == \A r \in Requests : pc[r] # "idle" => op[r] \in Ops

AckedInv == \A w \in Requests : \A v \in acked[w] : v # w /\ status[v] = "200"

KeptInv == \A w \in Requests, k \in Keys : <<w, k>> \in kept => done[w][k] # None

\* What the owner of a key holds, and what it finds after a crash, is not older
\* than a write that survives; while it is down that write is in its database.
StoreInv == \A w \in Requests, k \in Keys : Survives(w, k) =>
    /\ up[Shard[k]] => NotOlder(w, k, kv[Shard[k]][k])
    /\ <<w, k>> \in kept => NotOlder(w, k, disk[Shard[k]][k])
    /\ ~up[Shard[k]] => <<w, k>> \in kept

\* Reader r has found key k on its owner, after the write w that must survive.
Expects(r, w, k) ==
    /\ pc[r] # "idle" /\ Reads(r) /\ seen[r] = N /\ done[r][k] # None
    /\ w \in acked[r] /\ seen[w] = N /\ <<w, k>> \notin lost /\ Ended(w, k)
    /\ Writes(w, k)

FoundInv == \A r, w \in Requests, k \in Keys :
    Expects(r, w, k) => NotOlder(w, k, got[r][k])

RInv == AliveInv /\ OpInv /\ AckedInv /\ KeptInv /\ StoreInv /\ FoundInv

LEMMA ReadsFound == FoundInv <=> ReadsAckedWrites
BY DEF FoundInv, Expects, NotOlder, ReadsAckedWrites, Writes

\* The steps that neither serve nor flush, and leave the nodes up.
Quiet == UNCHANGED <<kv, up, disk, kept, lost, done, got>>

LEMMA HistorySteps ==
    ASSUME [CNext]_cvars
    PROVE  \/ Quiet
           \/ \E r \in Requests : ServeHere(r) /\ Undisturbed
           \/ \E r \in Requests, s \in Nodes : Remote(r, s) /\ up[s] /\ Undisturbed
           \/ \E n \in Nodes : Flush(n) \/ Crash(n) \/ Restart(n)
<1>1. CASE \E n \in Nodes : Run(n)
  <2>1. PICK n \in Nodes : Run(n)
    BY <1>1
  <2>2. UNCHANGED <<store, handler>>
    BY <2>1 DEF Run, Listen, Start, Configure, UpdateLock, UpdateMe, UpdateCount, Connect
  <2> QED
    BY <2>1, <2>2 DEF Run, Undisturbed, history, store, handler, Quiet
<1>2. CASE \E n \in Nodes : Flush(n) \/ Crash(n) \/ Restart(n)
  BY <1>2
<1>3. CASE \E r \in Requests : CHandle(r)
  <2>1. PICK r \in Requests : CHandle(r)
    BY <1>3
  <2>2. CASE ServeHere(r)
    BY <2>1, <2>2 DEF CHandle
  <2>3. CASE ~ServeHere(r)
    BY <2>1, <2>3 DEF CHandle, Handle, ReadCount, ReadMeSingle, ReadMeMany, Fork, Answer,
                      Undisturbed, history, store, Quiet
  <2> QED
    BY <2>2, <2>3
<1>4. CASE \E r \in Requests, n \in Nodes : CArrive(r, n)
  BY <1>4 DEF CArrive, Arrive, store, Quiet
<1>5. CASE \E r \in Requests, s \in Nodes : CExchange(r, s) \/ CallFails(r, s)
  <2>1. PICK r \in Requests, s \in Nodes : CExchange(r, s) \/ CallFails(r, s)
    BY <1>5
  <2>2. CASE Remote(r, s) /\ up[s] /\ Undisturbed
    BY <2>2
  <2>3. CASE ~(Remote(r, s) /\ up[s])
    BY <2>1, <2>3 DEF CExchange, CallFails, Send, SendCut, Reply, Lose, Timeout,
                      Undisturbed, history, store, Quiet
  <2> QED
    BY <2>1, <2>2, <2>3 DEF CExchange, CallFails
<1>6. CASE UNCHANGED cvars
  BY <1>6 DEF cvars, vars, history, store, handler, Quiet
<1>7. CASE \E r \in Requests : CDisconnect(r)
  BY <1>7 DEF CDisconnect, Disconnect, Undisturbed, history, store, Quiet
<1> QED
  BY <1>1, <1>2, <1>3, <1>4, <1>5, <1>6, <1>7 DEF CNext

\* What no step undoes of a request.
GoesOn(v) ==
    /\ pc[v] # "idle" =>
         /\ pc'[v] # "idle"
         /\ op'[v] = op[v] /\ keys'[v] = keys[v] /\ node'[v] = node[v] /\ acked'[v] = acked[v]
    /\ pc[v] = "answered" =>
         /\ status'[v] = status[v]
         /\ \A s \in Nodes : stage[v][s] \in {"failed", "late"} => stage'[v][s] \in {"failed", "late"}
    /\ pc[v] # "readCount" => seen'[v] = seen[v]

LEMMA EveryGoesOn ==
    ASSUME CTypeOK, IInv, [CNext]_cvars
    PROVE  \A v \in Requests : GoesOn(v)
<1> SUFFICES ASSUME NEW v \in Requests PROVE GoesOn(v)
  OBVIOUS
<1>1. CASE \E n \in Nodes : Run(n)
  <2>1. PICK n \in Nodes : Run(n)
    BY <1>1
  <2>2. UNCHANGED <<request, handler>>
    BY <2>1 DEF Run, Listen, Start, Configure, UpdateLock, UpdateMe, UpdateCount, Connect
  <2> QED
    BY <2>1, <2>2 DEF Run, Undisturbed, history, request, handler, GoesOn
<1>2. CASE \E n \in Nodes : Flush(n)
  BY <1>2 DEF Flush, vars, request, handler, GoesOn
<1>3. CASE \E n \in Nodes : Crash(n)
  BY <1>3 DEF Crash, CTypeOK, TypeOK, StageAfter, request, GoesOn
<1>4. CASE \E n \in Nodes : Restart(n)
  BY <1>4 DEF Restart, history, request, handler, GoesOn
<1>5. CASE \E r \in Requests : CHandle(r)
  <2>1. PICK r \in Requests : CHandle(r)
    BY <1>5
  <2>2. UNCHANGED <<request, acked>>
    BY <2>1 DEF CHandle, Handle, ReadCount, ReadMeSingle, ReadMeMany, Fork, ServeHere, Answer,
                Undisturbed, history
  <2>3. v # r => UNCHANGED <<pc[v], seen[v], stage[v], status[v]>>
    BY <2>1 DEF CHandle, Handle, ReadCount, ReadMeSingle, ReadMeMany, Fork, ServeHere, Answer, CTypeOK, TypeOK
  <2>4. pc[r] \notin {"idle", "answered"} /\ pc'[r] # "idle"
    BY <2>1 DEF CHandle, Handle, ReadCount, ReadMeSingle, ReadMeMany, Fork, ServeHere, Answer, CTypeOK, TypeOK
  <2>5. pc[r] # "readCount" => UNCHANGED seen
    BY <2>1 DEF CHandle, Handle, ReadCount, ReadMeSingle, ReadMeMany, Fork, ServeHere, Answer
  <2> QED
    BY <2>2, <2>3, <2>4, <2>5 DEF request, GoesOn
<1>6. CASE \E r \in Requests, n \in Nodes : CArrive(r, n)
  BY <1>6 DEF CArrive, Arrive, CTypeOK, TypeOK, GoesOn
<1>7. CASE \E r \in Requests, s \in Nodes : CExchange(r, s) \/ CallFails(r, s)
  <2>1. PICK r \in Requests, s \in Nodes : CExchange(r, s) \/ CallFails(r, s)
    BY <1>7
  <2>2. UNCHANGED <<request, acked, pc, seen, status>>
    BY <2>1 DEF CExchange, CallFails, Send, SendCut, Remote, Reply, Lose, Timeout,
                Undisturbed, history
  <2>3. \A t \in Nodes : stage[v][t] \in {"failed", "late"} => stage'[v][t] \in {"failed", "late"}
    <3>1. \/ Send(r, s) \/ SendCut(r, s) \/ Reply(r, s)
          \/ Remote(r, s) \/ Lose(r, s) \/ Timeout(r, s)
      BY <2>1 DEF CExchange, CallFails
    <3>2. \A t \in Nodes : v # r \/ t # s => stage'[v][t] = stage[v][t]
      BY <3>1 DEF Send, SendCut, Remote, Reply, Lose, Timeout, CTypeOK, TypeOK
    <3>3. stage[r][s] \in {"failed", "late"} => stage'[r][s] \in {"failed", "late"}
      <4>1. stage \in [Requests -> [Nodes -> Stages]]
        BY DEF CTypeOK, TypeOK, Stages
      <4>2. CASE Remote(r, s)
        BY <4>1, <4>2 DEF Remote
      <4>3. CASE ~Remote(r, s)
        BY <3>1, <4>1, <4>3 DEF Send, SendCut, Reply, Lose, Timeout
      <4> QED
        BY <4>2, <4>3
    <3> QED
      BY <3>2, <3>3
  <2> QED
    BY <2>2, <2>3 DEF request, GoesOn
<1>8. CASE UNCHANGED cvars
  BY <1>8 DEF cvars, vars, history, request, handler, GoesOn
<1>9. CASE \E r \in Requests : CDisconnect(r)
  <2>1. PICK r \in Requests : CDisconnect(r)
    BY <1>9
  <2>2. TypeOK /\ Disconnect(r)
    BY <2>1 DEF CDisconnect, CTypeOK
  <2>3. UNCHANGED <<request, acked, seen, status>>
    BY <2>1, <2>2 DEF CDisconnect, Disconnect, Undisturbed, history
  <2>4. /\ \A q \in Requests : q # r => stage'[q] = stage[q] /\ pc'[q] = pc[q]
        /\ pc[r] = "wait" /\ pc'[r] = "died"
    BY <2>2, Dropped
  <2> QED
    BY <2>3, <2>4 DEF request, GoesOn
<1> QED
  BY <1>1, <1>2, <1>3, <1>4, <1>5, <1>6, <1>7, <1>8, <1>9 DEF CNext

-----------------------------------------------------------------------------
(* What was acknowledged or left stays so. *)

\* A request that is served has arrived.
LEMMA ServedArrived ==
    ASSUME IInv, NEW r \in Requests, NEW k \in Keys, done[r][k] # None
    PROVE  pc[r] \notin {"idle", "readCount"}
BY DEF IInv, Before

LEMMA AckedAnswered ==
    ASSUME IInv, AckedInv, NEW w \in Requests, NEW v \in acked[w]
    PROVE  v \in Requests => pc[v] = "answered"
BY DEF IInv, AnswerInv, AckedInv

\* The call of a request that was answered keeps the end it has come to.
LEMMA EndedBefore ==
    ASSUME CTypeOK, NEW v \in Requests, NEW k \in Keys, GoesOn(v), pc[v] = "answered", Ended(v, k)'
    PROVE  Ended(v, k)
<1>1. ShardOf(k, seen[v]) \in Nodes
  BY ShardType DEF CTypeOK
<1> QED
  BY <1>1 DEF GoesOn, Ended, ShardOf

LEMMA LeavesStays ==
    ASSUME NEW v \in Requests, NEW k \in Keys, NEW x, GoesOn(v), pc[v] # "idle"
    PROVE  Leaves(v, k, x)' <=> Leaves(v, k, x)
BY DEF GoesOn, Leaves

LEMMA WritesStays ==
    ASSUME NEW v \in Requests, NEW k \in Keys, GoesOn(v), pc[v] # "idle"
    PROVE  Writes(v, k)' <=> Writes(v, k)
BY DEF GoesOn, Leaves, Writes

LEMMA NotOlderStays ==
    ASSUME CTypeOK, IInv, AckedInv, \A v \in Requests : GoesOn(v),
           NEW w \in Requests, NEW k \in Keys, NEW x, pc[w] # "idle", NotOlder(w, k, x)
    PROVE  NotOlder(w, k, x)'
<1>1. PICK v \in Requests : /\ pc[v] # "idle" /\ Leaves(v, k, x)
                            /\ ~(v \in acked[w] /\ Ended(v, k))
  BY DEF NotOlder
<1>2. pc'[v] # "idle" /\ Leaves(v, k, x)' /\ acked'[w] = acked[w]
  BY <1>1, LeavesStays DEF GoesOn
<1>3. ~(v \in acked'[w] /\ Ended(v, k)')
  BY <1>1, <1>2, EndedBefore, AckedAnswered
<1> QED
  BY <1>2, <1>3 DEF NotOlder

\* The write that a request sent later expects is served, unless its call failed.
LEMMA AckedServed ==
    ASSUME CTypeOK, IInv, AckedInv, NEW r \in Requests, NEW w \in Requests, NEW k \in Keys,
           w \in acked[r], Ended(w, k), k \in keys[w]
    PROVE  done[w][k] # None
<1>1. pc[w] = "answered" /\ ShardOf(k, seen[w]) \in Nodes
  BY AckedAnswered, ShardType DEF CTypeOK
<1>2. ShardOf(k, seen[w]) \notin forks[w]
  BY <1>1 DEF IInv, ForkInv
<1>3. stage[w][ShardOf(k, seen[w])] \in {"none", "ok"}
  BY <1>1 DEF IInv, AnswerInv, Ended
<1> QED
  BY <1>1, <1>2, <1>3 DEF IInv, KeyInv

\* What a reader expects after a step it did before, unless the step served it.
LEMMA ExpectedBefore ==
    ASSUME CTypeOK, IInv, AckedInv, \A v \in Requests : GoesOn(v), lost \subseteq lost',
           NEW r \in Requests, NEW w \in Requests, NEW k \in Keys,
           pc[r] # "idle", Expects(r, w, k)'
    PROVE  /\ Reads(r) /\ w \in acked[r] /\ Ended(w, k) /\ Writes(w, k)
           /\ pc[w] = "answered" /\ seen[w] = N /\ <<w, k>> \notin lost
           /\ done'[r][k] = done[r][k] => Expects(r, w, k)
<1>1. Reads(r) /\ w \in acked[r]
  BY DEF Expects, GoesOn, Reads
<1>2. pc[w] = "answered"
  BY <1>1, AckedAnswered
<1>3. Ended(w, k) /\ Writes(w, k)
  BY <1>2, EndedBefore, WritesStays DEF Expects
<1>4. seen[w] = N /\ <<w, k>> \notin lost
  BY <1>2 DEF Expects, GoesOn
<1>5. done[r][k] # None => pc[r] # "readCount"
  BY ServedArrived
<1> QED
  BY <1>1, <1>2, <1>3, <1>4, <1>5 DEF Expects, GoesOn

\* What survives a step survived before it, unless the step served it.
LEMMA SurvivedBefore ==
    ASSUME IInv, \A v \in Requests : GoesOn(v), lost \subseteq lost',
           NEW w \in Requests, NEW k \in Keys, Survives(w, k)', done[w][k] # None
    PROVE  Survives(w, k) /\ pc[w] # "idle"
<1>1. pc[w] \notin {"idle", "readCount"}
  BY ServedArrived
<1> QED
  BY <1>1, WritesStays DEF Survives, GoesOn

-----------------------------------------------------------------------------
(* The parts of the invariant. *)

LEMMA AliveOpStep ==
    ASSUME CTypeOK, IInv, AliveInv, OpInv, [CNext]_cvars
    PROVE  AliveInv' /\ OpInv'
<1>1. \A v \in Requests : GoesOn(v)
  BY EveryGoesOn
<1>2. OpInv'
  <2>1. CASE \E r \in Requests, n \in Nodes : CArrive(r, n)
    BY <2>1 DEF CArrive, Arrive, CTypeOK, TypeOK, OpInv
  <2>2. CASE ~ \E r \in Requests, n \in Nodes : CArrive(r, n)
    <3>1. \A v \in Requests : pc[v] = "idle" => pc'[v] = "idle"
      <4>1. CASE \E n \in Nodes : Run(n)
        BY <4>1 DEF Run, Listen, Start, Configure, UpdateLock, UpdateMe, UpdateCount, Connect, handler
      <4>2. CASE \E n \in Nodes : Flush(n) \/ Crash(n) \/ Restart(n)
        BY <4>2 DEF Flush, Crash, Restart, vars, handler
      <4>3. CASE \E r \in Requests : CHandle(r)
        BY <4>3 DEF CHandle, Handle, ReadCount, ReadMeSingle, ReadMeMany, Fork, ServeHere, Answer,
                    CTypeOK, TypeOK
      <4>4. CASE \E r \in Requests, s \in Nodes : CExchange(r, s) \/ CallFails(r, s)
        BY <4>4 DEF CExchange, CallFails, Send, SendCut, Remote, Reply, Lose, Timeout
      <4>5. CASE UNCHANGED cvars
        BY <4>5 DEF cvars, vars, handler
      <4>6. CASE \E r \in Requests : CDisconnect(r)
        BY <4>6 DEF CDisconnect, Disconnect, CTypeOK, TypeOK
      <4> QED
        BY <2>2, <4>1, <4>2, <4>3, <4>4, <4>5, <4>6 DEF CNext
    <3> QED
      BY <1>1, <3>1 DEF OpInv, GoesOn
  <2> QED
    BY <2>1, <2>2
<1>3. AliveInv'
  <2>1. CASE \E n \in Nodes : Run(n)
    BY <2>1 DEF Run, Listen, Start, Configure, UpdateLock, UpdateMe, UpdateCount, Connect, handler,
                request, Undisturbed, AliveInv
  <2>2. CASE \E n \in Nodes : Flush(n)
    BY <2>2 DEF Flush, vars, handler, request, AliveInv
  <2>3. CASE \E n \in Nodes : Crash(n)
    BY <2>3 DEF Crash, CTypeOK, TypeOK, request, AliveInv
  <2>4. CASE \E n \in Nodes : Restart(n)
    BY <2>4 DEF Restart, CTypeOK, TypeOK, request, handler, AliveInv
  <2>5. CASE \E r \in Requests : CHandle(r)
    <3>1. PICK r \in Requests : CHandle(r)
      BY <2>5
    <3>2. UNCHANGED <<up, request>>
      BY <3>1 DEF CHandle, Handle, ReadCount, ReadMeSingle, ReadMeMany, Fork, ServeHere, Answer,
                  Undisturbed
    <3>3. \A v \in Requests : v # r => pc'[v] = pc[v]
      BY <3>1 DEF CHandle, Handle, ReadCount, ReadMeSingle, ReadMeMany, Fork, ServeHere, Answer,
                  CTypeOK, TypeOK
    <3>4. pc[r] \in {"readCount", "readMe", "serve", "fork", "wait"}
      BY <3>1 DEF CHandle, Handle, ReadCount, ReadMeSingle, ReadMeMany, Fork, ServeHere, Answer
    <3> QED
      BY <3>2, <3>3, <3>4 DEF request, AliveInv
  <2>6. CASE \E r \in Requests, n \in Nodes : CArrive(r, n)
    BY <2>6 DEF CArrive, Arrive, CTypeOK, TypeOK, AliveInv
  <2>7. CASE \E r \in Requests, s \in Nodes : CExchange(r, s) \/ CallFails(r, s)
    BY <2>7 DEF CExchange, CallFails, Send, SendCut, Remote, Reply, Lose, Timeout, Undisturbed,
                request, AliveInv
  <2>8. CASE UNCHANGED cvars
    BY <2>8 DEF cvars, vars, handler, request, AliveInv
  <2>9. CASE \E r \in Requests : CDisconnect(r)
    BY <2>9 DEF CDisconnect, Disconnect, CTypeOK, TypeOK, Undisturbed, request, AliveInv
  <2> QED
    BY <2>1, <2>2, <2>3, <2>4, <2>5, <2>6, <2>7, <2>8, <2>9 DEF CNext
<1> QED
  BY <1>2, <1>3

LEMMA AckedStep ==
    ASSUME CTypeOK, IInv, AckedInv, [CNext]_cvars
    PROVE  AckedInv'
<1> SUFFICES ASSUME NEW w \in Requests, NEW v, v \in acked'[w]
             PROVE  v # w /\ status'[v] = "200"
  BY DEF AckedInv
<1>1. \A q \in Requests : GoesOn(q)
  BY EveryGoesOn
<1>2. CASE v \in acked[w]
  <2>1. v \in Requests
    BY <1>2 DEF CTypeOK
  <2> QED
    BY <1>1, <1>2, <2>1, AckedAnswered DEF GoesOn, AckedInv
<1>3. CASE v \notin acked[w]
  <2>1. PICK r \in Requests, n \in Nodes : CArrive(r, n)
    BY <1>3 DEF CNext, Run, Flush, Crash, Restart, CHandle, CDisconnect, CExchange, CallFails, Undisturbed,
                history, cvars
  <2>2. w = r /\ status[v] = "200" /\ UNCHANGED status
    BY <1>3, <2>1 DEF CArrive, Arrive, CTypeOK
  <2>3. status[r] = "none"
    BY <2>1 DEF CArrive, Arrive, IInv, Before
  <2> QED
    BY <2>2, <2>3
<1> QED
  BY <1>2, <1>3

-----------------------------------------------------------------------------
(* Requests are served. *)

\* What serving the keys ks on node n changes of the strings.
LEMMA ServeEffect ==
    ASSUME CTypeOK, OpInv, NEW r \in Requests, pc[r] # "idle", NEW n \in Nodes, NEW ks, Serve(r, n, ks)
    PROVE  /\ \A q \in Requests, k \in Keys :
                done'[q][k] = IF q = r /\ k \in ks THEN n ELSE done[q][k]
           /\ \A m \in Nodes, k \in Keys :
                kv'[m][k] = IF m = n /\ k \in ks THEN After(hyper_handler[op[r]].kv, r, kv[n][k])
                                                 ELSE kv[m][k]
           /\ \A q \in Requests, k \in Keys : ~(q = r /\ k \in ks) => got'[q][k] = got[q][k]
           /\ Reads(r) => \A k \in Keys : k \in ks => got'[r][k] = kv[n][k]
<1> DEFINE h == IF n = node[r] THEN hyper_handler[op[r]] ELSE CachePeerServer[op[r]]
           Value(k) == CASE h.kv = "read"    -> kv[n][k]
                         [] h.zsets = "read" -> zsets[n][k]
                         [] OTHER            -> None
<1>1. op[r] \in {"query", "add", "del", "list", "batch"}
  BY CrashAssumption DEF OpInv
<1>2. h.kv = hyper_handler[op[r]].kv
  BY <1>1 DEF hyper_handler, CachePeerServer, handle_query, handle_add, handle_del, handle_list,
              handle_batch
<1>3. Reads(r) => h.kv = "read" /\ h.zsets # "read"
  BY <1>1 DEF Reads, ReadOps, hyper_handler, CachePeerServer, handle_query, handle_add, handle_del,
              handle_list, handle_batch
<1>4. /\ got' = [got EXCEPT ![r] = [k \in Keys |-> IF k \in ks THEN Value(k) ELSE @[k]]]
      /\ kv' = [kv EXCEPT ![n] =
                   [k \in Keys |-> IF k \in ks THEN After(h.kv, r, @[k]) ELSE @[k]]]
      /\ done' = [done EXCEPT ![r] = [k \in Keys |-> IF k \in ks THEN n ELSE @[k]]]
  BY DEF Serve
<1>5. \A k \in Keys : Reads(r) => Value(k) = kv[n][k]
  <2> HIDE DEF h
  <2> QED
    BY <1>3
<1> HIDE DEF h, Value
<1>6. \A q \in Requests, k \in Keys : done'[q][k] = IF q = r /\ k \in ks THEN n ELSE done[q][k]
  BY <1>4 DEF CTypeOK, TypeOK
<1>7. \A m \in Nodes, k \in Keys :
        kv'[m][k] = IF m = n /\ k \in ks THEN After(hyper_handler[op[r]].kv, r, kv[n][k])
                                         ELSE kv[m][k]
  BY <1>2, <1>4 DEF CTypeOK, TypeOK
<1>8. /\ \A q \in Requests, k \in Keys : ~(q = r /\ k \in ks) => got'[q][k] = got[q][k]
      /\ Reads(r) => \A k \in Keys : k \in ks => got'[r][k] = kv[n][k]
  BY <1>4, <1>5 DEF CTypeOK, TypeOK
<1> QED
  BY <1>6, <1>7, <1>8

\* A step that serves keys on their owner: what is left there is not older than
\* anything, and a reader finds what survives.
LEMMA ServeStoreInv ==
    ASSUME CTypeOK, IInv, RInv, \A v \in Requests : GoesOn(v), Undisturbed,
           NEW r \in Requests, pc[r] \notin {"idle", "readCount"}, NEW n \in Nodes, up[n],
           NEW ks \in SUBSET keys[r], Serve(r, n, ks),
           \A k \in ks : seen[r] = N => n = Shard[k],
           \A w \in Requests, k \in ks : r \in acked[w] => ~Ended(r, k)'
    PROVE  KeptInv' /\ StoreInv' /\ FoundInv'
<1>1. /\ \A q \in Requests, k \in Keys :
           done'[q][k] = IF q = r /\ k \in ks THEN n ELSE done[q][k]
      /\ \A m \in Nodes, k \in Keys :
           kv'[m][k] = IF m = n /\ k \in ks THEN After(hyper_handler[op[r]].kv, r, kv[n][k])
                                            ELSE kv[m][k]
      /\ \A q \in Requests, k \in Keys : ~(q = r /\ k \in ks) => got'[q][k] = got[q][k]
      /\ Reads(r) => \A k \in Keys : k \in ks => got'[r][k] = kv[n][k]
  <2> HIDE DEF RInv
  <2>1. OpInv
    BY DEF RInv
  <2> QED
    BY <2>1, ServeEffect
<1>2. UNCHANGED <<up, disk, kept, lost, acked>> /\ n # None
  BY ValuesAssumption DEF Undisturbed, history
<1>3. AckedInv /\ KeptInv /\ StoreInv /\ FoundInv
  BY DEF RInv
<1>4. KeptInv'
  BY <1>1, <1>2, <1>3 DEF KeptInv
<1>5. /\ pc'[r] # "idle" /\ seen'[r] = seen[r] /\ keys'[r] = keys[r] /\ op'[r] = op[r]
      /\ r \notin acked'[r]
  BY <1>2, <1>3 DEF GoesOn, AckedInv
\* What is written is not older than the write w.
<1>6. ASSUME NEW w \in Requests, NEW k \in ks, k \in Keys, Writes(r, k),
             NEW x, x = kv'[n][k]
      PROVE  NotOlder(w, k, x)'
  <2>1. x = After(hyper_handler[op[r]].kv, r, kv[n][k])
    BY <1>1, <1>6
  <2>2. Leaves(r, k, x)
    BY <1>6, <2>1 DEF Writes, Leaves, After
  <2>3. Leaves(r, k, x)'
    BY <1>5, <2>2 DEF Leaves
  <2>4. ~(r \in acked'[w] /\ Ended(r, k)')
    BY <1>2
  <2> QED
    BY <1>5, <2>3, <2>4 DEF NotOlder
<1>7. StoreInv'
  <2> SUFFICES ASSUME NEW w \in Requests, NEW k \in Keys, Survives(w, k)',
                      NEW x, x = kv'[Shard[k]][k], NEW y, y = disk[Shard[k]][k]
               PROVE  /\ up[Shard[k]] => NotOlder(w, k, x)'
                      /\ <<w, k>> \in kept => NotOlder(w, k, y)'
                      /\ ~up[Shard[k]] => <<w, k>> \in kept
    BY <1>2 DEF StoreInv, NotOlder, Leaves
  <2>1. Shard[k] \in Nodes
    BY KeysAssumption
  <2>2. ASSUME done[w][k] # None
        PROVE  /\ pc[w] # "idle"
               /\ up[Shard[k]] => NotOlder(w, k, kv[Shard[k]][k])
               /\ <<w, k>> \in kept => NotOlder(w, k, y)'
               /\ ~up[Shard[k]] => <<w, k>> \in kept
    <3>1. Survives(w, k) /\ pc[w] # "idle"
      BY <1>2, <2>2, SurvivedBefore
    <3>2. <<w, k>> \in kept => NotOlder(w, k, y)
      BY <1>3, <3>1 DEF StoreInv
    <3> QED
      BY <1>3, <3>1, <3>2, NotOlderStays DEF StoreInv
  <2>3. CASE w = r /\ k \in ks
    <3>1. seen[r] = N /\ Writes(r, k)
      BY <1>5, <2>3 DEF Survives, Writes, Leaves
    <3>2. n = Shard[k]
      BY <2>3, <3>1
    <3>3. NotOlder(w, k, x)'
      BY <1>6, <2>3, <3>1, <3>2
    <3>4. <<w, k>> \in kept => done[w][k] # None
      BY <1>3 DEF KeptInv
    <3> QED
      BY <2>2, <3>2, <3>3, <3>4
  <2>4. CASE ~(w = r /\ k \in ks)
    <3>1. done[w][k] # None
      BY <1>1, <2>4 DEF Survives
    <3>2. CASE n = Shard[k] /\ k \in ks /\ Writes(r, k)
      <4>1. NotOlder(w, k, x)'
        BY <1>6, <3>2
      <4> QED
        BY <2>2, <3>1, <4>1
    <3>3. CASE ~(n = Shard[k] /\ k \in ks /\ Writes(r, k))
      <4>1. x = kv[Shard[k]][k]
        BY <1>1, <2>1, <3>3 DEF Writes, Leaves, After
      <4>2. up[Shard[k]] => NotOlder(w, k, x)
        BY <2>2, <3>1, <4>1
      <4>3. up[Shard[k]] => NotOlder(w, k, x)'
        BY <1>3, <2>2, <3>1, <4>2, NotOlderStays
      <4> QED
        BY <2>2, <3>1, <4>3
    <3> QED
      BY <3>2, <3>3
  <2> QED
    BY <2>3, <2>4
<1>8. FoundInv'
  <2> SUFFICES ASSUME NEW q \in Requests, NEW w \in Requests, NEW k \in Keys, Expects(q, w, k)',
                      NEW x, x = got'[q][k]
               PROVE  NotOlder(w, k, x)'
    BY DEF FoundInv, NotOlder, Leaves
  <2>1. CASE q = r /\ k \in ks
    <3>1. /\ Reads(r) /\ w \in acked[r] /\ Ended(w, k) /\ Writes(w, k)
          /\ pc[w] = "answered" /\ seen[w] = N /\ <<w, k>> \notin lost
      BY <1>2, <1>3, <2>1, ExpectedBefore
    <3>2. done[w][k] # None
      BY <1>3, <3>1, AckedServed DEF Writes, Leaves
    <3>3. n = Shard[k] /\ x = kv[n][k]
      BY <1>1, <1>5, <2>1, <3>1 DEF Expects
    <3>4. NotOlder(w, k, x)
      BY <1>3, <3>1, <3>2, <3>3 DEF StoreInv, Survives
    <3> QED
      BY <1>3, <3>1, <3>4, NotOlderStays
  <2>2. CASE ~(q = r /\ k \in ks)
    <3>1. done'[q][k] = done[q][k] /\ x = got[q][k]
      BY <1>1, <2>2
    <3>2. pc[q] # "idle"
      BY <3>1, ServedArrived DEF Expects
    <3>3. Expects(q, w, k) /\ pc[w] = "answered"
      BY <1>2, <1>3, <3>1, <3>2, ExpectedBefore
    <3>4. NotOlder(w, k, x)
      BY <1>3, <3>1, <3>3 DEF FoundInv
    <3> QED
      BY <1>3, <3>3, <3>4, NotOlderStays
  <2> QED
    BY <2>1, <2>2
<1> QED
  BY <1>4, <1>7, <1>8

LEMMA ServeHereRInv ==
    ASSUME CTypeOK, IInv, RInv, \A v \in Requests : GoesOn(v), Undisturbed,
           NEW r \in Requests, ServeHere(r)
    PROVE  KeptInv' /\ StoreInv' /\ FoundInv'
<1>1. pc[r] \in {"serve", "fork"} /\ Serve(r, node[r], Group(r, own[r]))
  BY DEF ServeHere
<1>2. node[r] \in Nodes /\ Group(r, own[r]) \in SUBSET keys[r]
  BY DEF CTypeOK, TypeOK, Group
<1>3. up[node[r]]
  BY <1>1 DEF RInv, AliveInv
<1>4. \A k \in Group(r, own[r]) : seen[r] = N => node[r] = Shard[k]
  BY <1>1, NAssumption DEF IInv, ReadInv, Group, ShardOf
<1>5. \A w \in Requests : r \notin acked[w]
  BY <1>1, AckedAnswered DEF RInv
<1> QED
  BY <1>1, <1>2, <1>3, <1>4, <1>5, ServeStoreInv

LEMMA RemoteRInv ==
    ASSUME CTypeOK, IInv, RInv, \A v \in Requests : GoesOn(v), Undisturbed,
           NEW r \in Requests, NEW s \in Nodes, Remote(r, s), up[s]
    PROVE  KeptInv' /\ StoreInv' /\ FoundInv'
<1>1. Serve(r, s, Group(r, s)) /\ stage[r][s] \in {"sent", "late"}
  BY DEF Remote
<1>2. Group(r, s) \in SUBSET keys[r] /\ pc[r] \notin {"idle", "readCount"}
  BY <1>1 DEF Group, IInv, Before
<1>3. \A k \in Group(r, s) : seen[r] = N => s = Shard[k]
  BY NAssumption DEF Group, ShardOf
\* A request that is answered already was given up.
<1>4. ASSUME NEW w \in Requests, NEW k \in Group(r, s), r \in acked[w]
      PROVE  ~Ended(r, k)'
  <2>1. pc[r] = "answered"
    BY <1>4, AckedAnswered DEF RInv
  <2>2. stage[r][s] = "late"
    BY <1>1, <2>1 DEF IInv, AnswerInv
  <2>3. stage'[r][s] = "failed"
    BY <2>2 DEF Remote, CTypeOK, TypeOK
  <2>4. ShardOf(k, seen'[r]) = s
    BY DEF Group, Remote
  <2> QED
    BY <2>3, <2>4 DEF Ended, ShardOf
<1> QED
  BY <1>1, <1>2, <1>3, <1>4, ServeStoreInv

-----------------------------------------------------------------------------
(* The other steps. *)

\* No step but that of a node that serves changes what a reader found.
LEMMA FoundStays ==
    ASSUME CTypeOK, IInv, AckedInv, FoundInv, \A v \in Requests : GoesOn(v), lost \subseteq lost',
           UNCHANGED <<done, got>>
    PROVE  FoundInv'
<1> SUFFICES ASSUME NEW q \in Requests, NEW w \in Requests, NEW k \in Keys, Expects(q, w, k)',
                    NEW x, x = got[q][k]
             PROVE  NotOlder(w, k, x)'
  BY DEF FoundInv, NotOlder, Leaves
<1>1. pc[q] # "idle"
  BY ServedArrived DEF Expects
<1>2. Expects(q, w, k) /\ pc[w] = "answered"
  BY <1>1, ExpectedBefore
<1>3. NotOlder(w, k, x)
  BY <1>2 DEF FoundInv
<1> QED
  BY <1>2, <1>3, NotOlderStays

\* What was not older than a write that survives is not older after a step
\* that serves nothing.
LEMMA StoreStays ==
    ASSUME CTypeOK, IInv, AckedInv, StoreInv, \A v \in Requests : GoesOn(v), lost \subseteq lost',
           UNCHANGED done, NEW w \in Requests, NEW k \in Keys, Survives(w, k)'
    PROVE  /\ Survives(w, k) /\ done[w][k] = Shard[k]
           /\ \A x : x = kv[Shard[k]][k] /\ up[Shard[k]] => NotOlder(w, k, x)'
           /\ \A x : x = disk[Shard[k]][k] /\ <<w, k>> \in kept => NotOlder(w, k, x)'
           /\ ~up[Shard[k]] => <<w, k>> \in kept
<1>1. Survives(w, k) /\ pc[w] # "idle"
  BY SurvivedBefore DEF Survives
<1>2. done[w][k] = Shard[k]
  BY <1>1 DEF Survives, IInv, RoutedToOwner
<1>3. /\ up[Shard[k]] => NotOlder(w, k, kv[Shard[k]][k])
      /\ <<w, k>> \in kept => NotOlder(w, k, disk[Shard[k]][k])
      /\ ~up[Shard[k]] => <<w, k>> \in kept
  BY <1>1 DEF StoreInv
<1> QED
  BY <1>1, <1>2, <1>3, NotOlderStays

LEMMA StoreAfter ==
    ASSUME \A w \in Requests, k \in Keys : Survives(w, k)' =>
             /\ \A x : x = kv'[Shard[k]][k] /\ up'[Shard[k]] => NotOlder(w, k, x)'
             /\ \A x : x = disk'[Shard[k]][k] /\ <<w, k>> \in kept' => NotOlder(w, k, x)'
             /\ ~up'[Shard[k]] => <<w, k>> \in kept'
    PROVE  StoreInv'
BY DEF StoreInv, NotOlder, Leaves

LEMMA QuietStoreInv ==
    ASSUME CTypeOK, IInv, RInv, \A v \in Requests : GoesOn(v), Quiet
    PROVE  KeptInv' /\ StoreInv' /\ FoundInv'
<1>1. KeptInv' /\ FoundInv'
  BY FoundStays DEF RInv, Quiet, KeptInv
<1>2. StoreInv'
  BY StoreStays, StoreAfter DEF RInv, Quiet
<1> QED
  BY <1>1, <1>2

LEMMA FlushStoreInv ==
    ASSUME CTypeOK, IInv, RInv, \A v \in Requests : GoesOn(v), NEW n \in Nodes, Flush(n)
    PROVE  KeptInv' /\ StoreInv' /\ FoundInv'
<1>1. /\ UNCHANGED <<kv, done, got, up, lost, acked>> /\ up[n]
      /\ \A m \in Nodes : disk'[m] = IF m = n THEN kv[n] ELSE disk[m]
      /\ kept' = kept \cup ServedBy(n)
  BY DEF Flush, vars, store, handler, CTypeOK
<1>2. KeptInv'
  BY <1>1, ValuesAssumption DEF RInv, KeptInv, ServedBy
<1>3. FoundInv'
  BY <1>1, FoundStays DEF RInv
<1>4. StoreInv'
  <2>1. ASSUME NEW w \in Requests, NEW k \in Keys, Survives(w, k)'
        PROVE  /\ \A x : x = kv'[Shard[k]][k] /\ up'[Shard[k]] => NotOlder(w, k, x)'
               /\ \A x : x = disk'[Shard[k]][k] /\ <<w, k>> \in kept' => NotOlder(w, k, x)'
               /\ ~up'[Shard[k]] => <<w, k>> \in kept'
    <3>1. /\ done[w][k] = Shard[k]
          /\ \A x : x = kv[Shard[k]][k] /\ up[Shard[k]] => NotOlder(w, k, x)'
          /\ \A x : x = disk[Shard[k]][k] /\ <<w, k>> \in kept => NotOlder(w, k, x)'
          /\ ~up[Shard[k]] => <<w, k>> \in kept
      BY <1>1, <2>1, StoreStays DEF RInv
    <3>2. Shard[k] \in Nodes
      BY KeysAssumption
    <3>3. CASE Shard[k] = n
      BY <1>1, <3>1, <3>2, <3>3
    <3>4. CASE Shard[k] # n
      <4>1. disk'[Shard[k]] = disk[Shard[k]] /\ (<<w, k>> \in kept' => <<w, k>> \in kept)
        BY <1>1, <3>1, <3>2, <3>4 DEF ServedBy
      <4> QED
        BY <1>1, <3>1, <4>1
    <3> QED
      BY <3>3, <3>4
  <2> QED
    BY <2>1, StoreAfter
<1> QED
  BY <1>2, <1>3, <1>4

LEMMA CrashStoreInv ==
    ASSUME CTypeOK, IInv, RInv, \A v \in Requests : GoesOn(v), NEW n \in Nodes, Crash(n)
    PROVE  KeptInv' /\ StoreInv' /\ FoundInv'
<1>1. /\ UNCHANGED <<done, got, disk, kept>> /\ lost' = lost \cup (ServedBy(n) \ kept)
      /\ \A m \in Nodes : /\ m = n => ~up'[m]
                          /\ m # n => up'[m] = up[m] /\ kv'[m] = kv[m]
  BY DEF Crash, CTypeOK, TypeOK
<1>2. KeptInv' /\ FoundInv'
  BY <1>1, FoundStays DEF RInv, KeptInv
<1>3. StoreInv'
  <2>1. ASSUME NEW w \in Requests, NEW k \in Keys, Survives(w, k)'
        PROVE  /\ \A x : x = kv'[Shard[k]][k] /\ up'[Shard[k]] => NotOlder(w, k, x)'
               /\ \A x : x = disk'[Shard[k]][k] /\ <<w, k>> \in kept' => NotOlder(w, k, x)'
               /\ ~up'[Shard[k]] => <<w, k>> \in kept'
    <3>1. /\ done[w][k] = Shard[k]
          /\ \A x : x = kv[Shard[k]][k] /\ up[Shard[k]] => NotOlder(w, k, x)'
          /\ \A x : x = disk[Shard[k]][k] /\ <<w, k>> \in kept => NotOlder(w, k, x)'
          /\ ~up[Shard[k]] => <<w, k>> \in kept
      BY <1>1, <2>1, StoreStays DEF RInv
    <3>2. Shard[k] \in Nodes
      BY KeysAssumption
    <3>3. CASE Shard[k] = n
      <4>1. <<w, k>> \notin ServedBy(n) \ kept
        BY <1>1, <2>1 DEF Survives
      <4>2. <<w, k>> \in kept
        BY <3>1, <3>3, <4>1 DEF ServedBy
      <4> QED
        BY <1>1, <3>1, <3>2, <3>3, <4>2
    <3>4. CASE Shard[k] # n
      BY <1>1, <3>1, <3>2, <3>4
    <3> QED
      BY <3>3, <3>4
  <2> QED
    BY <2>1, StoreAfter
<1> QED
  BY <1>2, <1>3

LEMMA RestartStoreInv ==
    ASSUME CTypeOK, IInv, RInv, \A v \in Requests : GoesOn(v), NEW n \in Nodes, Restart(n)
    PROVE  KeptInv' /\ StoreInv' /\ FoundInv'
<1>1. /\ UNCHANGED <<done, got, disk, kept, lost>> /\ ~up[n]
      /\ \A m \in Nodes : /\ m = n => kv'[m] = disk[m] /\ up'[m]
                          /\ m # n => up'[m] = up[m] /\ kv'[m] = kv[m]
  BY DEF Restart, handler, history, CTypeOK, TypeOK
<1>2. KeptInv' /\ FoundInv'
  BY <1>1, FoundStays DEF RInv, KeptInv
<1>3. StoreInv'
  <2>1. ASSUME NEW w \in Requests, NEW k \in Keys, Survives(w, k)'
        PROVE  /\ \A x : x = kv'[Shard[k]][k] /\ up'[Shard[k]] => NotOlder(w, k, x)'
               /\ \A x : x = disk'[Shard[k]][k] /\ <<w, k>> \in kept' => NotOlder(w, k, x)'
               /\ ~up'[Shard[k]] => <<w, k>> \in kept'
    <3>1. /\ \A x : x = kv[Shard[k]][k] /\ up[Shard[k]] => NotOlder(w, k, x)'
          /\ \A x : x = disk[Shard[k]][k] /\ <<w, k>> \in kept => NotOlder(w, k, x)'
          /\ ~up[Shard[k]] => <<w, k>> \in kept
      BY <1>1, <2>1, StoreStays DEF RInv
    <3>2. Shard[k] \in Nodes
      BY KeysAssumption
    <3> QED
      BY <1>1, <3>1, <3>2
  <2> QED
    BY <2>1, StoreAfter
<1> QED
  BY <1>2, <1>3

LEMMA RInvStep == CTypeOK /\ IInv /\ RInv /\ [CNext]_cvars => RInv'
<1> SUFFICES ASSUME CTypeOK, IInv, RInv, [CNext]_cvars PROVE RInv'
  OBVIOUS
<1>1. \A v \in Requests : GoesOn(v)
  BY EveryGoesOn
<1>2. AliveInv' /\ OpInv' /\ AckedInv'
  BY AliveOpStep, AckedStep DEF RInv
<1>3. KeptInv' /\ StoreInv' /\ FoundInv'
  <2>1. CASE Quiet
    BY <1>1, <2>1, QuietStoreInv
  <2>2. CASE \E r \in Requests : ServeHere(r) /\ Undisturbed
    BY <1>1, <2>2, ServeHereRInv
  <2>3. CASE \E r \in Requests, s \in Nodes : Remote(r, s) /\ up[s] /\ Undisturbed
    BY <1>1, <2>3, RemoteRInv
  <2>4. CASE \E n \in Nodes : Flush(n) \/ Crash(n) \/ Restart(n)
    BY <1>1, <2>4, FlushStoreInv, CrashStoreInv, RestartStoreInv
  <2> QED
    BY <2>1, <2>2, <2>3, <2>4, HistorySteps
<1> QED
  BY <1>2, <1>3 DEF RInv

LEMMA CInitRInv == CInit => RInv
BY DEF CInit, NoRequests, RInv, AliveInv, OpInv, AckedInv, KeptInv, StoreInv, FoundInv, Survives,
       Expects

\* A read finds the last write acknowledged before it was sent, or a later one,
\* whatever the number of nodes and of crashes, and whatever else is on its way,
\* unless the owner crashed before its flush thread had written that write.
THEOREM ReadsAckedWritesCorrect == CSpec => []ReadsAckedWrites
<1>1. CInit => CTypeOK /\ IInv /\ RInv
  BY CInitTyped, CInitInv, CInitRInv
<1>2. CTypeOK /\ IInv /\ RInv /\ [CNext]_cvars => (CTypeOK /\ IInv /\ RInv)'
  BY CInvStep, RInvStep
<1>3. RInv => ReadsAckedWrites
  BY ReadsFound DEF RInv
<1> QED
  BY <1>1, <1>2, <1>3, PTL DEF CSpec
=============================================================================
