-------------------------- MODULE ClusterLoadProofs --------------------------
(***************************************************************************)
(* Proof about the loader of Cluster, for any number of nodes, keys and    *)
(* requests: a node that loaded with the final count, or as node 0, has    *)
(* its rows.                                                               *)
(***************************************************************************)
EXTENDS ClusterProofs

\* The node that serves request r for key k, once the handler has read me.
Server(r, k) == IF ShardOf(k, seen[r]) = own[r] THEN node[r] ELSE ShardOf(k, seen[r])

\* A key of a request is served by one node, never here and by a call.
OwnInv == \A r \in Requests :
    /\ pc[r] # "idle" => op[r] \in Ops
    /\ \A s \in Nodes : stage[r][s] # "none" => s # own[r]
    /\ \A k \in Keys : done[r][k] # None => done[r][k] = Server(r, k)

\* A loader that has read the final count will read the final me.
CountInv == \A n \in Nodes :
    load_state[n] \in {"COUNTED", "LOADED"} /\ lcount[n] = N => count[n] = N

LoadInv == OwnInv /\ CountInv /\ LoadedRowsKept

-----------------------------------------------------------------------------
(* Who serves a key. *)

\* A step that neither serves nor begins a call, and keeps what is served.
LEMMA SameOwn ==
    ASSUME OwnInv, UNCHANGED <<request, seen, own, done>>,
           \A r \in Requests : pc[r] = "idle" => pc'[r] = "idle",
           \A r \in Requests, s \in Nodes : stage[r][s] = "none" => stage'[r][s] = "none"
    PROVE  OwnInv'
BY DEF OwnInv, Server, ShardOf, request

LEMMA ArriveOwn ==
    ASSUME TypeOK, IInv, OwnInv, NEW r \in Requests, NEW n \in Nodes, Arrive(r, n)
    PROVE  OwnInv'
<1>1. op'[r] \in Ops /\ UNCHANGED <<seen, own, stage, done>>
  BY DEF TypeOK, Arrive
<1>2. \A q \in Requests \ {r} : pc'[q] = pc[q] /\ op'[q] = op[q] /\ node'[q] = node[q]
  BY DEF TypeOK, Arrive
<1>3. /\ \A s \in Nodes : stage[r][s] = "none"
      /\ \A k \in Keys : done[r][k] = None
  BY DEF IInv, Before, Arrive
<1> QED
  BY <1>1, <1>2, <1>3 DEF OwnInv, Server, ShardOf

LEMMA ReadsOwn ==
    ASSUME TypeOK, IInv, OwnInv, NEW r \in Requests,
           ReadCount(r) \/ ReadMeSingle(r) \/ ReadMeMany(r)
    PROVE  OwnInv'
<1>1. UNCHANGED <<request, done>> /\ pc[r] # "idle"
  BY DEF ReadCount, ReadMeSingle, ReadMeMany
<1>2. \A q \in Requests \ {r} : /\ pc'[q] = pc[q] /\ seen'[q] = seen[q] /\ own'[q] = own[q]
                                /\ stage'[q] = stage[q]
  BY DEF TypeOK, ReadCount, ReadMeSingle, ReadMeMany
<1>3. /\ \A s \in Nodes : stage[r][s] = "none"
      /\ \A k \in Keys : done[r][k] = None
  BY DEF IInv, Before, ReadCount, ReadMeSingle, ReadMeMany
<1>4. ASSUME NEW s \in Nodes, stage'[r][s] # "none"
      PROVE  s # own'[r]
  <2>1. CASE ReadMeSingle(r)
    <3>1. own'[r] = me[node[r]]
      BY <2>1 DEF TypeOK, ReadMeSingle
    <3>2. Group(r, me[node[r]]) = {} /\ Group(r, s) # {}
      BY <2>1, <1>3, <1>4 DEF TypeOK, ReadMeSingle
    <3> QED
      BY <3>1, <3>2
  <2> QED
    BY <2>1, <1>3, <1>4 DEF ReadCount, ReadMeMany
<1> QED
  BY <1>1, <1>2, <1>3, <1>4 DEF OwnInv, Server, ShardOf, request

LEMMA ForkOwn ==
    ASSUME TypeOK, IInv, OwnInv, NEW r \in Requests, Fork(r)
    PROVE  OwnInv'
<1>1. UNCHANGED <<request, pc, seen, own, done>>
  BY DEF Fork
<1>2. \A q \in Requests, s \in Nodes : stage'[q][s] # stage[q][s] => q = r /\ s \in forks[r]
  BY DEF TypeOK, Fork
<1>3. \A s \in forks[r] : s # own[r]
  BY DEF IInv, ForkInv
<1> QED
  BY <1>1, <1>2, <1>3 DEF OwnInv, Server, ShardOf, request

-----------------------------------------------------------------------------
(* Serving. *)

\* Only a del leaves nothing where a string was.
LEMMA DelErases ==
    ASSUME NEW r \in Requests, NEW n \in Nodes, NEW ks, NEW m \in Nodes, NEW k \in Keys,
           TypeOK, op[r] \in Ops, Serve(r, n, ks), kv[m][k] # None, kv'[m][k] = None
    PROVE  op[r] = "del" /\ m = n /\ k \in ks
<1> DEFINE h == IF n = node[r] THEN hyper_handler[op[r]] ELSE CachePeerServer[op[r]]
<1>1. kv' = [kv EXCEPT ![n] = [i \in Keys |-> IF i \in ks THEN After(h.kv, r, @[i]) ELSE @[i]]]
  BY DEF Serve
<1>2. op[r] # "del" => h.kv # "erase"
  BY OpsAssumption DEF hyper_handler, CachePeerServer, handle_query, handle_add, handle_del,
     handle_zadd, handle_zrange, handle_zrmv, handle_list, handle_batch
<1> HIDE DEF h
<1>3. m = n /\ k \in ks /\ After(h.kv, r, kv[n][k]) = None
  BY <1>1 DEF TypeOK
<1>4. h.kv = "erase"
  BY <1>3, ValuesAssumption DEF After
<1> QED
  BY <1>2, <1>3, <1>4

\* A node serves keys that no other has served for this request.
LEMMA ServeRows ==
    ASSUME NEW r \in Requests, NEW n \in Nodes, NEW ks,
           TypeOK, OwnInv, LoadedRowsKept, Serve(r, n, ks),
           op[r] \in Ops, \A k \in ks : Server(r, k) = n,
           UNCHANGED <<request, seen, own, load_state, lcount>>
    PROVE  LoadedRowsKept' /\ \A q \in Requests, k \in Keys :
                                  done'[q][k] # None => done'[q][k] = Server(q, k)
<1>1. \A q \in Requests, k \in Keys :
        done'[q][k] = IF q = r /\ k \in ks THEN n ELSE done[q][k]
  BY DEF TypeOK, Serve
<1>2. \A q \in Requests, k \in Keys : done'[q][k] # None => done'[q][k] = Server(q, k)
  BY <1>1 DEF OwnInv
<1>3. \A q \in Requests, k \in Keys : done[q][k] # None => done'[q][k] = done[q][k]
  BY <1>1 DEF OwnInv
<1>4. LoadedRowsKept'
  <2> SUFFICES ASSUME NEW m \in Nodes, load_state[m] = "LOADED",
                      lcount[m] = N \/ m = 0, NEW k \in Rows, RowShard[k] = m, kv'[m][k] = None
               PROVE  \E q \in Requests : op[q] = "del" /\ done'[q][k] = m
    BY DEF LoadedRowsKept, Deleted, request
  <2>1. k \in Keys /\ m # None
    BY KeysAssumption, ValuesAssumption
  <2>2. CASE kv[m][k] # None
    <3>1. op[r] = "del" /\ m = n /\ k \in ks
      BY <2>1, <2>2, DelErases
    <3> QED
      BY <1>1, <2>1, <3>1
  <2>3. CASE \E q \in Requests : op[q] = "del" /\ done[q][k] = m
    BY <1>3, <2>1, <2>3
  <2> QED
    BY <2>2, <2>3 DEF LoadedRowsKept, Deleted
<1> QED
  BY <1>2, <1>4

LEMMA ServeHereLoad ==
    ASSUME TypeOK, IInv, LoadInv, NEW r \in Requests, ServeHere(r)
    PROVE  LoadInv'
<1>1. /\ Serve(r, node[r], Group(r, own[r])) /\ node[r] \in Nodes /\ op[r] \in Ops
      /\ UNCHANGED <<request, seen, own, stage, load_state, lcount, count>>
  BY DEF TypeOK, LoadInv, OwnInv, ServeHere, loader, cluster
<1>2. \A k \in Group(r, own[r]) : Server(r, k) = node[r]
  BY DEF Group, Server
<1>3. LoadedRowsKept' /\ \A q \in Requests, k \in Keys :
                              done'[q][k] # None => done'[q][k] = Server(q, k)
  BY <1>1, <1>2, ServeRows DEF LoadInv
<1>4. \A q \in Requests : pc'[q] # "idle" => pc[q] # "idle"
  BY DEF TypeOK, ServeHere
<1>5. OwnInv'
  BY <1>1, <1>3, <1>4 DEF LoadInv, OwnInv, Server, ShardOf, request
<1> QED
  BY <1>1, <1>3, <1>5 DEF LoadInv, CountInv

LEMMA RemoteLoad ==
    ASSUME TypeOK, IInv, LoadInv, NEW r \in Requests, NEW s \in Nodes, Remote(r, s)
    PROVE  LoadInv'
<1>1. /\ Serve(r, s, Group(r, s)) /\ stage[r][s] # "none"
      /\ UNCHANGED <<request, pc, seen, own, load_state, lcount, count>>
  BY DEF Remote, loader, cluster
<1>2. op[r] \in Ops
  BY <1>1 DEF IInv, Before, LoadInv, OwnInv
<1>3. \A k \in Group(r, s) : Server(r, k) = s
  BY <1>1 DEF Group, Server, LoadInv, OwnInv
<1>4. LoadedRowsKept' /\ \A q \in Requests, k \in Keys :
                              done'[q][k] # None => done'[q][k] = Server(q, k)
  BY <1>1, <1>2, <1>3, ServeRows DEF LoadInv
<1>5. \A q \in Requests, t \in Nodes : stage'[q][t] # "none" => stage[q][t] # "none"
  BY <1>1 DEF TypeOK, Remote
<1>6. OwnInv'
  BY <1>1, <1>4, <1>5 DEF LoadInv, OwnInv, Server, ShardOf, request
<1> QED
  BY <1>1, <1>4, <1>6 DEF LoadInv, CountInv

-----------------------------------------------------------------------------
(* Loading. *)

\* Rows stay where they are while nothing is served and no loader ends.
LEMMA SameRows ==
    ASSUME LoadedRowsKept, UNCHANGED <<kv, op, done, lcount>>,
           \A n \in Nodes : load_state'[n] = "LOADED" => load_state[n] = "LOADED"
    PROVE  LoadedRowsKept'
BY DEF LoadedRowsKept, Deleted

\* count is stored once, and a loader reads it when it starts.
LEMMA CountOnce ==
    ASSUME TypeOK, PeersInv, CountInv, NEW n \in Nodes, PeerStep(n)
    PROVE  CountInv'
<1>1. CASE InitCall(n) \/ InitUpdate(n) \/ InitDropped(n) \/ InitResume(n)
  <2>1. UNCHANGED <<count, lcount>>
    BY <1>1 DEF InitCall, InitUpdate, InitDropped, InitResume, cluster
  <2>2. \A m \in Nodes : load_state'[m] \in {"COUNTED", "LOADED"} => load_state'[m] = load_state[m]
    BY <1>1 DEF TypeOK, InitCall, InitUpdate, InitDropped, InitResume, StartLoader
  <2> QED
    BY <2>1, <2>2 DEF CountInv
<1>2. CASE LoadCount(n)
  BY <1>2 DEF TypeOK, CountInv, LoadCount, cluster
<1>3. CASE LoadRows(n)
  BY <1>3 DEF TypeOK, CountInv, LoadRows, cluster
<1>4. CASE UpdateCount(n)
  BY <1>4 DEF TypeOK, CountInv, UpdateCount, loader
<1>5. CASE UpdateCluster(n) \/ Listen(n) \/ Start(n) \/ UpdateLock(n) \/ UpdateMe(n) \/ Connect(n)
  BY <1>5 DEF CountInv, UpdateCluster, Listen, Start, UpdateLock, UpdateMe, Connect, loader
<1> QED
  BY <1>1, <1>2, <1>3, <1>4, <1>5 DEF PeerStep, Configure, Loading

\* A loader that has read the final count stores the rows of its own shard, and so does
\* the one of node 0, whose me is 0 from the start.
LEMMA LoadsItsRows ==
    ASSUME TypeOK, IInv, LoadInv, NEW n \in Nodes, LoadRows(n)
    PROVE  LoadedRowsKept'
<1>1. UNCHANGED <<op, done, lcount>> /\ load_state[n] = "COUNTED"
  BY DEF LoadRows, request, handler
<1>2. \A m \in Nodes \ {n} : load_state'[m] = load_state[m] /\ kv'[m] = kv[m]
  BY DEF TypeOK, LoadRows
<1>3. lcount[n] = N \/ n = 0 => me[n] = n
  BY <1>1 DEF IInv, PeersInv, Configured, LoadInv, CountInv
<1>4. ASSUME lcount[n] = N \/ n = 0, NEW k \in Rows, RowShard[k] = n
      PROVE  kv'[n][k] # None
  <2>1. kv'[n][k] = Row
    BY <1>3, <1>4, NAssumption, KeysAssumption DEF TypeOK, LoadRows
  <2> QED
    BY <2>1, ValuesAssumption
<1> QED
  BY <1>1, <1>2, <1>4 DEF LoadInv, LoadedRowsKept, Deleted

LEMMA PeerLoad ==
    ASSUME TypeOK, IInv, LoadInv, NEW n \in Nodes, PeerStep(n)
    PROVE  LoadInv'
<1>1. CountInv'
  BY CountOnce DEF IInv, LoadInv
<1>2. OwnInv'
  BY PeersOnwards, SameOwn DEF IInv, LoadInv, Onwards, handler, request
<1>3. LoadedRowsKept'
  <2>1. CASE LoadRows(n)
    BY <2>1, LoadsItsRows
  <2>2. CASE InitCall(n) \/ InitUpdate(n) \/ InitDropped(n) \/ InitResume(n)
    <3>1. UNCHANGED <<kv, op, done, lcount>>
      BY <2>2 DEF InitCall, InitUpdate, InitDropped, InitResume, store, request, handler
    <3>2. \A m \in Nodes : load_state'[m] = "LOADED" => load_state[m] = "LOADED"
      BY <2>2 DEF TypeOK, InitCall, InitUpdate, InitDropped, InitResume, StartLoader
    <3> QED
      BY <3>1, <3>2, SameRows DEF LoadInv
  <2>3. CASE LoadCount(n)
    <3>1. UNCHANGED <<kv, op, done>> /\ \A m \in Nodes \ {n} : lcount'[m] = lcount[m]
      BY <2>3 DEF TypeOK, LoadCount, store, request, handler
    <3>2. \A m \in Nodes : load_state'[m] = "LOADED" => load_state[m] = "LOADED" /\ m # n
      BY <2>3 DEF TypeOK, LoadCount
    <3> QED
      BY <3>1, <3>2 DEF LoadInv, LoadedRowsKept, Deleted
  <2>4. CASE UpdateCluster(n) \/ Listen(n) \/ Start(n) \/ Configure(n)
    <3>1. UNCHANGED <<kv, op, done, lcount, load_state>>
      BY <2>4 DEF UpdateCluster, Listen, Start, Configure, UpdateLock, UpdateMe, UpdateCount, Connect,
         store, request, handler, loader
    <3> QED
      BY <3>1, SameRows DEF LoadInv
  <2> QED
    BY <2>1, <2>2, <2>3, <2>4 DEF PeerStep, Loading
<1> QED
  BY <1>1, <1>2, <1>3 DEF LoadInv

-----------------------------------------------------------------------------
(* All steps. *)

LEMMA HandleLoad ==
    ASSUME TypeOK, IInv, LoadInv, NEW r \in Requests, Handle(r)
    PROVE  LoadInv'
<1>1. CASE ServeHere(r)
  BY <1>1, ServeHereLoad
<1>2. CASE ReadCount(r) \/ ReadMeSingle(r) \/ ReadMeMany(r) \/ Fork(r) \/ Answer(r)
  <2>1. UNCHANGED <<kv, op, done, lcount, load_state, count>>
    BY <1>2 DEF ReadCount, ReadMeSingle, ReadMeMany, Fork, Answer, store, request, loader, cluster
  <2>2. LoadedRowsKept' /\ CountInv'
    BY <2>1, SameRows DEF LoadInv, CountInv
  <2>3. CASE Answer(r)
    <3>1. UNCHANGED <<request, seen, own, done, stage>>
      BY <2>3 DEF Answer
    <3>2. \A q \in Requests : pc[q] = "idle" => pc'[q] = "idle"
      BY <2>3 DEF TypeOK, Answer
    <3>3. OwnInv'
      BY <3>1, <3>2, SameOwn DEF LoadInv
    <3> QED
      BY <2>2, <3>3 DEF LoadInv
  <2> QED
    BY <1>2, <2>2, <2>3, ReadsOwn, ForkOwn DEF LoadInv
<1> QED
  BY <1>1, <1>2 DEF Handle

LEMMA CallLoad ==
    ASSUME TypeOK, IInv, LoadInv, NEW r \in Requests, NEW s \in Nodes, CallStep(r, s)
    PROVE  LoadInv'
<1>1. CASE Remote(r, s)
  BY <1>1, RemoteLoad
<1>2. CASE Send(r, s) \/ Reply(r, s) \/ Lose(r, s) \/ Timeout(r, s)
  <2>1. UNCHANGED <<kv, done, lcount, load_state, count, request, pc, seen, own>>
    BY <1>2 DEF Send, Reply, Lose, Timeout, store, loader, cluster
  <2>2. \A q \in Requests, t \in Nodes : stage[q][t] = "none" => stage'[q][t] = "none"
    <3>1. stage \in [Requests -> [Nodes -> Stages]]
      BY DEF TypeOK, Stages
    <3>2. stage[r][s] # "none"
      BY <1>2 DEF Send, Reply, Lose, Timeout
    <3>3. \E v \in Stages : stage' = [stage EXCEPT ![r][s] = v]
      BY <1>2 DEF Send, Reply, Lose, Timeout, Stages
    <3> QED
      BY <3>1, <3>2, <3>3
  <2>3. OwnInv'
    BY <2>1, <2>2, SameOwn DEF LoadInv
  <2>4. LoadedRowsKept' /\ CountInv'
    BY <2>1, SameRows DEF LoadInv, CountInv, request
  <2> QED
    BY <2>3, <2>4 DEF LoadInv
<1>3. CASE GetClientPanics(r, s)
  <2>1. UNCHANGED <<kv, done, lcount, load_state, count, request, seen, own>>
    BY <1>3 DEF GetClientPanics, store, loader, cluster
  <2>2. \A q \in Requests, t \in Nodes : stage[q][t] = "none" => stage'[q][t] = "none"
    BY <1>3 DEF TypeOK, GetClientPanics
  <2>3. pc[r] # "idle" /\ \A q \in Requests \ {r} : pc'[q] = pc[q]
    BY <1>3 DEF TypeOK, IInv, Before, GetClientPanics
  <2>4. OwnInv'
    BY <2>1, <2>2, <2>3, SameOwn DEF LoadInv
  <2>5. LoadedRowsKept' /\ CountInv'
    BY <2>1, SameRows DEF LoadInv, CountInv, request
  <2> QED
    BY <2>4, <2>5 DEF LoadInv
<1> QED
  BY <1>1, <1>2, <1>3 DEF CallStep, Exchange

\* A handler that is dropped serves nothing any more.
LEMMA DisconnectLoad ==
    ASSUME TypeOK, LoadInv, NEW r \in Requests, Disconnect(r)
    PROVE  LoadInv'
<1>1. UNCHANGED <<kv, done, lcount, load_state, count, request, seen, own>>
  BY DEF Disconnect, store, loader, cluster
<1>2. pc[r] = "wait" /\ \A q \in Requests \ {r} : pc'[q] = pc[q] /\ stage'[q] = stage[q]
  BY Dropped
<1>3. \A t \in Nodes : stage[r][t] = "none" => stage'[r][t] = "none"
  BY DEF TypeOK, Disconnect
<1>4. OwnInv'
  BY <1>1, <1>2, <1>3 DEF LoadInv, OwnInv, Server, ShardOf, request
<1>5. LoadedRowsKept' /\ CountInv'
  BY <1>1, SameRows DEF LoadInv, CountInv, request
<1> QED
  BY <1>4, <1>5 DEF LoadInv

LEMMA ArriveLoad ==
    ASSUME TypeOK, IInv, LoadInv, NEW r \in Requests, NEW n \in Nodes, Arrive(r, n)
    PROVE  LoadInv'
<1>1. OwnInv'
  BY ArriveOwn DEF LoadInv
<1>2. CountInv'
  BY DEF LoadInv, CountInv, Arrive, cluster, loader
<1>3. LoadedRowsKept'
  <2>1. UNCHANGED <<kv, done, load_state, lcount>>
    BY DEF Arrive, store, loader
  <2>2. \A q \in Requests, k \in Rows : done[q][k] # None => op'[q] = op[q]
    <3>1. \A k \in Rows : done[r][k] = None
      BY KeysAssumption DEF IInv, Before, Arrive
    <3> QED
      BY <3>1 DEF TypeOK, Arrive
  <2> QED
    BY <2>1, <2>2, ValuesAssumption DEF LoadInv, LoadedRowsKept, Deleted
<1> QED
  BY <1>1, <1>2, <1>3 DEF LoadInv

LEMMA LoadStep ==
    ASSUME TypeOK, IInv, LoadInv, [Next]_vars
    PROVE  LoadInv'
<1>1. CASE UNCHANGED vars
  BY <1>1, SameRows, SameOwn
     DEF LoadInv, CountInv, vars, cluster, loader, store, request, handler
<1> QED
  BY <1>1, Steps, PeerLoad, HandleLoad, DisconnectLoad, CallLoad, ArriveLoad

\* A loader that has read the final count, and the one of node 0 in any case, has stored
\* every row whose bytes hash to its node, and only a del takes one away: the loader reads
\* count before me, and update_peers stores them in the other order.
THEOREM LoadedRowsKeptCorrect == Spec => []LoadedRowsKept
<1>1. Init => LoadInv
  BY DEF Init, NothingStored, NoRequests, LoadInv, OwnInv, CountInv, LoadedRowsKept
<1>2. TypeOK /\ IInv /\ LoadInv /\ [Next]_vars => LoadInv'
  BY LoadStep
<1>3. LoadInv => LoadedRowsKept
  BY DEF LoadInv
<1> QED
  BY <1>1, <1>2, <1>3, Invariance, PTL DEF Spec
=============================================================================
