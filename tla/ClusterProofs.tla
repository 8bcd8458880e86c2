--------------------------- MODULE ClusterProofs ---------------------------
(***************************************************************************)
(* Proofs about Cluster, for any number of nodes, keys and requests, while *)
(* the nodes learn their peers.                                            *)
(***************************************************************************)
EXTENDS Cluster, TLAPS

Configured == {"meStored", "countStored", "ready", "dropped"}

\* What a node knows at each stage of update_peers, and after it was dropped.
PeersInv ==
    \A n \in Nodes :
      /\ update[n] \notin Configured => me[n] = 0
      /\ update[n] \in Configured => me[n] = n
      /\ update[n] \in {"countStored", "ready", "dropped"} <=> count[n] = N
      /\ update[n] # "ready" => pool[n] < N
      /\ update[n] = "ready" => pool[n] = N

\* A request for one key has one.
OneKey == \A r \in Requests : Single(r) => \E k \in Keys : keys[r] = {k}

\* Until the handler has read me, nothing is called, served or answered.
Before == \A r \in Requests :
    pc[r] \in {"idle", "readCount", "readMe"} =>
      /\ \A s \in Nodes : stage[r][s] = "none"
      /\ \A k \in Keys : done[r][k] = None
      /\ status[r] = "none"

\* What a handler at work has read is still true, but for a count or me of 0.
ReadInv == \A r \in Requests :
    /\ pc[r] \in {"readMe", "serve", "fork", "wait"} /\ seen[r] = N => count[node[r]] = N
    /\ pc[r] \in {"serve", "fork", "wait"} =>
         /\ own[r] \in Nodes
         /\ own[r] # 0 => me[node[r]] = own[r]
         /\ seen[r] = N => own[r] = node[r]

\* The groups that remain are not the node's own.
ForkInv == \A r \in Requests : \A s \in forks[r] :
    /\ pc[r] \in {"fork", "died"} /\ s # own[r]
    /\ \E k \in keys[r] : ShardOf(k, seen[r]) = s

\* A handler calls another node only when its own has begun to store its peers.
CallInv == \A r \in Requests, s \in Nodes :
    stage[r][s] = "getClient" => update[node[r]] \in Configured

\* Each key is served, or its group is still to be served, or its call failed.
KeyInv == \A r \in Requests :
    pc[r] \in {"serve", "fork", "wait", "answered"} =>
      \A k \in keys[r] :
        \/ done[r][k] # None
        \/ pc[r] \in {"serve", "fork"} /\ own[r] = ShardOf(k, seen[r])
        \/ ShardOf(k, seen[r]) \in forks[r]
        \/ stage[r][ShardOf(k, seen[r])] \in {"getClient", "sent", "failed", "late"}

AnswerInv == \A r \in Requests :
    /\ status[r] # "none" => pc[r] = "answered"
    /\ pc[r] = "answered" =>
         \A s \in Nodes : stage[r][s] \in {"none", "ok", "failed", "late"}

IInv == /\ PeersInv /\ OneKey /\ Before /\ ReadInv /\ ForkInv /\ CallInv
        /\ KeyInv /\ AnswerInv /\ RoutedToOwner

-----------------------------------------------------------------------------
(* What the handlers see of the steps that configure and load a node. *)

PeerStep(n) == \/ UpdateCluster(n) \/ Listen(n) \/ Start(n) \/ Configure(n)
               \/ InitCall(n) \/ InitUpdate(n) \/ InitDropped(n) \/ Loading(n)

CallStep(r, s) == Exchange(r, s) \/ GetClientPanics(r, s) \/ Lose(r, s) \/ Timeout(r, s)

\* The steps of Next, one at a time.
LEMMA Steps ==
    ASSUME [Next]_vars
    PROVE  \/ \E n \in Nodes : PeerStep(n)
           \/ \E r \in Requests : Handle(r) \/ Disconnect(r)
           \/ \E r \in Requests, n \in Nodes : Arrive(r, n)
           \/ \E r \in Requests, s \in Nodes : CallStep(r, s)
           \/ UNCHANGED vars
BY KeysAssumption DEF Next, PeerStep, CallStep

-----------------------------------------------------------------------------
(* Types. *)

Stages == {"none", "getClient", "sent", "served", "ok", "failed", "late"}

LEMMA StageType ==
    ASSUME TypeOK, NEW r \in Requests, NEW s \in Nodes, NEW v \in Stages
    PROVE  [stage EXCEPT ![r][s] = v] \in [Requests -> [Nodes -> Stages]]
BY DEF TypeOK, Stages

Values == Requests \cup {Row, None}

\* Serving keys leaves the maps of a node and what a request found well-typed.
LEMMA ServeTyped ==
    ASSUME TypeOK, NEW r \in Requests, NEW n \in Nodes, NEW ks, Serve(r, n, ks)
    PROVE  /\ done' \in [Requests -> [Keys -> Nodes \cup {None}]]
           /\ got' \in [Requests -> [Keys -> Values]]
           /\ kv' \in [Nodes -> [Keys -> Values]] /\ zsets' \in [Nodes -> [Keys -> Values]]
<1>1. \A e, v : v \in Values => After(e, r, v) \in Values
  BY DEF After, Values
<1>2. /\ done \in [Requests -> [Keys -> Nodes \cup {None}]] /\ None \in Values
      /\ got \in [Requests -> [Keys -> Values]]
      /\ kv \in [Nodes -> [Keys -> Values]] /\ zsets \in [Nodes -> [Keys -> Values]]
  BY DEF TypeOK, Values
<1> DEFINE h == IF n = node[r] THEN hyper_handler[op[r]] ELSE CachePeerServer[op[r]]
           Value(k) == CASE h.kv = "read"    -> kv[n][k]
                         [] h.zsets = "read" -> zsets[n][k]
                         [] OTHER            -> None
<1>3. \A k \in Keys : Value(k) \in Values
  <2> HIDE DEF h
  <2> QED
    BY <1>2
<1>4. /\ got' = [got EXCEPT ![r] = [k \in Keys |-> IF k \in ks THEN Value(k) ELSE @[k]]]
      /\ kv' = [kv EXCEPT ![n] =
                   [k \in Keys |-> IF k \in ks THEN After(h.kv, r, @[k]) ELSE @[k]]]
      /\ zsets' = [zsets EXCEPT ![n] =
                   [k \in Keys |-> IF k \in ks THEN After(h.zsets, r, @[k]) ELSE @[k]]]
      /\ done' = [done EXCEPT ![r] = [k \in Keys |-> IF k \in ks THEN n ELSE @[k]]]
  BY DEF Serve
<1> HIDE DEF h, Value
<1>5. got' \in [Requests -> [Keys -> Values]]
  BY <1>2, <1>3, <1>4
<1>6. kv' \in [Nodes -> [Keys -> Values]] /\ zsets' \in [Nodes -> [Keys -> Values]]
  BY <1>1, <1>2, <1>4
<1>7. done' \in [Requests -> [Keys -> Nodes \cup {None}]]
  BY <1>2, <1>4
<1> QED
  BY <1>5, <1>6, <1>7

LEMMA InitTyped == Init => TypeOK
BY NAssumption, KeysAssumption, ValuesAssumption DEF Init, FreshNodes, NothingStored, NoRequests, TypeOK, Nodes

LEMMA PeerTyped ==
    ASSUME TypeOK, PeersInv, NEW n \in Nodes, PeerStep(n)
    PROVE  TypeOK'
<1>1. CASE UpdateCluster(n)
  BY <1>1, NAssumption DEF TypeOK, UpdateCluster, Nodes, cluster, loader, store, request, handler
<1>2. CASE Listen(n)
  BY <1>2, NAssumption DEF TypeOK, Listen, Nodes, cluster, loader, store, request, handler
<1>3. CASE Start(n)
  BY <1>3, NAssumption DEF TypeOK, Start, Nodes, cluster, loader, store, request, handler
<1>4. CASE UpdateLock(n)
  BY <1>4, NAssumption DEF TypeOK, UpdateLock, Nodes, cluster, loader, store, request, handler
<1>5. CASE UpdateMe(n)
  BY <1>5, NAssumption DEF TypeOK, UpdateMe, Nodes, cluster, loader, store, request, handler
<1>6. CASE UpdateCount(n)
  BY <1>6, NAssumption DEF TypeOK, UpdateCount, Nodes, cluster, loader, store, request, handler
<1>7. CASE Connect(n)
  <2>1. pool[n] \in 0 .. N /\ pool[n] < N
    BY <1>7 DEF TypeOK, PeersInv, Connect
  <2>2. pool[n] + 1 \in 0 .. N
    BY <2>1, NAssumption
  <2>3. pool' \in [Nodes -> 0 .. N]
    BY <1>7, <2>2 DEF TypeOK, Connect
  <2>4. update' \in [Nodes -> {"no", "chosen", "locked", "meStored", "countStored", "ready",
                               "dropped"}]
    BY <1>7 DEF TypeOK, Connect
  <2> QED
    BY <1>7, <2>3, <2>4 DEF TypeOK, Connect, loader, store, request, handler
<1>8. CASE InitCall(n)
  BY <1>8, NAssumption DEF TypeOK, InitCall, Nodes, cluster, loader, store, request, handler, StartLoader
<1>9. CASE InitUpdate(n)
  BY <1>9, NAssumption DEF TypeOK, InitUpdate, Nodes, cluster, loader, store, request, handler
<1>10. CASE InitResume(n)
  BY <1>10, NAssumption DEF TypeOK, InitResume, Nodes, cluster, loader, store, request, handler, StartLoader
<1>11. CASE LoadCount(n)
  BY <1>11, NAssumption DEF TypeOK, LoadCount, Nodes, cluster, loader, store, request, handler
<1>12. CASE LoadRows(n)
  <2>1. load_state' \in [Nodes -> {"INIT", "LOADING", "COUNTED", "LOADED"}]
    BY <1>12 DEF TypeOK, LoadRows
  <2>2. kv' \in [Nodes -> [Keys -> Requests \cup {Row, None}]]
    <3>1. PICK mine \in SUBSET Rows :
            kv' = [kv EXCEPT ![n] = [k \in Keys |-> IF k \in mine THEN Row ELSE @[k]]]
      BY <1>12 DEF LoadRows
    <3> QED
      BY <3>1 DEF TypeOK
  <2>3. UNCHANGED <<cluster, inits, lcount, zsets, request, handler, failures>>
    BY <1>12 DEF LoadRows
  <2> QED
    BY <2>1, <2>2, <2>3 DEF TypeOK, cluster, request, handler
<1>13. CASE InitDropped(n)
  <2>1. update' \in [Nodes -> {"no", "chosen", "locked", "meStored", "countStored", "ready",
                               "dropped"}]
    BY <1>13 DEF TypeOK, InitDropped
  <2>2. pool' \in [Nodes -> 0 .. N]
    BY <1>13, NAssumption DEF TypeOK, InitDropped
  <2> QED
    BY <1>13, <2>1, <2>2 DEF TypeOK, InitDropped, store, request, handler
<1> QED
  BY <1>1, <1>2, <1>3, <1>4, <1>5, <1>6, <1>7, <1>8, <1>9, <1>10, <1>11, <1>12, <1>13 DEF PeerStep, Configure, Loading

LEMMA ArriveTyped ==
    ASSUME TypeOK, NEW r \in Requests, NEW n \in Nodes, Arrive(r, n)
    PROVE  TypeOK'
BY DEF TypeOK, Arrive, Nodes, cluster, loader, store

LEMMA HandleTyped ==
    ASSUME TypeOK, NEW r \in Requests, Handle(r)
    PROVE  TypeOK'
<1>1. CASE ReadCount(r)
  BY <1>1, NAssumption DEF TypeOK, ReadCount, Nodes, cluster, loader, store, request
<1>2. CASE ReadMeSingle(r)
  <2>1. stage' \in [Requests -> [Nodes -> Stages]]
    <3>1. stage' = stage \/ stage' = [stage EXCEPT ![r] =
                [s \in Nodes |-> IF Group(r, s) # {} THEN "getClient" ELSE "none"]]
      BY <1>2 DEF ReadMeSingle
    <3>2. [s \in Nodes |-> IF Group(r, s) # {} THEN "getClient" ELSE "none"] \in [Nodes -> Stages]
      BY DEF Stages
    <3>3. stage \in [Requests -> [Nodes -> Stages]]
      BY DEF TypeOK, Stages
    <3> QED
      BY <3>1, <3>2, <3>3
  <2>2. own' \in [Requests -> Nodes \cup {None}]
    BY <1>2 DEF TypeOK, ReadMeSingle
  <2> QED
    BY <1>2, <2>1, <2>2, NAssumption DEF Stages, TypeOK, ReadMeSingle, cluster, loader, store, request
<1>3. CASE ReadMeMany(r)
  BY <1>3, NAssumption DEF TypeOK, ReadMeMany, Nodes, cluster, loader, store, request
<1>4. CASE Fork(r)
  <2>1. PICK s \in forks[r] :
          /\ forks' = [forks EXCEPT ![r] = @ \ {s}]
          /\ stage' = IF me[node[r]] # s THEN [stage EXCEPT ![r][s] = "getClient"] ELSE stage
    BY <1>4 DEF Fork
  <2>2. s \in Nodes
    BY DEF TypeOK
  <2>3. stage' \in [Requests -> [Nodes -> Stages]]
    BY <2>1, <2>2, StageType DEF Stages, TypeOK
  <2>4. forks' \in [Requests -> SUBSET Nodes]
    BY <2>1 DEF TypeOK
  <2> QED
    BY <1>4, <2>3, <2>4 DEF Stages, TypeOK, Fork, cluster, loader, store, request
<1>5. CASE ServeHere(r)
  BY <1>5, NAssumption, ServeTyped DEF TypeOK, ServeHere, Values, cluster, loader, store, request
<1>6. CASE Answer(r)
  BY <1>6, NAssumption DEF TypeOK, Answer, Nodes, cluster, loader, store, request
<1> QED
  BY <1>1, <1>2, <1>3, <1>4, <1>5, <1>6 DEF Handle

LEMMA CallTyped ==
    ASSUME TypeOK, NEW r \in Requests, NEW s \in Nodes, CallStep(r, s)
    PROVE  TypeOK'
<1>1. CASE Send(r, s)
  BY <1>1, NAssumption DEF TypeOK, Send, Nodes, cluster, loader, store, request
<1>2. CASE Remote(r, s)
  BY <1>2, NAssumption, ServeTyped DEF TypeOK, Remote, Values, cluster, loader, store, request
<1>3. CASE Reply(r, s)
  BY <1>3, NAssumption DEF TypeOK, Reply, Nodes, cluster, loader, store, request
<1>4. CASE Lose(r, s)
  <2>1. stage' \in [Requests -> [Nodes -> Stages]]
    BY <1>4, StageType DEF Lose, Stages
  <2>2. failures' \in Nat
    BY <1>4 DEF TypeOK, Lose
  <2> QED
    BY <1>4, <2>1, <2>2, SMTT(30) DEF Stages, TypeOK, Lose, cluster, loader, store, request
<1>5. CASE Timeout(r, s)
  <2>1. stage' \in [Requests -> [Nodes -> Stages]]
    BY <1>5, StageType DEF Timeout, Stages
  <2>2. failures' \in Nat
    BY <1>5 DEF TypeOK, Timeout
  <2> QED
    BY <1>5, <2>1, <2>2, SMTT(30) DEF Stages, TypeOK, Timeout, cluster, loader, store, request
<1>6. CASE GetClientPanics(r, s)
  <2>1. stage' \in [Requests -> [Nodes -> Stages]]
    BY <1>6, StageType DEF GetClientPanics, Stages
  <2>2. pc' = [pc EXCEPT ![r] = "died"] \/ pc' = pc
    BY <1>6 DEF GetClientPanics
  <2> QED
    BY <1>6, <2>1, <2>2 DEF Stages, TypeOK, GetClientPanics, cluster, loader, store, request
<1> QED
  BY <1>1, <1>2, <1>3, <1>4, <1>5, <1>6 DEF CallStep, Exchange

\* The stages of the calls of a request whose client goes away.
LEMMA Dropped ==
    ASSUME TypeOK, NEW r \in Requests, Disconnect(r)
    PROVE  /\ stage' \in [Requests -> [Nodes -> Stages]]
           /\ \A q \in Requests : q # r => stage'[q] = stage[q] /\ pc'[q] = pc[q]
           /\ \A s \in Nodes : stage'[r][s] # stage[r][s] => stage'[r][s] \in {"failed", "late"}
           /\ pc[r] = "wait" /\ pc'[r] = "died"
<1>1. stage \in [Requests -> [Nodes -> Stages]]
  BY DEF TypeOK, Stages
<1>2. pc[r] = "wait" /\ pc' = [pc EXCEPT ![r] = "died"]
  BY DEF Disconnect
<1>3. CASE Single(r)
  <2> DEFINE Left == [s \in Nodes |-> CASE stage[r][s] = "sent"                   -> "late"
                                          [] stage[r][s] \in {"getClient", "served"} -> "failed"
                                          [] OTHER                                   -> stage[r][s]]
  <2>1. stage' = [stage EXCEPT ![r] = Left]
    BY <1>1, <1>3 DEF Disconnect
  <2>2. Left \in [Nodes -> Stages]
    BY <1>1 DEF Stages
  <2>3. \A s \in Nodes : Left[s] # stage[r][s] => Left[s] \in {"failed", "late"}
    OBVIOUS
  <2> HIDE DEF Left
  <2>4. stage' \in [Requests -> [Nodes -> Stages]] /\ stage'[r] = Left
    BY <1>1, <2>1, <2>2
  <2>5. \A q \in Requests : q # r => stage'[q] = stage[q]
    BY <1>1, <2>1
  <2> QED
    BY <1>2, <2>3, <2>4, <2>5 DEF TypeOK
<1>4. CASE ~Single(r)
  <2>1. stage' = stage
    BY <1>4 DEF Disconnect
  <2> QED
    BY <1>1, <1>2, <2>1 DEF TypeOK
<1> QED
  BY <1>3, <1>4

LEMMA DisconnectTyped ==
    ASSUME TypeOK, NEW r \in Requests, Disconnect(r)
    PROVE  TypeOK'
<1>1. stage' \in [Requests -> [Nodes -> Stages]]
  BY Dropped
<1>2. pc' = [pc EXCEPT ![r] = "died"]
  BY DEF Disconnect
<1> QED
  BY <1>1, <1>2 DEF Stages, TypeOK, Disconnect, cluster, loader, store, request

LEMMA TypeStep == TypeOK /\ PeersInv /\ [Next]_vars => TypeOK'
<1> SUFFICES ASSUME TypeOK, PeersInv, [Next]_vars PROVE TypeOK'
  OBVIOUS
<1>1. CASE UNCHANGED vars
  BY <1>1 DEF TypeOK, vars, cluster, loader, store, request, handler
<1> QED
  BY <1>1, Steps, PeerTyped, ArriveTyped, HandleTyped, DisconnectTyped, CallTyped

-----------------------------------------------------------------------------
(* Steps of the nodes. *)

LEMMA InitIInv == Init => IInv
BY NAssumption
   DEF Init, FreshNodes, NothingStored, NoRequests, IInv, PeersInv, OneKey, Before, ReadInv, ForkInv, CallInv, KeyInv, AnswerInv,
       RoutedToOwner, Single, SingleOps, hyper_handler, Configured, Nodes

\* The task of the start begins update_peers at most.
LEMMA StartMay ==
    ASSUME TypeOK, NEW n \in Nodes, Start(n)
    PROVE  /\ \A i \in Nodes : update'[i] = update[i] \/ (update[i] = "no" /\ update'[i] = "chosen")
           /\ UNCHANGED <<me, count, pool>>
<1>0. /\ UNCHANGED <<me, count, pool>>
      /\ update' = IF MayUpdate(n) THEN [update EXCEPT ![n] = "chosen"] ELSE update
  BY DEF Start
<1>1. CASE MayUpdate(n)
  <2>1. update' = [update EXCEPT ![n] = "chosen"] /\ update[n] = "no"
    BY <1>0, <1>1 DEF MayUpdate
  <2>2. \A i \in Nodes : update'[i] = IF i = n THEN "chosen" ELSE update[i]
    BY <2>1 DEF TypeOK
  <2> QED
    BY <1>0, <2>1, <2>2
<1>2. CASE ~MayUpdate(n)
  BY <1>0, <1>2
<1> QED
  BY <1>1, <1>2

LEMMA PeersPeers ==
    ASSUME TypeOK, PeersInv, NEW n \in Nodes, PeerStep(n)
    PROVE  PeersInv'
<1>1. CASE UpdateCluster(n)
  BY <1>1, NAssumption DEF UpdateCluster, TypeOK, PeersInv, Configured, Nodes, cluster
<1>2. CASE Listen(n)
  BY <1>2, NAssumption DEF Listen, TypeOK, PeersInv, Configured, Nodes, cluster
<1>3. CASE Start(n)
  <2>1. /\ \A i \in Nodes : update'[i] = update[i] \/ (update[i] = "no" /\ update'[i] = "chosen")
        /\ UNCHANGED <<me, count, pool>>
    BY <1>3, StartMay
  <2> QED
    BY <2>1 DEF PeersInv, Configured
<1>4. CASE UpdateLock(n)
  BY <1>4, NAssumption DEF UpdateLock, TypeOK, PeersInv, Configured, Nodes, cluster
<1>5. CASE UpdateMe(n)
  BY <1>5, NAssumption DEF UpdateMe, TypeOK, PeersInv, Configured, Nodes, cluster
<1>6. CASE UpdateCount(n)
  BY <1>6, NAssumption DEF UpdateCount, TypeOK, PeersInv, Configured, Nodes, cluster
<1>7. CASE Connect(n)
  <2>1. pool[n] \in 0 .. N /\ pool[n] < N
    BY <1>7 DEF TypeOK, PeersInv, Connect
  <2>2. pool[n] + 1 = N \/ pool[n] + 1 < N
    BY <2>1, NAssumption
  <2>3. \A m \in Nodes : /\ me'[m] = me[m] /\ count'[m] = count[m]
                         /\ m # n => pool'[m] = pool[m] /\ update'[m] = update[m]
    BY <1>7 DEF TypeOK, Connect
  <2>4. /\ pool'[n] = pool[n] + 1
        /\ update'[n] = IF pool[n] + 1 = N THEN "ready" ELSE "countStored"
    BY <1>7 DEF TypeOK, Connect
  <2>5. update[n] = "countStored"
    BY <1>7 DEF Connect
  <2> QED
    BY <2>2, <2>3, <2>4, <2>5 DEF PeersInv, Configured
<1>8. CASE InitCall(n)
  BY <1>8, NAssumption DEF InitCall, TypeOK, PeersInv, Configured, Nodes, cluster
<1>9. CASE InitUpdate(n)
  BY <1>9, NAssumption DEF InitUpdate, MayUpdate, TypeOK, PeersInv, Configured, Nodes, cluster
<1>10. CASE InitResume(n)
  BY <1>10, NAssumption DEF InitResume, TypeOK, PeersInv, Configured, Nodes, cluster
<1>11. CASE LoadCount(n)
  BY <1>11, NAssumption DEF LoadCount, TypeOK, PeersInv, Configured, Nodes, cluster
<1>12. CASE LoadRows(n)
  BY <1>12, NAssumption DEF LoadRows, TypeOK, PeersInv, Configured, Nodes, cluster
<1>13. CASE InitDropped(n)
  BY <1>13, NAssumption DEF InitDropped, TypeOK, PeersInv, Configured, Nodes
<1> QED
  BY <1>1, <1>2, <1>3, <1>4, <1>5, <1>6, <1>7, <1>8, <1>9, <1>10, <1>11, <1>12, <1>13 DEF PeerStep, Configure, Loading

\* No handler loses what it relies on: stages do not go back, a count is final,
\* and so is me but for the 0 of the beginning.
Onwards == /\ UNCHANGED <<request, handler>>
           /\ \A n \in Nodes : /\ update[n] \in Configured => update'[n] \in Configured
                               /\ count[n] = N => count'[n] = N
                               /\ me[n] # 0 => me'[n] = me[n]

LEMMA PeersOnwards ==
    ASSUME TypeOK, PeersInv, NEW n \in Nodes, PeerStep(n)
    PROVE  Onwards
<1>1. CASE UpdateCluster(n)
  BY <1>1, NAssumption DEF UpdateCluster, TypeOK, PeersInv, Onwards, Configured, Nodes, cluster, request, handler
<1>2. CASE Listen(n)
  BY <1>2, NAssumption DEF Listen, TypeOK, PeersInv, Onwards, Configured, Nodes, cluster, request, handler
<1>3. CASE Start(n)
  <2>1. UNCHANGED <<request, handler>>
    BY <1>3 DEF Start
  <2> QED
    BY <1>3, <2>1, StartMay DEF Onwards, Configured
<1>4. CASE UpdateLock(n)
  BY <1>4, NAssumption DEF UpdateLock, TypeOK, PeersInv, Onwards, Configured, Nodes, cluster, request, handler
<1>5. CASE UpdateMe(n)
  BY <1>5, NAssumption DEF UpdateMe, TypeOK, PeersInv, Onwards, Configured, Nodes, cluster, request, handler
<1>6. CASE UpdateCount(n)
  BY <1>6, NAssumption DEF UpdateCount, TypeOK, PeersInv, Onwards, Configured, Nodes, cluster, request, handler
<1>7. CASE Connect(n)
  BY <1>7, NAssumption DEF Connect, TypeOK, PeersInv, Onwards, Configured, Nodes, cluster, request, handler
<1>8. CASE InitCall(n)
  BY <1>8, NAssumption DEF InitCall, TypeOK, PeersInv, Onwards, Configured, Nodes, cluster, request, handler
<1>9. CASE InitUpdate(n)
  BY <1>9, NAssumption DEF InitUpdate, MayUpdate, TypeOK, PeersInv, Onwards, Configured, Nodes, cluster, request, handler
<1>10. CASE InitResume(n)
  BY <1>10, NAssumption DEF InitResume, TypeOK, PeersInv, Onwards, Configured, Nodes, cluster, request, handler
<1>11. CASE LoadCount(n)
  BY <1>11, NAssumption DEF LoadCount, TypeOK, PeersInv, Onwards, Configured, Nodes, cluster, request, handler
<1>12. CASE LoadRows(n)
  BY <1>12, NAssumption DEF LoadRows, TypeOK, PeersInv, Onwards, Configured, Nodes, cluster, request, handler
<1>13. CASE InitDropped(n)
  BY <1>13, NAssumption DEF InitDropped, TypeOK, PeersInv, Onwards, Configured, Nodes, request, handler
<1> QED
  BY <1>1, <1>2, <1>3, <1>4, <1>5, <1>6, <1>7, <1>8, <1>9, <1>10, <1>11, <1>12, <1>13 DEF PeerStep, Configure, Loading

LEMMA PeerInv ==
    ASSUME TypeOK, IInv, NEW n \in Nodes, PeerStep(n)
    PROVE  IInv'
<1>1. PeersInv'
  BY PeersPeers DEF IInv
<1>2. Onwards
  BY PeersOnwards DEF IInv
<1>3. OneKey' /\ Before' /\ AnswerInv' /\ RoutedToOwner'
  BY <1>2 DEF IInv, OneKey, Before, AnswerInv, RoutedToOwner, Single, Onwards, request, handler
<1>4. ReadInv'
  BY <1>2 DEF TypeOK, IInv, ReadInv, Onwards, request, handler
<1>5. ForkInv' /\ KeyInv'
  BY <1>2 DEF IInv, ForkInv, KeyInv, ShardOf, Onwards, request, handler
<1>6. CallInv'
  BY <1>2 DEF TypeOK, IInv, CallInv, Onwards, request, handler
<1> QED
  BY <1>1, <1>3, <1>4, <1>5, <1>6 DEF IInv

-----------------------------------------------------------------------------
(* Steps of the requests. *)

LEMMA ShardType ==
    ASSUME TypeOK, NEW k \in Keys, NEW r \in Requests
    PROVE  ShardOf(k, seen[r]) \in Nodes
BY NAssumption, KeysAssumption DEF ShardOf, Nodes

\* The me a handler reads after the final count is its node.
LEMMA MeRead ==
    ASSUME TypeOK, IInv, NEW r \in Requests, pc[r] = "readMe"
    PROVE  me[node[r]] \in Nodes /\ (seen[r] = N => me[node[r]] = node[r])
<1>1. node[r] \in Nodes
  BY DEF TypeOK
<1>2. seen[r] = N => count[node[r]] = N
  BY DEF IInv, ReadInv
<1>3. count[node[r]] = N => me[node[r]] = node[r]
  BY <1>1 DEF IInv, PeersInv, Configured
<1> QED
  BY <1>1, <1>2, <1>3 DEF TypeOK

\* A group that a batch or list has still to look at is not the node's own when
\* the handler reads me once more.
LEMMA ForkRead ==
    ASSUME TypeOK, IInv, NEW r \in Requests, pc[r] = "fork", NEW s \in forks[r]
    PROVE  s \in Nodes /\ me[node[r]] # s /\ update[node[r]] \in Configured
<1>1. s \in Nodes /\ node[r] \in Nodes
  BY DEF TypeOK
<1>2. pc[r] = "fork" /\ s # own[r]
  BY DEF IInv, ForkInv
<1>3. CASE seen[r] = N
  <2>1. count[node[r]] = N /\ own[r] = node[r]
    BY <1>2, <1>3 DEF IInv, ReadInv
  <2>2. me[node[r]] = node[r] /\ update[node[r]] \in Configured
    BY <1>1, <2>1 DEF IInv, PeersInv, Configured
  <2> QED
    BY <1>1, <1>2, <2>1, <2>2
<1>4. CASE seen[r] = 0
  <2>1. s = 0
    BY <1>4 DEF IInv, ForkInv, ShardOf
  <2>2. me[node[r]] = own[r] /\ own[r] # 0
    BY <1>2, <2>1 DEF IInv, ReadInv
  <2> QED
    BY <1>1, <2>1, <2>2 DEF IInv, PeersInv
<1> QED
  BY <1>3, <1>4 DEF TypeOK

LEMMA ArriveInv ==
    ASSUME TypeOK, IInv, NEW r \in Requests, NEW n \in Nodes, Arrive(r, n)
    PROVE  IInv'
<1>1. PeersInv' /\ OneKey' /\ Before'
  <2>1. PeersInv'
    BY DEF IInv, PeersInv, Arrive, cluster
  <2>2. OneKey'
    BY DEF TypeOK, IInv, OneKey, Arrive, Single
  <2>3. Before'
    BY DEF TypeOK, IInv, Before, Arrive
  <2> QED
    BY <2>1, <2>2, <2>3
<1>2. AnswerInv' /\ RoutedToOwner'
  BY DEF TypeOK, IInv, AnswerInv, Arrive, cluster, request, loader, Before, RoutedToOwner
<1>3. ReadInv' /\ CallInv'
  BY DEF TypeOK, IInv, ReadInv, Arrive, cluster, request, loader, CallInv, Before
<1>4. ForkInv' /\ KeyInv'
  BY DEF TypeOK, IInv, ForkInv, Arrive, cluster, request, ShardOf, loader, KeyInv, Group, Before
<1> QED
  BY <1>1, <1>2, <1>3, <1>4 DEF IInv

LEMMA ReadCountInv ==
    ASSUME TypeOK, IInv, NEW r \in Requests, ReadCount(r)
    PROVE  IInv'
<1>1. PeersInv' /\ OneKey' /\ Before'
  BY DEF IInv, PeersInv, ReadCount, cluster, TypeOK, OneKey, request, Single, loader, Before
<1>2. AnswerInv' /\ RoutedToOwner'
  BY DEF TypeOK, IInv, AnswerInv, ReadCount, cluster, request, loader, RoutedToOwner, Before
<1>3. ReadInv' /\ CallInv'
  BY DEF TypeOK, IInv, ReadInv, ReadCount, cluster, request, loader, CallInv
<1>4. KeyInv'
  BY DEF TypeOK, IInv, KeyInv, ReadCount, cluster, request, ShardOf, Group, loader
<1>5. ForkInv'
  <2>1. forks' = forks /\ forks[r] = {}
    BY DEF IInv, ForkInv, ReadCount
  <2>2. \A q \in Requests : q # r => pc'[q] = pc[q] /\ seen'[q] = seen[q]
    BY DEF TypeOK, ReadCount
  <2>3. UNCHANGED <<keys, own>>
    BY DEF ReadCount, request
  <2> QED
    BY <2>1, <2>2, <2>3 DEF IInv, ForkInv, ShardOf
<1> QED
  BY <1>1, <1>2, <1>3, <1>4, <1>5 DEF IInv

LEMMA ReadMeSingleInv ==
    ASSUME TypeOK, IInv, NEW r \in Requests, ReadMeSingle(r)
    PROVE  IInv'
<1>1. PeersInv' /\ OneKey' /\ Before'
  BY NAssumption DEF IInv, PeersInv, ReadMeSingle, cluster, TypeOK, OneKey, request, Single,
      loader, Before
<1>2. AnswerInv' /\ RoutedToOwner'
  BY NAssumption DEF TypeOK, IInv, AnswerInv, ReadMeSingle, cluster, request, loader, Before,
      RoutedToOwner
<1>3. ForkInv'
  BY NAssumption DEF TypeOK, IInv, ForkInv, ReadMeSingle, cluster, request, ShardOf, loader
<1>4. ReadInv'
  <2>1. \A q \in Requests : q # r => pc'[q] = pc[q] /\ own'[q] = own[q]
    BY DEF TypeOK, ReadMeSingle
  <2>2. pc'[r] = "serve" /\ pc[r] = "readMe" /\ own'[r] = me[node[r]]
    BY DEF TypeOK, ReadMeSingle
  <2>3. UNCHANGED <<me, count, node, seen>>
    BY DEF ReadMeSingle, cluster, request
  <2> QED
    BY <2>1, <2>2, <2>3, MeRead DEF IInv, ReadInv
<1>5. CallInv'
  <2> SUFFICES ASSUME NEW q \in Requests, NEW s \in Nodes, stage'[q][s] = "getClient"
               PROVE  update[node[q]] \in Configured
    BY DEF CallInv, ReadMeSingle, cluster, request
  <2>1. CASE stage[q][s] = "getClient"
    BY <2>1 DEF IInv, CallInv
  <2>2. CASE stage[q][s] # "getClient"
    <3>1. q = r /\ Group(r, me[node[r]]) = {} /\ Group(r, s) # {}
      <4>1. stage' # stage
        BY <2>2
      <4>2. /\ Group(r, me[node[r]]) = {}
            /\ stage' = [stage EXCEPT ![r] =
                 [t \in Nodes |-> IF Group(r, t) # {} THEN "getClient" ELSE "none"]]
        BY <4>1 DEF ReadMeSingle
      <4>3. q # r => stage'[q] = stage[q]
        BY <4>2
      <4>4. q = r
        BY <2>2, <4>3
      <4>5. stage'[r][s] = IF Group(r, s) # {} THEN "getClient" ELSE "none"
        BY <4>2 DEF TypeOK
      <4> QED
        BY <4>2, <4>4, <4>5
    <3>2. CASE seen[r] = N
      BY <3>1, <3>2 DEF TypeOK, IInv, ReadInv, PeersInv, Configured, ReadMeSingle
    <3>3. CASE seen[r] = 0
      <4>1. s = 0 /\ me[node[r]] # 0
        BY <3>1, <3>3 DEF Group, ShardOf
      <4> QED
        BY <3>1, <4>1 DEF TypeOK, IInv, PeersInv
    <3> QED
      BY <3>2, <3>3 DEF TypeOK
  <2> QED
    BY <2>1, <2>2
<1>6. KeyInv'
  <2>1. \A q \in Requests : q # r => /\ pc'[q] = pc[q] /\ own'[q] = own[q]
                                     /\ stage'[q] = stage[q]
    BY DEF TypeOK, ReadMeSingle
  <2>2. UNCHANGED <<forks, done, seen, keys>>
    BY DEF ReadMeSingle, request
  <2>3. PICK k \in Keys : keys[r] = {k}
    BY DEF IInv, OneKey, ReadMeSingle
  <2>4. pc'[r] = "serve" /\ own'[r] = me[node[r]]
    BY DEF TypeOK, ReadMeSingle
  <2>5. ShardOf(k, seen[r]) = me[node[r]] \/ stage'[r][ShardOf(k, seen[r])] = "getClient"
    <3>1. k \in Group(r, ShardOf(k, seen[r])) /\ ShardOf(k, seen[r]) \in Nodes
      BY <2>3, ShardType DEF Group
    <3>2. CASE Group(r, me[node[r]]) # {}
      BY <3>2, <2>3 DEF Group
    <3>3. CASE Group(r, me[node[r]]) = {}
      <4>1. stage' = [stage EXCEPT ![r] =
                        [s \in Nodes |-> IF Group(r, s) # {} THEN "getClient" ELSE "none"]]
        BY <3>3 DEF ReadMeSingle
      <4> QED
        BY <3>1, <4>1 DEF TypeOK
    <3> QED
      BY <3>2, <3>3
  <2> QED
    BY <2>1, <2>2, <2>3, <2>4, <2>5 DEF IInv, KeyInv, ShardOf
<1> QED
  BY <1>1, <1>2, <1>3, <1>4, <1>5, <1>6 DEF IInv

LEMMA ReadMeManyInv ==
    ASSUME TypeOK, IInv, NEW r \in Requests, ReadMeMany(r)
    PROVE  IInv'
<1>1. PeersInv' /\ OneKey' /\ Before'
  BY NAssumption DEF IInv, PeersInv, ReadMeMany, cluster, TypeOK, OneKey, request, Single, loader,
      Before
<1>2. AnswerInv' /\ RoutedToOwner'
  BY NAssumption DEF TypeOK, IInv, AnswerInv, ReadMeMany, cluster, request, loader, Before,
      RoutedToOwner
<1>3. CallInv'
  BY NAssumption DEF TypeOK, IInv, CallInv, ReadMeMany, cluster, request, loader
<1>4. ForkInv'
  BY NAssumption DEF TypeOK, IInv, ForkInv, ReadMeMany, cluster, request, ShardOf, loader, Group
<1>5. ReadInv'
  <2>1. \A q \in Requests : q # r => pc'[q] = pc[q] /\ own'[q] = own[q]
    BY DEF TypeOK, ReadMeMany
  <2>2. pc'[r] = "fork" /\ pc[r] = "readMe" /\ own'[r] = me[node[r]]
    BY DEF TypeOK, ReadMeMany
  <2>3. UNCHANGED <<me, count, node, seen>>
    BY DEF ReadMeMany, cluster, request
  <2> QED
    BY <2>1, <2>2, <2>3, MeRead DEF IInv, ReadInv
<1>6. KeyInv'
  <2>1. \A q \in Requests : q # r => /\ pc'[q] = pc[q] /\ own'[q] = own[q]
                                     /\ forks'[q] = forks[q]
    BY DEF TypeOK, ReadMeMany
  <2>2. UNCHANGED <<stage, done, seen, keys>>
    BY DEF ReadMeMany, request
  <2>3. pc'[r] = "fork" /\ own'[r] = me[node[r]]
    BY DEF TypeOK, ReadMeMany
  <2>4. \A k \in keys[r] : ShardOf(k, seen[r]) # me[node[r]] => ShardOf(k, seen[r]) \in forks'[r]
    <3> SUFFICES ASSUME NEW k \in keys[r], ShardOf(k, seen[r]) # me[node[r]]
                 PROVE  ShardOf(k, seen[r]) \in forks'[r]
      OBVIOUS
    <3>1. k \in Keys
      BY DEF TypeOK
    <3>2. k \in Group(r, ShardOf(k, seen[r])) /\ ShardOf(k, seen[r]) \in Nodes
      BY <3>1, ShardType DEF Group
    <3>3. forks'[r] = {s \in Nodes \ {me[node[r]]} : Group(r, s) # {}}
      BY DEF TypeOK, ReadMeMany
    <3> QED
      BY <3>2, <3>3
  <2> QED
    BY <2>1, <2>2, <2>3, <2>4 DEF IInv, KeyInv, ShardOf
<1> QED
  BY <1>1, <1>2, <1>3, <1>4, <1>5, <1>6 DEF IInv

LEMMA ForkStepInv ==
    ASSUME TypeOK, IInv, NEW r \in Requests, Fork(r)
    PROVE  IInv'
<1>1. PeersInv' /\ OneKey' /\ Before'
  BY DEF IInv, PeersInv, Fork, cluster, TypeOK, OneKey, request, Single, loader, Before
<1>2. AnswerInv' /\ RoutedToOwner'
  BY DEF TypeOK, IInv, AnswerInv, Fork, cluster, request, loader, RoutedToOwner
<1>3. ReadInv'
  BY DEF TypeOK, IInv, ReadInv, Fork, cluster, request, loader
<1>4. ForkInv'
  BY DEF TypeOK, IInv, ForkInv, Fork, cluster, request, ShardOf, loader
<1>5. CallInv'
  <2>1. PICK s \in forks[r] :
          /\ forks' = [forks EXCEPT ![r] = @ \ {s}]
          /\ stage' = IF me[node[r]] # s THEN [stage EXCEPT ![r][s] = "getClient"] ELSE stage
    BY DEF Fork
  <2>2. s \in Nodes /\ me[node[r]] # s /\ update[node[r]] \in Configured
    BY ForkRead DEF Fork
  <2>3. \A q \in Requests, t \in Nodes : stage'[q][t] = "getClient" => stage[q][t] = "getClient" \/ q = r
    BY <2>1, <2>2 DEF TypeOK
  <2> QED
    BY <2>2, <2>3 DEF IInv, CallInv, Fork, cluster, request
<1>6. KeyInv'
  <2>1. PICK s \in forks[r] :
          /\ forks' = [forks EXCEPT ![r] = @ \ {s}]
          /\ stage' = IF me[node[r]] # s THEN [stage EXCEPT ![r][s] = "getClient"] ELSE stage
    BY DEF Fork
  <2>2. s \in Nodes /\ me[node[r]] # s /\ update[node[r]] \in Configured
    BY ForkRead DEF Fork
  <2>3. \A q \in Requests : q # r => forks'[q] = forks[q] /\ stage'[q] = stage[q]
    BY <2>1, <2>2 DEF TypeOK
  <2>4. forks'[r] = forks[r] \ {s}
    BY <2>1 DEF TypeOK
  <2>5. stage'[r][s] = "getClient" /\ \A t \in Nodes : t # s => stage'[r][t] = stage[r][t]
    BY <2>1, <2>2 DEF TypeOK
  <2>6. UNCHANGED <<pc, own, done, seen, keys>>
    BY DEF Fork, request
  <2>7. \A k \in keys[r] : ShardOf(k, seen[r]) \in Nodes
    BY ShardType DEF TypeOK
  <2> QED
    BY <2>3, <2>4, <2>5, <2>6, <2>7 DEF IInv, KeyInv, ShardOf
<1> QED
  BY <1>1, <1>2, <1>3, <1>4, <1>5, <1>6 DEF IInv

LEMMA ServeHereInv ==
    ASSUME TypeOK, IInv, NEW r \in Requests, ServeHere(r)
    PROVE  IInv'
<1>1. PeersInv' /\ OneKey' /\ Before'
  BY NAssumption DEF IInv, PeersInv, ServeHere, cluster, TypeOK, OneKey, request, Single, loader,
      Serve, Before
<1>2. AnswerInv'
  BY NAssumption DEF TypeOK, IInv, AnswerInv, ServeHere, cluster, request, loader, Serve
<1>3. ReadInv' /\ CallInv'
  BY NAssumption DEF TypeOK, IInv, ReadInv, ServeHere, cluster, request, loader, Serve, CallInv
<1>4. ForkInv'
  BY NAssumption DEF TypeOK, IInv, ForkInv, ServeHere, cluster, request, ShardOf, loader, Serve
<1>5. KeyInv'
  <2>1. \A k \in Keys : done'[r][k] = IF k \in Group(r, own[r]) THEN node[r] ELSE done[r][k]
    BY DEF TypeOK, ServeHere, Serve
  <2>2. \A q \in Requests : q # r => done'[q] = done[q] /\ pc'[q] = pc[q]
    BY DEF TypeOK, ServeHere, Serve
  <2>3. UNCHANGED <<own, seen, keys, forks, stage, node>> /\ pc'[r] = "wait"
    BY DEF TypeOK, ServeHere, request
  <2>4. pc[r] \in {"serve", "fork"} /\ forks[r] = {}
    BY DEF IInv, ForkInv, ServeHere
  <2>5. node[r] \in Nodes /\ node[r] # None
    BY ValuesAssumption DEF TypeOK
  <2>6. ASSUME NEW k \in keys[r]
        PROVE  \/ done'[r][k] # None
               \/ stage[r][ShardOf(k, seen[r])] \in {"getClient", "sent", "failed", "late"}
    <3>1. k \in Keys
      BY DEF TypeOK
    <3>2. own[r] = ShardOf(k, seen[r]) => k \in Group(r, own[r])
      BY DEF Group
    <3> QED
      BY <2>1, <2>4, <2>5, <3>1, <3>2 DEF IInv, KeyInv
  <2> QED
    BY <2>2, <2>3, <2>6 DEF IInv, KeyInv, ShardOf
<1>6. RoutedToOwner'
  <2>1. \A k \in Keys : done'[r][k] = IF k \in Group(r, own[r]) THEN node[r] ELSE done[r][k]
    BY DEF TypeOK, ServeHere, Serve
  <2>2. \A q \in Requests : q # r => done'[q] = done[q] /\ pc'[q] = pc[q]
    BY DEF TypeOK, ServeHere, Serve
  <2>3. UNCHANGED <<own, seen, keys, forks, stage, node>> /\ pc'[r] = "wait"
    BY DEF TypeOK, ServeHere, request
  <2>4. pc[r] \in {"serve", "fork"} /\ forks[r] = {}
    BY DEF IInv, ForkInv, ServeHere
  <2>5. node[r] \in Nodes /\ node[r] # None
    BY ValuesAssumption DEF TypeOK
  <2>6. \A k \in Group(r, own[r]) : seen[r] = N => node[r] = Shard[k]
    BY <2>4, NAssumption DEF IInv, ReadInv, Group, ShardOf
  <2> QED
    BY <2>1, <2>2, <2>3, <2>6 DEF IInv, RoutedToOwner
<1> QED
  BY <1>1, <1>2, <1>3, <1>4, <1>5, <1>6 DEF IInv

LEMMA AnswerStepInv ==
    ASSUME TypeOK, IInv, NEW r \in Requests, Answer(r)
    PROVE  IInv'
<1>1. PeersInv' /\ OneKey' /\ Before'
  BY DEF IInv, PeersInv, Answer, cluster, TypeOK, OneKey, request, Single, loader, Before
<1>2. AnswerInv' /\ RoutedToOwner'
  BY DEF TypeOK, IInv, AnswerInv, Answer, cluster, request, loader, RoutedToOwner
<1>3. ReadInv' /\ CallInv'
  BY DEF TypeOK, IInv, ReadInv, Answer, cluster, request, loader, CallInv
<1>4. ForkInv' /\ KeyInv'
  BY DEF TypeOK, IInv, ForkInv, Answer, cluster, request, ShardOf, loader, KeyInv, Group
<1> QED
  BY <1>1, <1>2, <1>3, <1>4 DEF IInv

LEMMA SendInv ==
    ASSUME TypeOK, IInv, NEW r \in Requests, NEW s \in Nodes, Send(r, s)
    PROVE  IInv'
<1>1. PeersInv' /\ OneKey' /\ Before'
  BY DEF IInv, PeersInv, Send, cluster, TypeOK, OneKey, request, Single, loader, Before
<1>2. AnswerInv' /\ RoutedToOwner'
  BY DEF TypeOK, IInv, AnswerInv, Send, cluster, request, loader, RoutedToOwner
<1>3. ReadInv' /\ CallInv'
  BY DEF TypeOK, IInv, ReadInv, Send, cluster, request, loader, CallInv
<1>4. ForkInv' /\ KeyInv'
  BY DEF TypeOK, IInv, ForkInv, Send, cluster, request, ShardOf, loader, KeyInv, Group
<1> QED
  BY <1>1, <1>2, <1>3, <1>4 DEF IInv

LEMMA RemoteInv ==
    ASSUME TypeOK, IInv, NEW r \in Requests, NEW s \in Nodes, Remote(r, s)
    PROVE  IInv'
<1>1. PeersInv' /\ OneKey' /\ Before'
  BY NAssumption DEF IInv, PeersInv, Remote, cluster, TypeOK, OneKey, request, Single, loader,
      Serve, Before
<1>2. AnswerInv'
  BY NAssumption DEF TypeOK, IInv, AnswerInv, Remote, cluster, request, loader, Serve
<1>3. ReadInv' /\ CallInv'
  BY NAssumption DEF TypeOK, IInv, ReadInv, Remote, cluster, request, loader, Serve, CallInv
<1>4. ForkInv'
  BY NAssumption DEF TypeOK, IInv, ForkInv, Remote, cluster, request, ShardOf, loader, Serve
<1>5. KeyInv'
  <2>1. \A k \in Keys : done'[r][k] = IF k \in Group(r, s) THEN s ELSE done[r][k]
    BY DEF TypeOK, Remote, Serve
  <2>2. \A q \in Requests : q # r => done'[q] = done[q] /\ stage'[q] = stage[q]
    BY DEF TypeOK, Remote, Serve
  <2>3. UNCHANGED <<own, seen, keys, forks, pc>>
    BY DEF Remote, request
  <2>4. s # None
    BY ValuesAssumption
  <2>5. \A t \in Nodes : t # s => stage'[r][t] = stage[r][t]
    BY DEF TypeOK, Remote
  <2>6. ASSUME NEW k \in keys[r]
        PROVE  /\ ShardOf(k, seen[r]) \in Nodes
               /\ done[r][k] # None \/ ShardOf(k, seen[r]) = s => done'[r][k] # None
    <3>1. k \in Keys
      BY DEF TypeOK
    <3> QED
      BY <2>1, <2>4, <3>1, ShardType DEF Group
  <2> QED
    BY <2>2, <2>3, <2>5, <2>6 DEF IInv, KeyInv, ShardOf
<1>6. RoutedToOwner'
  <2>1. \A k \in Keys : done'[r][k] = IF k \in Group(r, s) THEN s ELSE done[r][k]
    BY DEF TypeOK, Remote, Serve
  <2>2. \A q \in Requests : q # r => done'[q] = done[q] /\ stage'[q] = stage[q]
    BY DEF TypeOK, Remote, Serve
  <2>3. UNCHANGED <<own, seen, keys, forks, pc>>
    BY DEF Remote, request
  <2>4. s # None
    BY ValuesAssumption
  <2>5. \A k \in Group(r, s) : seen[r] = N => s = Shard[k]
    BY NAssumption DEF Group, ShardOf, Nodes
  <2> QED
    BY <2>1, <2>2, <2>3, <2>5 DEF IInv, RoutedToOwner
<1> QED
  BY <1>1, <1>2, <1>3, <1>4, <1>5, <1>6 DEF IInv

LEMMA ReplyInv ==
    ASSUME TypeOK, IInv, NEW r \in Requests, NEW s \in Nodes, Reply(r, s)
    PROVE  IInv'
<1>1. PeersInv' /\ OneKey' /\ Before'
  BY DEF IInv, PeersInv, Reply, cluster, TypeOK, OneKey, request, Single, loader, Before
<1>2. AnswerInv' /\ RoutedToOwner'
  BY DEF TypeOK, IInv, AnswerInv, Reply, cluster, request, loader, RoutedToOwner
<1>3. ReadInv' /\ CallInv'
  BY DEF TypeOK, IInv, ReadInv, Reply, cluster, request, loader, CallInv
<1>4. ForkInv' /\ KeyInv'
  BY DEF TypeOK, IInv, ForkInv, Reply, cluster, request, ShardOf, loader, KeyInv, Group
<1> QED
  BY <1>1, <1>2, <1>3, <1>4 DEF IInv

LEMMA LoseInv ==
    ASSUME TypeOK, IInv, NEW r \in Requests, NEW s \in Nodes, Lose(r, s)
    PROVE  IInv'
<1>1. PeersInv' /\ OneKey' /\ Before'
  BY DEF IInv, PeersInv, Lose, cluster, TypeOK, OneKey, request, Single, loader, Before
<1>2. AnswerInv' /\ RoutedToOwner'
  BY DEF TypeOK, IInv, AnswerInv, Lose, cluster, request, loader, RoutedToOwner
<1>3. ReadInv' /\ CallInv'
  BY DEF TypeOK, IInv, ReadInv, Lose, cluster, request, loader, CallInv
<1>4. ForkInv' /\ KeyInv'
  BY DEF TypeOK, IInv, ForkInv, Lose, cluster, request, ShardOf, loader, KeyInv, Group
<1> QED
  BY <1>1, <1>2, <1>3, <1>4 DEF IInv

LEMMA TimeoutInv ==
    ASSUME TypeOK, IInv, NEW r \in Requests, NEW s \in Nodes, Timeout(r, s)
    PROVE  IInv'
<1>1. PeersInv' /\ OneKey' /\ Before'
  BY DEF IInv, PeersInv, Timeout, cluster, TypeOK, OneKey, request, Single, loader, Before
<1>2. AnswerInv' /\ RoutedToOwner'
  BY DEF TypeOK, IInv, AnswerInv, Timeout, cluster, request, loader, RoutedToOwner
<1>3. ReadInv' /\ CallInv'
  BY DEF TypeOK, IInv, ReadInv, Timeout, cluster, request, loader, CallInv
<1>4. ForkInv' /\ KeyInv'
  BY DEF TypeOK, IInv, ForkInv, Timeout, cluster, request, ShardOf, loader, KeyInv, Group
<1> QED
  BY <1>1, <1>2, <1>3, <1>4 DEF IInv

LEMMA GetClientPanicsInv ==
    ASSUME TypeOK, IInv, NEW r \in Requests, NEW s \in Nodes, GetClientPanics(r, s)
    PROVE  IInv'
<1>0. /\ \A q \in Requests : pc'[q] = pc[q] \/ (q = r /\ pc'[q] = "died")
      /\ \A q \in Requests, t \in Nodes :
           stage'[q][t] = stage[q][t] \/ (q = r /\ t = s /\ stage'[q][t] = "failed")
      /\ stage[r][s] = "getClient"
  BY DEF GetClientPanics, TypeOK
<1>1. UNCHANGED <<cluster, loader, store, request, seen, forks, own, done, got, status>>
  BY DEF GetClientPanics
<1>2. pc[r] \notin {"idle", "readCount", "readMe", "answered"}
  BY <1>0 DEF IInv, Before, AnswerInv
<1>3. PeersInv' /\ OneKey' /\ Before'
  BY <1>0, <1>1, <1>2 DEF IInv, PeersInv, cluster, OneKey, request, Single, Before
<1>4. AnswerInv' /\ RoutedToOwner'
  BY <1>0, <1>1, <1>2 DEF IInv, AnswerInv, RoutedToOwner
<1>5. ReadInv' /\ CallInv'
  BY <1>0, <1>1 DEF IInv, ReadInv, cluster, request, CallInv
<1>6. ForkInv' /\ KeyInv'
  <2>1. \A q \in Requests : forks[q] # {} => pc'[q] \in {"fork", "died"}
    BY <1>0 DEF IInv, ForkInv
  <2>2. \A q \in Requests : \A k \in keys[q] : ShardOf(k, seen[q]) \in Nodes
    BY ShardType DEF TypeOK
  <2> QED
    BY <1>0, <1>1, <2>1, <2>2 DEF IInv, ForkInv, KeyInv, ShardOf, request
<1> QED
  BY <1>3, <1>4, <1>5, <1>6 DEF IInv

LEMMA DisconnectInv ==
    ASSUME TypeOK, IInv, NEW r \in Requests, Disconnect(r)
    PROVE  IInv'
<1>0. /\ \A q \in Requests : q # r => stage'[q] = stage[q] /\ pc'[q] = pc[q]
      /\ \A s \in Nodes : stage'[r][s] # stage[r][s] => stage'[r][s] \in {"failed", "late"}
      /\ pc[r] = "wait" /\ pc'[r] = "died"
  BY Dropped
<1>1. UNCHANGED <<cluster, loader, store, request, seen, forks, own, done, got, status>>
  BY DEF Disconnect
<1>2. PeersInv' /\ OneKey' /\ Before'
  BY <1>0, <1>1 DEF IInv, PeersInv, cluster, OneKey, request, Single, Before
<1>3. AnswerInv' /\ RoutedToOwner'
  BY <1>0, <1>1 DEF IInv, AnswerInv, RoutedToOwner
<1>4. ReadInv' /\ CallInv'
  BY <1>0, <1>1 DEF IInv, ReadInv, cluster, request, CallInv
<1>5. ForkInv' /\ KeyInv'
  BY <1>0, <1>1 DEF IInv, ForkInv, KeyInv, ShardOf, request
<1> QED
  BY <1>2, <1>3, <1>4, <1>5 DEF IInv

-----------------------------------------------------------------------------
(* The invariant, and what it implies. *)

LEMMA HandleInv ==
    ASSUME TypeOK, IInv, NEW r \in Requests, Handle(r)
    PROVE  IInv'
BY ReadCountInv, ReadMeSingleInv, ReadMeManyInv, ForkStepInv, ServeHereInv, AnswerStepInv
   DEF Handle

LEMMA CallStepInv ==
    ASSUME TypeOK, IInv, NEW r \in Requests, NEW s \in Nodes, CallStep(r, s)
    PROVE  IInv'
BY SendInv, RemoteInv, ReplyInv, GetClientPanicsInv, LoseInv, TimeoutInv DEF CallStep, Exchange

LEMMA InvStep == TypeOK /\ IInv /\ [Next]_vars => TypeOK' /\ IInv'
<1> SUFFICES ASSUME TypeOK, IInv, [Next]_vars PROVE TypeOK' /\ IInv'
  OBVIOUS
<1>1. TypeOK'
  BY TypeStep DEF IInv
<1>2. CASE UNCHANGED vars
  <2> USE <1>2 DEF vars, cluster, request, handler
  <2>1. PeersInv' /\ OneKey' /\ Before'
    BY DEF IInv, PeersInv, OneKey, Before, Single
  <2>2. ReadInv' /\ ForkInv'
    BY DEF IInv, ReadInv, ForkInv, ShardOf
  <2>3. CallInv' /\ KeyInv'
    BY DEF IInv, CallInv, KeyInv, ShardOf
  <2>4. AnswerInv' /\ RoutedToOwner'
    BY DEF IInv, AnswerInv, RoutedToOwner
  <2> QED
    BY <1>1, <2>1, <2>2, <2>3, <2>4 DEF IInv
<1> QED
  BY <1>1, <1>2, Steps, PeerInv, ArriveInv, HandleInv, DisconnectInv, CallStepInv

LEMMA Invariance == Spec => [](TypeOK /\ IInv)
<1>1. Init => TypeOK /\ IInv
  BY InitTyped, InitIInv
<1> QED
  BY <1>1, InvStep, PTL DEF Spec

\* The state of the nodes and of the requests keeps its types: me is a node
\* although the index in the file counts from 1, and a pool has at most N peers.
THEOREM TypeCorrect == Spec => []TypeOK
<1> QED
  BY Invariance, PTL

\* A handler that asks the pool for the client of a shard finds one there, on
\* every interleaving of its reads with update_peers, but for a node on which that
\* went away with the client of its /init.
THEOREM PoolInBoundsCorrect == Spec => []PoolInBounds
<1>1. TypeOK /\ IInv => PoolInBounds
  <2> SUFFICES ASSUME TypeOK, IInv, NEW r \in Requests, NEW s \in Nodes,
                      stage[r][s] = "getClient", ~Locked(node[r]), update[node[r]] # "dropped"
               PROVE  s < pool[node[r]]
    BY DEF PoolInBounds
  <2>1. node[r] \in Nodes
    BY DEF TypeOK
  <2>2. update[node[r]] = "ready"
    BY DEF IInv, CallInv, Configured, Locked
  <2>3. pool[node[r]] = N
    BY <2>1, <2>2 DEF IInv, PeersInv
  <2> QED
    BY <2>3, NAssumption DEF Nodes
<1> QED
  BY <1>1, Invariance, PTL

\* A handler that has read the final count serves every key on the node of its
\* shard, although me and count are stored and read one after the other.
THEOREM RoutedToOwnerCorrect == Spec => []RoutedToOwner
<1>1. IInv => RoutedToOwner
  BY DEF IInv
<1> QED
  BY <1>1, Invariance, PTL

\* No key of an answered request was left out but those whose own call failed,
\* although batches and lists read me again for each group of keys.
THEOREM NothingSkippedCorrect == Spec => []NothingSkipped
<1>1. TypeOK /\ IInv => NothingSkipped
  <2> SUFFICES ASSUME TypeOK, IInv, NEW r \in Requests, status[r] # "none",
                      NEW k \in keys[r],
                      stage[r][ShardOf(k, seen[r])] \notin {"failed", "late"}
               PROVE  done[r][k] # None
    BY DEF NothingSkipped
  <2>1. pc[r] = "answered"
    BY DEF IInv, AnswerInv
  <2>2. forks[r] = {}
    BY <2>1 DEF IInv, ForkInv
  <2>3. ShardOf(k, seen[r]) \in Nodes
    BY ShardType DEF TypeOK
  <2>4. stage[r][ShardOf(k, seen[r])] \in {"none", "ok"}
    BY <2>1, <2>3 DEF IInv, AnswerInv
  <2> QED
    BY <2>1, <2>2, <2>4 DEF IInv, KeyInv
<1> QED
  BY <1>1, Invariance, PTL
=============================================================================
