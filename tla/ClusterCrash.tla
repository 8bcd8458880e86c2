---------------------------- MODULE ClusterCrash ----------------------------
(***************************************************************************)
(* A cluster whose nodes crash and are started again.  A node that starts  *)
(* finds its file and what the flush thread had written, and opens new     *)
(* connections to all of its peers; they do not open theirs to it again.   *)
(* Nobody calls /init here, so no node has to stop connecting.  What a     *)
(* crash does inside one node, and /init after it, are the subject of      *)
(* Node.                                                                   *)
(***************************************************************************)
EXTENDS Cluster

CONSTANT MaxCrashes \* bound on the crashes of a behaviour

\* What a crash keeps of the sorted sets is the subject of NodeHistory.
ASSUME CrashAssumption == /\ MaxCrashes \in Nat
                          /\ Ops \subseteq {"query", "add", "del", "list", "batch"}

VARIABLES up,     \* up[n]: the process of node n runs
          disk,   \* disk[n]: what a crash keeps of the database behind kv[n]
          cut,    \* cut[n]: the peers to which all connections of n are broken
          acked,  \* acked[r]: the requests answered with 200 when r arrived
          kept,   \* the <<request, key>> that were served before a flush
          lost,   \* those a crash has undone
          crashes

history == <<acked, kept, lost>>
cvars   == <<vars, up, disk, cut, history, crashes>>

\* The cluster is complete and idle, with the initial data.
CInit == /\ file = [n \in Nodes |-> TRUE]
         /\ started = [n \in Nodes |-> TRUE]
         /\ listening = [n \in Nodes |-> TRUE]
         /\ update = [n \in Nodes |-> "ready"]
         /\ me = [n \in Nodes |-> n]
         /\ count = [n \in Nodes |-> N]
         /\ pool = [n \in Nodes |-> N]
         /\ inits = [n \in Nodes |-> FALSE]
         /\ load_state = [n \in Nodes |-> "LOADED"]
         /\ lcount = [n \in Nodes |-> N]
         /\ kv = [n \in Nodes |->
                    [k \in Keys |-> IF k \in Rows /\ RowShard[k] = n THEN Row ELSE None]]
         /\ zsets = [n \in Nodes |-> [k \in Keys |-> None]]
         /\ NoRequests
         /\ up = [n \in Nodes |-> TRUE]
         /\ disk = kv
         /\ cut = [n \in Nodes |-> {}]
         /\ acked = [r \in Requests |-> {}]
         /\ kept = {} /\ lost = {}
         /\ crashes = 0

\* What node n has served.
ServedBy(n) == {q \in Requests \X Keys : done[q[1]][q[2]] = n}

-----------------------------------------------------------------------------
\* The flush thread of main, every 100 ms.
Flush(n) ==
    /\ up[n] /\ disk[n] # kv[n]
    /\ disk' = [disk EXCEPT ![n] = kv[n]]
    /\ kept' = kept \cup ServedBy(n)
    /\ UNCHANGED <<vars, up, cut, acked, lost, crashes>>

\* The stage of a call after node n has died.  What was on its way to or from n
\* fails; what n had sent to another node may still be served.
StageAfter(n, r, s) ==
    IF \/ s = n /\ stage[r][s] \in {"sent", "served", "late"}
       \/ node[r] = n /\ stage[r][s] \in {"getClient", "served"} THEN "failed"
    ELSE IF node[r] = n /\ stage[r][s] = "sent" THEN "late"
    ELSE stage[r][s]

\* The process of node n dies, with its handlers, its tasks and all connections
\* to and from it.  The databases have no log: writes since the flush are gone.
Crash(n) ==
    /\ up[n] /\ crashes < MaxCrashes
    /\ crashes' = crashes + 1
    /\ up' = [up EXCEPT ![n] = FALSE]
    /\ started' = [started EXCEPT ![n] = FALSE]
    /\ listening' = [listening EXCEPT ![n] = FALSE]
    /\ update' = [update EXCEPT ![n] = "no"]
    /\ me' = [me EXCEPT ![n] = 0]
    /\ count' = [count EXCEPT ![n] = 0]
    /\ pool' = [pool EXCEPT ![n] = 0]
    /\ inits' = [inits EXCEPT ![n] = FALSE]
    /\ load_state' = [load_state EXCEPT ![n] = "INIT"]
    /\ lcount' = [lcount EXCEPT ![n] = 0]
    /\ kv' = [kv EXCEPT ![n] = [k \in Keys |-> None]]
    /\ cut' = [m \in Nodes |-> IF m = n THEN {} ELSE IF n < pool[m] THEN cut[m] \cup {n} ELSE cut[m]]
    /\ pc' = [r \in Requests |->
               IF node[r] = n /\ pc[r] \notin {"idle", "answered"} THEN "died" ELSE pc[r]]
    /\ stage' = [r \in Requests |-> [s \in Nodes |-> StageAfter(n, r, s)]]
    /\ lost' = lost \cup (ServedBy(n) \ kept)
    /\ UNCHANGED <<file, zsets, request, seen, forks, own, done, got, status, failures, disk,
                   acked, kept>>

\* A faulty variant: the databases are not loaded.
RestartEmpty(n) ==
    /\ ~up[n]
    /\ up' = [up EXCEPT ![n] = TRUE]
    /\ UNCHANGED <<vars, disk, cut, history, crashes>>

\* main: the databases are loaded before anything is served.
Restart(n) ==
    /\ ~up[n]
    /\ up' = [up EXCEPT ![n] = TRUE]
    /\ kv' = [kv EXCEPT ![n] = disk[n]]
    /\ UNCHANGED <<cluster, loader, zsets, request, handler, failures, disk, cut, history, crashes>>

Undisturbed == UNCHANGED <<up, disk, cut, history, crashes>>

\* What the tasks of a node do while it runs.
Run(n) == up[n] /\ (Listen(n) \/ Start(n) \/ Configure(n)) /\ Undisturbed

CArrive(r, n) == /\ up[n]
                 /\ Arrive(r, n)
                 /\ acked' = [acked EXCEPT ![r] = {q \in Requests : status[q] = "200"}]
                 /\ UNCHANGED <<up, disk, cut, kept, lost, crashes>>

CHandle(r) == Handle(r) /\ Undisturbed

\* A client goes away before its answer.
CDisconnect(r) == Disconnect(r) /\ Undisturbed

\* A faulty variant: the call waits for a new connection, which nobody opens.
SendCutWaiting(r, s) == stage[r][s] = "getClient" /\ s \in cut[node[r]] /\ UNCHANGED vars

\* A client of the pool whose connection is broken fails every call at once;
\* nothing replaces it.
SendCut(r, s) ==
    /\ stage[r][s] = "getClient" /\ s \in cut[node[r]]
    /\ ~Locked(node[r])
    /\ stage' = [stage EXCEPT ![r][s] = "failed"]
    /\ UNCHANGED <<cluster, loader, store, request, pc, seen, forks, own, done, got, status, failures>>

CExchange(r, s) ==
    /\ \/ Send(r, s) /\ s \notin cut[node[r]]
       \/ SendCut(r, s)
       \/ Remote(r, s) /\ up[s]
       \/ Reply(r, s)
    /\ Undisturbed

\* One connection of 16 breaks, or a call takes too long.
CallFails(r, s) == (Lose(r, s) \/ Timeout(r, s)) /\ Undisturbed

CNext == \/ \E n \in Nodes : Run(n) \/ Flush(n) \/ Crash(n) \/ Restart(n)
         \/ \E r \in Requests : CHandle(r) \/ CDisconnect(r)
         \/ \E r \in Requests, n \in Nodes : CArrive(r, n)
         \/ \E r \in Requests, s \in Nodes : CExchange(r, s) \/ CallFails(r, s)

\* Every task runs when it can, the operators start a node that died, and an RPC
\* server that runs accepts connections in the end.  Nothing makes clients act or
\* stay, and no node has to crash.
CFairness == /\ \A n \in Nodes : WF_cvars(Run(n)) /\ WF_cvars(Restart(n))
             /\ \A r \in Requests : WF_cvars(CHandle(r))
             /\ \A r \in Requests, s \in Nodes : WF_cvars(CExchange(r, s))

CSpec     == CInit /\ [][CNext]_cvars
FairCSpec == CSpec /\ CFairness

-----------------------------------------------------------------------------
\* The type of the state of all nodes, those that are down included.
CTypeOK == /\ TypeOK
           /\ up \in [Nodes -> BOOLEAN]
           /\ disk \in [Nodes -> [Keys -> Requests \cup {Row, None}]]
           /\ cut \in [Nodes -> SUBSET Nodes]
           /\ acked \in [Requests -> SUBSET Requests]
           /\ kept \subseteq Requests \X Keys /\ lost \subseteq Requests \X Keys
           /\ crashes \in 0 .. MaxCrashes

\* The call to the owner of k did not fail under request q.
Ended(q, k) == stage[q][ShardOf(k, seen[q])] \notin {"failed", "late"}

\* Request q leaves value under k.
Leaves(q, k, value) ==
    LET effect == hyper_handler[op[q]].kv IN
    k \in keys[q] /\ effect \in {"put", "erase"} /\ value = After(effect, q, None)

\* A read finds the last write acknowledged before it was sent, or a later one,
\* through any node that knows its peers, whichever nodes have crashed and come
\* back, unless the owner crashed before its flush thread had written it.
ReadsAckedWrites ==
    \A r, w \in Requests, k \in Keys :
      /\ pc[r] # "idle" /\ Reads(r) /\ seen[r] = N /\ done[r][k] # None
      /\ w \in acked[r] /\ seen[w] = N /\ <<w, k>> \notin lost /\ Ended(w, k)
      /\ Leaves(w, k, After(hyper_handler[op[w]].kv, w, None))
      => \E v \in Requests : /\ pc[v] # "idle" /\ Leaves(v, k, got[r][k])
                             /\ ~(v \in acked[w] /\ Ended(v, k))

\* Every request is answered in the end, unless its node dies or its client goes away:
\* handlers wait for the lock of update_peers, which waits for peers that crash and
\* come back.
Answered == \A r \in Requests : pc[r] = "readCount" ~> pc[r] \in {"answered", "died"}

\* The cluster comes back: every node is connected to all nodes in the end, also
\* when they start at the same time and wait for each other and for themselves.
Rejoins == \A n \in Nodes : <>[](update[n] = "ready")
=============================================================================
