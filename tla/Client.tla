------------------------------- MODULE Client -------------------------------
(***************************************************************************)
(* The two client programs (client/src/client.rs, batch-forever.rs) and    *)
(* the server as Cache describes it.  client.rs tests every request, one   *)
(* after the other, and then measures each with a task per key, as many at *)
(* a time as its semaphore has permits.  batch-forever sends the same      *)
(* batch again and again.  A client panics when an answer is not the one   *)
(* it expects.                                                             *)
(***************************************************************************)
EXTENDS Naturals, Sequences, FiniteSets

CONSTANTS n,            \* keys, and tasks, of a benchmark (the variable N, 10000)
          Permits,      \* of the semaphore of client.rs (1000)
          Chunk,        \* keys of a batch of either benchmark (1000)
          Pairs,        \* key-value pairs, or members, of a test (100)
          Slots,        \* permits of batch-forever (its variable N, 100)
          Runs,         \* how often client.rs is run
          MaxFailures,  \* bound on the connections of batch-forever that break
          NoRequest, NoAnswer, Missing,
          Any           \* of an expected answer: the client does not look at it

ASSUME BoundsAssumption ==
    /\ {n, Permits, Chunk, Pairs, Slots, Runs} \subseteq Nat \ {0}
    /\ MaxFailures \in Nat /\ MaxFailures < Slots
ASSUME MissingAssumption == Missing \notin {"world", "value", "a"}

VARIABLES strings, zkeys, zsets, arg, todo, ans, \* of Cache
          phase,   \* how many phases client.rs has finished, in all runs
          at,      \* at[t]: how many of its requests task t has been answered
          holds,   \* the tasks that hold a permit
          sema,    \* free permits of batch-forever
          lost,    \* its tasks whose connection broke: they never return their permit
          panicked

server == <<strings, zkeys, zsets, arg, todo, ans>>
vars   == <<server, phase, at, holds, sema, lost, panicked>>

\* Connection 0 is main's, the next those of its tasks, the others batch-forever's.
Tasks   == 1 .. n
Batches == n + 1 .. n + Slots
Conns   == 0 .. n + Slots

Hello        == <<"hello", 0>>
TestKey(i)   == <<"key", i>>
TestZset     == <<"zset", 0>>
BenchKey(i)  == <<"keykey", i>>
BenchZset(i) == <<"zsetzset", i>>

Present == {TestKey(i) : i \in 1 .. Pairs}
Absent  == {TestKey(i) : i \in Pairs + 1 .. 2 * Pairs}
Bench   == {BenchKey(i) : i \in Tasks}
Keys    == Present \cup Absent \cup Bench \cup {BenchZset(i) : i \in Tasks} \cup {TestZset, Hello}

-----------------------------------------------------------------------------
\* What a client asks, and the answer without which it panics: on how many keys the
\* request succeeds, and the value, or the entries, found for each of these.
Request(op, ks, x, m, lo, hi) ==
    [op |-> op, keys |-> ks, data |-> x, member |-> m, score |-> lo, max_score |-> hi]
Step(request, found, x, es) == [ask |-> request, found |-> found, data |-> x, entries |-> es]

add(k, x)     == Step(Request("add", {k}, x, Missing, 0, 0), 1, Any, Any)
del(k)        == Step(Request("del", {k}, Missing, Missing, 0, 0), 1, Any, Any)
batch(ks, x)  == Step(Request("batch", ks, x, Missing, 0, 0), Cardinality(ks), Any, Any)
zadd(k, s, m) == Step(Request("zadd", {k}, Missing, m, s, 0), 1, Any, Any)
zrmv(k, m)    == Step(Request("zrmv", {k}, Missing, m, 0, 0), 1, Any, Any)
query(k, found, x)     == Step(Request("query", {k}, Missing, Missing, 0, 0), found, x, Any)
list(ks, found, x)     == Step(Request("list", ks, Missing, Missing, 0, 0), found, x, Any)
zrange(k, lo, hi, found, es) ==
    Step(Request("zrange", {k}, Missing, Missing, lo, hi), found, Any, es)

-----------------------------------------------------------------------------
\* The phases of client.rs: the tasks, and the requests of each in their order.
Members == 0 .. Pairs - 1

Tests == [t \in {0} |->
     << add(Hello, "world"), query(Hello, 1, "world"), del(Hello), query(Hello, 0, Any),
        batch(Present, "value"), list(Present, Pairs, "value"),
        list(Present \cup Absent, Pairs, Any), list(Absent, 0, Any), list({TestKey(1)}, 1, Any) >>
  \o [i \in 1 .. Pairs |-> zadd(TestZset, (i - 1) \div 2, i - 1)]
  \o << zrange(TestZset, 0, (Pairs - 1) \div 2, 1,
               {[member |-> m, score |-> m \div 2] : m \in Members}) >>
  \o [i \in 1 .. Pairs |-> zadd(TestZset, (i - 1) * 2, i - 1)]
  \o << zrange(TestZset, 0, (Pairs - 1) * 2, 1,
               {[member |-> m, score |-> m * 2] : m \in Members}),
        zrmv(TestZset, 0), zrange(TestZset, 0, 0, 1, {}) >>
  \o [i \in 1 .. Pairs - 1 |-> zrmv(TestZset, i)]
  \o << zrange(TestZset, 0, 0, 1, {}), del(TestZset), zrange(TestZset, 0, 0, 0, Any) >>]

Chunks       == 1 .. (n + Chunk - 1) \div Chunk
ChunkKeys(c) == {BenchKey(i) : i \in {j \in Tasks : (j - 1) \div Chunk = c - 1}}

BenchAdd    == [t \in Tasks  |-> <<add(BenchKey(t), "a")>>]
BenchQuery  == [t \in Tasks  |-> <<query(BenchKey(t), 1, Any)>>]
BenchDel    == [t \in Tasks  |-> <<del(BenchKey(t))>>]
BenchBatch  == [t \in Chunks |-> <<batch(ChunkKeys(t), "a")>>]
BenchList   == [t \in {0}    |-> [c \in Chunks |-> list(ChunkKeys(c), Cardinality(ChunkKeys(c)), Any)]]
BenchZadd   == [t \in Tasks  |-> <<zadd(BenchZset(t), t, t)>>]
BenchZrange == [t \in Tasks  |-> <<zrange(BenchZset(t), t, t, 1, Any)>>]
BenchZrmv   == [t \in Tasks  |-> <<zrmv(BenchZset(t), t)>>]

\* Faulty variant: only the strings are deleted, of the sorted sets only the members.
CleanupStrings == [t \in Tasks |-> <<del(BenchKey(t))>>]
Cleanup        == [t \in Tasks |-> <<del(BenchKey(t)), del(BenchZset(t))>>]

Program == <<Tests, BenchAdd, BenchQuery, BenchDel, BenchBatch, BenchList, BenchZadd, BenchZrange,
             BenchZrmv, Cleanup>>
\* batch-forever's 1000 keys are those of the benchmark's first chunk.
Forever == batch(ChunkKeys(1), "a").ask

Asked(tasks) == UNION {{tasks[t][i].ask : i \in DOMAIN tasks[t]} : t \in DOMAIN tasks}
Requests == {Forever} \cup UNION {Asked(Program[p]) : p \in DOMAIN Program}
ASSUME RequestsAssumption == NoRequest \notin Requests
Server == INSTANCE Cache

Init == /\ Server!Init
        /\ phase = 0
        /\ at = [t \in 0 .. n |-> 0]
        /\ holds = {}
        /\ sema = Slots
        /\ lost = {}
        /\ panicked = FALSE

-----------------------------------------------------------------------------
\* client.rs.
Running  == phase < Runs * Len(Program) /\ ~panicked
Now      == Program[(phase % Len(Program)) + 1]
Ended(t) == at[t] = Len(Now[t])
Expected(t) == Now[t][at[t] + 1]

\* Server!Call(c) with this request of Requests.
Call(c, request) == /\ arg[c] = NoRequest
                    /\ arg' = [arg EXCEPT ![c] = request]
                    /\ todo' = [todo EXCEPT ![c] = request.keys]
                    /\ UNCHANGED <<strings, zkeys, zsets, ans>>

\* A task asks for a permit before its first request; main needs none.
Acquire(t) == /\ Running
              /\ t \in DOMAIN Now \ ({0} \cup holds) /\ ~Ended(t)
              /\ Cardinality(holds) < Permits
              /\ holds' = holds \cup {t}
              /\ UNCHANGED <<server, phase, at, sema, lost, panicked>>

\* Faulty variant: the permit is not bound to a variable, and is returned at once.
AskUnbound(t) == /\ Running
                 /\ t \in DOMAIN Now \cap (holds \cup {0}) /\ ~Ended(t)
                 /\ Call(t, Expected(t).ask)
                 /\ holds' = holds \ {t}
                 /\ UNCHANGED <<phase, at, sema, lost, panicked>>

Ask(t) == /\ Running
          /\ t \in DOMAIN Now \cap (holds \cup {0}) /\ ~Ended(t)
          /\ Call(t, Expected(t).ask)
          /\ UNCHANGED <<phase, at, holds, sema, lost, panicked>>

\* The answer is the one the client demands.
Satisfied(t) ==
    LET hits == {k \in arg[t].keys : ans[t][k].status = "200"}
    IN  /\ Cardinality(hits) = Expected(t).found
        /\ \A k \in hits : /\ Expected(t).data \in {Any, ans[t][k].data}
                           /\ Expected(t).entries \in {Any, ans[t][k].entries}

\* Faulty variant: the permit of a task that has ended is not returned.
ReceiveHolding(t) == /\ Running
                     /\ Server!Answer(t)
                     /\ panicked' = ~Satisfied(t)
                     /\ at' = [at EXCEPT ![t] = @ + 1]
                     /\ UNCHANGED <<phase, holds, sema, lost>>

\* The permit of a task is dropped at its end.
Receive(t) == /\ Running
              /\ Server!Answer(t)
              /\ panicked' = ~Satisfied(t)
              /\ at' = [at EXCEPT ![t] = @ + 1]
              /\ holds' = IF at'[t] = Len(Now[t]) THEN holds \ {t} ELSE holds
              /\ UNCHANGED <<phase, sema, lost>>

\* Faulty variant: only the task that was spawned last is awaited.
JoinLast == /\ Running
            /\ LET last == CHOOSE t \in DOMAIN Now : \A s \in DOMAIN Now : s <= t IN Ended(last)
            /\ phase' = phase + 1
            /\ at' = [t \in 0 .. n |-> 0]
            /\ UNCHANGED <<server, holds, sema, lost, panicked>>

\* Every task of the phase is awaited; then the next phase spawns its own.
Join == /\ Running
        /\ \A t \in DOMAIN Now : Ended(t)
        /\ phase' = phase + 1
        /\ at' = [t \in 0 .. n |-> 0]
        /\ UNCHANGED <<server, holds, sema, lost, panicked>>

-----------------------------------------------------------------------------
\* batch-forever.  The permit of a task that is spawned is forgotten, and added again
\* when the answer, whatever it is, has come.  A task whose connection breaks panics
\* in batch: its permit is gone, and the server may still serve the batch.
Idle(g) == g \notin lost /\ arg[g] = NoRequest

\* Faulty variant: the permit is not forgotten, so that it returns at the end of the statement.
SendBatchUnforgotten == /\ sema > 0
                        /\ \E g \in Batches : /\ Idle(g) /\ \A f \in Batches : Idle(f) => g <= f
                                              /\ Call(g, Forever)
                        /\ UNCHANGED <<phase, at, holds, sema, lost, panicked>>

SendBatch == /\ sema > 0
             /\ \E g \in Batches : /\ Idle(g) /\ \A f \in Batches : Idle(f) => g <= f
                                   /\ Call(g, Forever)
             /\ sema' = sema - 1
             /\ UNCHANGED <<phase, at, holds, lost, panicked>>

\* Faulty variant: the permit is not added again.
BatchEndsSilently(g) == /\ g \notin lost
                        /\ Server!Answer(g)
                        /\ UNCHANGED <<phase, at, holds, sema, lost, panicked>>

BatchEnds(g) == /\ g \notin lost
                /\ Server!Answer(g)
                /\ sema' = sema + 1
                /\ UNCHANGED <<phase, at, holds, lost, panicked>>

Break(g) == /\ g \notin lost /\ arg[g] # NoRequest
            /\ Cardinality(lost) < MaxFailures
            /\ lost' = lost \cup {g}
            /\ UNCHANGED <<server, phase, at, holds, sema, panicked>>

Serve(c) == Server!Apply(c) /\ UNCHANGED <<phase, at, holds, sema, lost, panicked>>

Work     == \/ \E t \in Tasks : Acquire(t)
            \/ \E t \in 0 .. n : Ask(t) \/ Receive(t)
            \/ Join
WorkServed    == \E c \in 0 .. n : Serve(c)
BatchesServed == \E g \in Batches : Serve(g)
BatchesEnd    == \E g \in Batches : BatchEnds(g)

Next == \/ Work \/ WorkServed
        \/ SendBatch \/ BatchesServed \/ BatchesEnd
        \/ \E g \in Batches : Break(g)

\* Each program does something as long as it can, and the server serves each program.
\* No connection need ever break.
Fairness == /\ WF_vars(Work) /\ WF_vars(WorkServed)
            /\ WF_vars(SendBatch) /\ WF_vars(BatchesServed) /\ WF_vars(BatchesEnd)

Spec     == Init /\ [][Next]_vars
FairSpec == Spec /\ Fairness

-----------------------------------------------------------------------------
Asking(cs) == {c \in cs : arg[c] # NoRequest}

\* The type of the state; a semaphore never has more permits than it was made with,
\* and no task is answered more often than it asks.
TypeOK == /\ phase \in 0 .. Runs * Len(Program)
          /\ at \in [0 .. n -> Nat]
          /\ \A t \in 0 .. n : at[t] <= IF t \in DOMAIN Now THEN Len(Now[t]) ELSE 0
          /\ holds \subseteq Tasks /\ Cardinality(holds) <= Permits
          /\ sema \in 0 .. Slots
          /\ lost \subseteq Batches
          /\ panicked \in BOOLEAN
          /\ \A c \in Conns : arg[c] \in Requests \cup {NoRequest} /\ todo[c] \subseteq Keys

\* No answer makes client.rs panic (client.rs:175-179 and its unwraps), however its tasks
\* and those of batch-forever, which adds the keys of the benchmark all the time, overlap,
\* in its first run and on what an earlier run has left behind.
NoPanic == ~panicked

\* client.rs never has more requests under way than its semaphore has permits, and every
\* permit of batch-forever is free, or with a batch under way, or lost with a task that
\* panicked: a broken connection costs one slot for good, and nothing else does
\* (client.rs:324-332, batch-forever.rs:56-70).
PermitsAccounted ==
    /\ Cardinality(Asking(Tasks)) <= Permits
    /\ sema + Cardinality(Asking(Batches) \ lost) + Cardinality(lost) = Slots

\* When a run of client.rs ends it has left nothing but the pairs of its batch test, and
\* the benchmark's strings that batch-forever adds again (client.rs:476-490).
LeavesOnlyPairs ==
    phase > 0 /\ phase % Len(Program) = 0 /\ Asking(0 .. n) = {} /\ at[0] = 0
      => /\ zkeys = {}
         /\ {k \in Keys : strings[k] # Missing} \subseteq Present \cup Forever.keys

\* Every run of client.rs comes to its end: no task waits for a permit for ever
\* (client.rs:324-336).
Finishes == <>(phase = Runs * Len(Program))

\* batch-forever sends batches for ever while fewer connections break than it has permits
\* (batch-forever.rs:56-76).
KeepsSending == []<><<SendBatch>>_vars
=============================================================================
