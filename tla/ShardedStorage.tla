--------------------------- MODULE ShardedStorage ---------------------------
(***************************************************************************)
(* The sharded C++ server (cpp/src/hcache.cc, sharded_storage.cc): every   *)
(* core of a Seastar process keeps the keys that hash to it, and a handler *)
(* that needs a key of another core sends it a message.  A core runs one   *)
(* task at a time, so a method of single_thread_storage is one step.       *)
(***************************************************************************)
EXTENDS Naturals

CONSTANTS Conns,     \* connections, each with one request at a time
          Cores,
          Keys,
          get_cpu,   \* get_cpu[k]: the core of k
          Data,      \* the strings
          Members,   \* the values of the sorted sets
          Scores,    \* their scores (uint32_t)
          Missing    \* no string, no score

ASSUME CoresAssumption  == get_cpu \in [Keys -> Cores]
ASSUME ScoresAssumption == Scores \subseteq Nat
ASSUME MissingAssumption == Missing \notin Data \cup Members \cup Scores \cup Cores

VARIABLES kv_,             \* kv_[n][k]: single_thread_storage.kv_ of core n
          zsets_,          \* zsets_[n]: the keys of its zsets_
          value_to_score_, \* value_to_score_[n][k]: of the sorted set k
          score_to_values_, \* score_to_values_[n][k]: likewise; an absent entry is {}
          pc,              \* pc[c]: idle, called, sent
          core,            \* core[c]: the core that runs the handler
          arg,             \* arg[c]: the request
          msgs,            \* the messages between cores that are not served
          ans              \* ans[c][k]: what the request of c found for key k

index  == <<value_to_score_, score_to_values_>>
shards == <<kv_, zsets_, index>>
vars   == <<shards, pc, core, arg, msgs, ans>>

Request(op, ks, x, m, s, hi) == [op |-> op, keys |-> ks, data |-> x, member |-> m,
                                 score |-> s, max_score |-> hi]
Result(status, x, es) == [status |-> status, data |-> x, entries |-> es]

NoRequest == Request("none", {}, Missing, Missing, Missing, Missing)
NoAnswer  == Result("none", Missing, {})
NoScores  == [m \in Members |-> Missing]
NoMembers == [s \in Scores |-> {}]
Entries   == [member : Members, score : Scores]

-----------------------------------------------------------------------------
\* What the handlers read from the URL and the body.
Single  == {{k} : k \in Keys}
Queries == {Request("query", ks, Missing, Missing, Missing, Missing) : ks \in Single}
Adds    == {Request("add", ks, x, Missing, Missing, Missing) : ks \in Single, x \in Data}
Batches == {Request("batch", ks, x, Missing, Missing, Missing) :
                ks \in (SUBSET Keys) \ {{}}, x \in Data}
Dels    == {Request("del", ks, Missing, Missing, Missing, Missing) : ks \in Single}
Lists   == {Request("list", ks, Missing, Missing, Missing, Missing) : ks \in (SUBSET Keys) \ {{}}}
Zadds   == {Request("zadd", ks, Missing, m, s, Missing) :
                ks \in Single, m \in Members, s \in Scores}
Zranges == {Request("zrange", ks, Missing, Missing, lo, hi) :
                ks \in Single, lo \in Scores, hi \in Scores}
Zrmvs   == {Request("zrmv", ks, Missing, m, Missing, Missing) :
                ks \in Single, m \in Members}

Requests == Queries \cup Adds \cup Batches \cup Dels \cup Lists \cup Zadds \cup Zranges \cup Zrmvs

-----------------------------------------------------------------------------
Put(f, ks, x)       == [k \in Keys |-> IF k \in ks THEN x ELSE f[k]]
PutAt(f, n, ks, x)  == [f EXCEPT ![n] = Put(@, ks, x)]
Answers(c, ks, a)   == ans' = PutAt(ans, c, ks, a)

\* The member leaves the set of the score value_to_score_ has for it.
Unlinked(scores, values, m) ==
    IF scores[m] = Missing THEN values ELSE [values EXCEPT ![scores[m]] = @ \ {m}]

\* A faulty variant: the member stays in its old set.
LinkedTwice(scores, values, m, s) == [values EXCEPT ![s] = @ \cup {m}]

\* zadd: the member leaves its old set and enters the new one.
Linked(scores, values, m, s) == [Unlinked(scores, values, m) EXCEPT ![s] = @ \cup {m}]

\* zrange on the sorted set of key k.
RangeOf(n, k, lo, hi) ==
    {e \in Entries : /\ e.member \in score_to_values_[n][k][e.score]
                     /\ lo <= e.score /\ e.score <= hi}

\* A faulty variant: an add leaves the sorted set.
AddKeyValueOnly(c, n, ks) ==
    /\ arg[c].op \in {"add", "batch"}
    /\ kv_' = PutAt(kv_, n, ks, arg[c].data)
    /\ Answers(c, ks, Result("200", Missing, {}))
    /\ UNCHANGED <<zsets_, index>>

\* The methods of single_thread_storage, run for the request of c on core n.
GetValuesByKey(c, n, ks) ==
    /\ arg[c].op \in {"query", "list"}
    /\ ans' = [ans EXCEPT ![c] =
         [k \in Keys |-> IF k \notin ks THEN @[k]
                         ELSE IF kv_[n][k] = Missing THEN Result("404", Missing, {})
                         ELSE Result("200", kv_[n][k], {})]]
    /\ UNCHANGED shards

AddKeyValue(c, n, ks) ==
    /\ arg[c].op \in {"add", "batch"}
    /\ kv_' = PutAt(kv_, n, ks, arg[c].data)
    /\ zsets_' = [zsets_ EXCEPT ![n] = @ \ ks]
    /\ value_to_score_' = PutAt(value_to_score_, n, ks, NoScores)
    /\ score_to_values_' = PutAt(score_to_values_, n, ks, NoMembers)
    /\ Answers(c, ks, Result("200", Missing, {}))

DelKey(c, n, ks) ==
    /\ arg[c].op = "del"
    /\ kv_' = PutAt(kv_, n, ks, Missing)
    /\ zsets_' = [zsets_ EXCEPT ![n] = @ \ ks]
    /\ value_to_score_' = PutAt(value_to_score_, n, ks, NoScores)
    /\ score_to_values_' = PutAt(score_to_values_, n, ks, NoMembers)
    /\ Answers(c, ks, Result("200", Missing, {}))

\* A key that holds a string refuses a zadd.
ZsetAddRefused(c, n, k) ==
    /\ arg[c].op = "zadd" /\ kv_[n][k] # Missing
    /\ Answers(c, {k}, Result("400", Missing, {}))
    /\ UNCHANGED shards

ZsetAdd(c, n, k) ==
    LET m == arg[c].member
        s == arg[c].score IN
    /\ arg[c].op = "zadd" /\ kv_[n][k] = Missing
    /\ zsets_' = [zsets_ EXCEPT ![n] = @ \cup {k}]
    /\ score_to_values_' = PutAt(score_to_values_, n, {k},
                               Linked(value_to_score_[n][k], score_to_values_[n][k], m, s))
    /\ value_to_score_' = PutAt(value_to_score_, n, {k}, [value_to_score_[n][k] EXCEPT ![m] = s])
    /\ Answers(c, {k}, Result("200", Missing, {}))
    /\ UNCHANGED kv_

\* zrmv leaves value_to_score_ as it is.
ZsetRmv(c, n, k) ==
    /\ arg[c].op = "zrmv"
    /\ score_to_values_' =
         IF k \notin zsets_[n] THEN score_to_values_
         ELSE PutAt(score_to_values_, n, {k},
                    Unlinked(value_to_score_[n][k], score_to_values_[n][k], arg[c].member))
    /\ Answers(c, {k}, Result("200", Missing, {}))
    /\ UNCHANGED <<kv_, zsets_, value_to_score_>>

ZsetZrange(c, n, k) ==
    /\ arg[c].op = "zrange"
    /\ Answers(c, {k},
         IF k \in zsets_[n]
         THEN Result("200", Missing, RangeOf(n, k, arg[c].score, arg[c].max_score))
         ELSE Result("404", Missing, {}))
    /\ UNCHANGED shards

\* A request for one key has one method to run, on that key.
Perform(c, n, ks) == \/ GetValuesByKey(c, n, ks) \/ AddKeyValue(c, n, ks) \/ DelKey(c, n, ks)
                     \/ \E k \in ks : \/ ZsetAddRefused(c, n, k) \/ ZsetAdd(c, n, k)
                                      \/ ZsetRmv(c, n, k) \/ ZsetZrange(c, n, k)

-----------------------------------------------------------------------------
Init == /\ kv_ = [n \in Cores |-> [k \in Keys |-> Missing]]
        /\ zsets_ = [n \in Cores |-> {}]
        /\ value_to_score_ = [n \in Cores |-> [k \in Keys |-> NoScores]]
        /\ score_to_values_ = [n \in Cores |-> [k \in Keys |-> NoMembers]]
        /\ pc = [c \in Conns |-> "idle"]
        /\ core = [c \in Conns |-> Missing]
        /\ arg = [c \in Conns |-> NoRequest]
        /\ msgs = {}
        /\ ans = [c \in Conns |-> [k \in Keys |-> NoAnswer]]

\* A request comes in on a connection of some core.
Call(c) == /\ pc[c] = "idle"
           /\ pc' = [pc EXCEPT ![c] = "called"]
           /\ \E r \in Requests : arg' = [arg EXCEPT ![c] = r]
           /\ \E n \in Cores : core' = [core EXCEPT ![c] = n]
           /\ UNCHANGED <<shards, msgs, ans>>

KeysOf(c, n) == {k \in arg[c].keys : get_cpu[k] = n}

\* The messages to other cores: a list sends one to each with all of its keys
\* (those without keys are left out), a batch one for every pair.
Messages(c) ==
    IF arg[c].op = "list"
    THEN {[conn |-> c, to |-> n, keys |-> KeysOf(c, n)] :
             n \in {n \in Cores \ {core[c]} : KeysOf(c, n) # {}}}
    ELSE {[conn |-> c, to |-> get_cpu[k], keys |-> {k}] :
             k \in {k \in arg[c].keys : get_cpu[k] # core[c]}}

\* A faulty variant: the handler takes every key for its own core's.
HandleHere(c) == /\ pc[c] = "called"
                 /\ pc' = [pc EXCEPT ![c] = "sent"]
                 /\ Perform(c, core[c], arg[c].keys)
                 /\ UNCHANGED <<core, arg, msgs>>

\* The handler looks at the keys of its own core at once and sends messages
\* for the others.
Handle(c) == /\ pc[c] = "called"
             /\ pc' = [pc EXCEPT ![c] = "sent"]
             /\ msgs' = msgs \cup Messages(c)
             /\ IF KeysOf(c, core[c]) # {} THEN Perform(c, core[c], KeysOf(c, core[c]))
                ELSE UNCHANGED <<shards, ans>>
             /\ UNCHANGED <<core, arg>>

\* A core serves a message; the result goes back to the handler's future.
Serve(c) == /\ \E msg \in msgs : /\ msg.conn = c
                                 /\ msgs' = msgs \ {msg}
                                 /\ Perform(c, msg.to, msg.keys)
            /\ UNCHANGED <<pc, core, arg>>

\* A faulty variant: the handler does not wait for all of its futures.
AnswerEarly(c) == /\ pc[c] = "sent"
                  /\ pc' = [pc EXCEPT ![c] = "idle"]
                  /\ core' = [core EXCEPT ![c] = Missing]
                  /\ arg' = [arg EXCEPT ![c] = NoRequest]
                  /\ ans' = [ans EXCEPT ![c] = [k \in Keys |-> NoAnswer]]
                  /\ UNCHANGED <<shards, msgs>>

\* All of its futures are resolved: the handler answers.
Answer(c) == /\ pc[c] = "sent"
             /\ \A msg \in msgs : msg.conn # c
             /\ pc' = [pc EXCEPT ![c] = "idle"]
             /\ core' = [core EXCEPT ![c] = Missing]
             /\ arg' = [arg EXCEPT ![c] = NoRequest]
             /\ ans' = [ans EXCEPT ![c] = [k \in Keys |-> NoAnswer]]
             /\ UNCHANGED <<shards, msgs>>

Next == \E c \in Conns : Call(c) \/ Handle(c) \/ Serve(c) \/ Answer(c)

Spec == Init /\ [][Next]_vars

-----------------------------------------------------------------------------
\* Types, and: every message belongs to a request that waits for it, for keys
\* of that request which are at home on the core that gets it.
TypeOK ==
    /\ kv_ \in [Cores -> [Keys -> Data \cup {Missing}]]
    /\ zsets_ \in [Cores -> SUBSET Keys]
    /\ value_to_score_ \in [Cores -> [Keys -> [Members -> Scores \cup {Missing}]]]
    /\ score_to_values_ \in [Cores -> [Keys -> [Scores -> SUBSET Members]]]
    /\ pc \in [Conns -> {"idle", "called", "sent"}]
    /\ core \in [Conns -> Cores \cup {Missing}]
    /\ arg \in [Conns -> Requests \cup {NoRequest}]
    /\ \A msg \in msgs : /\ msg.conn \in Conns /\ pc[msg.conn] = "sent"
                         /\ msg.keys # {} /\ msg.keys \subseteq KeysOf(msg.conn, msg.to)
    /\ ans \in [Conns -> [Keys -> [status : {"none", "200", "400", "404"},
                                   data : Data \cup {Missing}, entries : SUBSET Entries]]]

\* README on /zadd and /add: a key that was added refuses a zadd, and an add
\* replaces a sorted set.  So no key is both, on whatever core.
KeyExclusive ==
    \A k \in Keys, n1, n2 \in Cores : ~(kv_[n1][k] # Missing /\ k \in zsets_[n2])

\* A member a zrange lists is listed under the score value_to_score_ has for it,
\* hence under one only, although zrmv leaves scores of removed members behind:
\* the next zadd or zrmv finds the set it is in.
ListedUnderScore ==
    \A n \in Cores, k \in Keys, m \in Members, s \in Scores :
        m \in score_to_values_[n][k][s] => k \in zsets_[n] /\ value_to_score_[n][k][m] = s

-----------------------------------------------------------------------------
\* The refinement mapping: a key's string and sorted set are those its own core
\* keeps, and a key is still to be looked at while it is in a message.
Todo(c) == IF pc[c] = "called" THEN arg[c].keys
           ELSE UNION {msg.keys : msg \in {msg \in msgs : msg.conn = c}}

Strings == [k \in Keys |-> kv_[get_cpu[k]][k]]
Zkeys   == {k \in Keys : k \in zsets_[get_cpu[k]]}
Zsets   == [k \in Keys |-> {e \in Entries : e.member \in score_to_values_[get_cpu[k]][k][e.score]}]

Abstract == INSTANCE Cache WITH strings <- Strings, zkeys <- Zkeys, zsets <- Zsets,
                                todo    <- [c \in Conns |-> Todo(c)]

\* Every request takes effect on each of its keys at one instant between its call
\* and its answer, on whatever cores the handler and the key are.
Linearizable == Abstract!Spec
=============================================================================
