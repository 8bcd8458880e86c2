--------------------------- MODULE SharedStorage ---------------------------
(***************************************************************************)
(* The storage that the threads of the shared C++ servers have in common   *)
(* (cpp/src/storage.cc, behind hcache_shared.cc and drogon.cc): two        *)
(* concurrent maps, and in each sorted set a concurrent map from values to *)
(* scores and a locked map from scores to values.  A call on a concurrent  *)
(* map and a critical section are one step each; nothing spans them.       *)
(***************************************************************************)
EXTENDS Naturals

CONSTANTS Threads,    \* threads, each with one request at a time
          Keys,
          Data,       \* the strings
          Members,    \* the values of the sorted sets
          Scores,     \* their scores (uint32_t)
          ZSets,      \* zset objects, as many as can be alive at a time
          Ops,        \* the requests clients send
          ZKeys,      \* the keys for which they send zadd, zrange and zrmv
          Refused,    \* the status of a refused zadd: 400, behind Drogon 404
          Serialized, \* no two writes of a member, or of a whole key, at a time
          Missing     \* no string, no score, no object

ASSUME SharedAssumption == /\ Scores \subseteq Nat
                           /\ Missing \notin Data \cup Members \cup Scores \cup ZSets \cup Keys
                           /\ Refused \in {"400", "404"}
                           /\ ZKeys \subseteq Keys
                           /\ Serialized \in BOOLEAN

VARIABLES kv_,              \* storage.kv_
          zsets_,           \* storage.zsets_: the object of a key
          value_to_score_,  \* of every object
          score_to_values_, \* likewise; an absent entry is {}
          pc,               \* pc[t]: the next step of thread t
          arg,              \* arg[t]: its request
          key,              \* key[t]: the key it is at
          todo,             \* todo[t]: the keys a batch or list has still to do
          zset,             \* zset[t]: the object it has found
          old,              \* old[t]: the score it has found, `it->second'
          ans               \* ans[t][k]: its result for key k

index == <<value_to_score_, score_to_values_>>
call  == <<arg, key, todo>>
found == <<zset, old>>
vars  == <<kv_, zsets_, index, pc, call, found, ans>>

NoScores  == [m \in Members |-> Missing]
NoMembers == [s \in Scores |-> {}]
Entries   == [member : Members, score : Scores]
NoRequest == [op |-> "none", keys |-> {}, data |-> Missing, member |-> Missing,
              score |-> Missing, max_score |-> Missing]

Result(status, x, es) == [status |-> status, data |-> x, entries |-> es]
NoResult == Result("none", Missing, {})

\* What the handlers read from the URL and the body.
Requests ==
    LET Asks(op, kss, xs, ms, ss, his) ==
            [op : {op} \cap Ops, keys : kss, data : xs, member : ms, score : ss, max_score : his]
        One  == {{k} : k \in Keys}
        Zone == {{k} : k \in ZKeys}
        Many == (SUBSET Keys) \ {{}}
        No   == {Missing} IN
    UNION {Asks("query", One, No, No, No, No), Asks("add", One, Data, No, No, No),
           Asks("batch", Many, Data, No, No, No), Asks("del", One, No, No, No, No),
           Asks("list", Many, No, No, No, No), Asks("zadd", Zone, No, Members, Scores, No),
           Asks("zrange", Zone, No, No, Scores, Scores), Asks("zrmv", Zone, No, Members, No, No)}

Writes(r) == r.op \in {"add", "batch", "del", "zadd", "zrmv"}

\* Two writes of one key are apart when they are about two of its members.
Conflict(r1, r2) == /\ Writes(r1) /\ Writes(r2) /\ r1.keys \cap r2.keys # {}
                    /\ Missing \in {r1.member, r2.member} \/ r1.member = r2.member

Running(t)    == pc[t] \notin {"idle", "answer"}
At(t, step)   == pc[t] = step
Goto(t, step) == pc' = [pc EXCEPT ![t] = step]

First(op) == CASE op \in {"query", "list"}       -> "findKv"
               [] op \in {"add", "batch", "del"} -> "eraseKv"
               [] op = "zadd"                    -> "checkKv"
               [] op \in {"zrange", "zrmv"}      -> "findZset"

-----------------------------------------------------------------------------
Init == /\ kv_ = [k \in Keys |-> Missing]
        /\ zsets_ = [k \in Keys |-> Missing]
        /\ value_to_score_ = [o \in ZSets |-> NoScores]
        /\ score_to_values_ = [o \in ZSets |-> NoMembers]
        /\ pc = [t \in Threads |-> "idle"]
        /\ arg = [t \in Threads |-> NoRequest]
        /\ key = [t \in Threads |-> Missing]
        /\ todo = [t \in Threads |-> {}]
        /\ zset = [t \in Threads |-> Missing]
        /\ old = [t \in Threads |-> Missing]
        /\ ans = [t \in Threads |-> [k \in Keys |-> NoResult]]

Call(t) ==
    /\ At(t, "idle")
    /\ \E r \in Requests, k \in Keys :
         /\ k \in r.keys
         /\ Serialized => \A u \in Threads : Running(u) => ~Conflict(r, arg[u])
         /\ arg' = [arg EXCEPT ![t] = r]
         /\ key' = [key EXCEPT ![t] = k]
         /\ todo' = [todo EXCEPT ![t] = r.keys \ {k}]
         /\ Goto(t, First(r.op))
    /\ UNCHANGED <<kv_, zsets_, index, found, ans>>

\* The thread is done with its key: a batch or list goes on to the next one.
NextKey(t) ==
    IF todo[t] = {} THEN Goto(t, "answer") /\ UNCHANGED <<key, todo>>
    ELSE \E k \in todo[t] : /\ key' = [key EXCEPT ![t] = k]
                            /\ todo' = [todo EXCEPT ![t] = @ \ {k}]
                            /\ Goto(t, First(arg[t].op))

Done(t, result) == /\ ans' = [ans EXCEPT ![t][key[t]] = result]
                   /\ NextKey(t)

\* shared_ptr: an object is alive while the map or a thread refers to it.
Alive(o) == o \in {zsets_[k] : k \in Keys} \cup {zset[t] : t \in Threads}

Contents(scores, values) ==
    /\ value_to_score_'  = [o \in ZSets |-> IF Alive(o)' THEN scores[o] ELSE NoScores]
    /\ score_to_values_' = [o \in ZSets |-> IF Alive(o)' THEN values[o] ELSE NoMembers]

\* The methods of storage.  get_value_by_key, and each turn of list_keys.
FindKv(t) ==
    LET x == kv_[key[t]] IN
    /\ At(t, "findKv")
    /\ Done(t, Result(IF x = Missing THEN "404" ELSE "200", x, {}))
    /\ UNCHANGED <<kv_, zsets_, index, arg, found>>

\* add_key_value and del_key erase the string ...
EraseKv(t) ==
    /\ At(t, "eraseKv")
    /\ kv_' = [kv_ EXCEPT ![key[t]] = Missing]
    /\ Goto(t, "eraseZset")
    /\ UNCHANGED <<zsets_, index, call, found, ans>>

\* ... and the sorted set, which lives on while a thread uses it ...
EraseZset(t) ==
    /\ At(t, "eraseZset")
    /\ zsets_' = [zsets_ EXCEPT ![key[t]] = Missing]
    /\ IF arg[t].op = "del" THEN Done(t, Result("200", Missing, {}))
       ELSE Goto(t, "emplaceKv") /\ UNCHANGED <<key, todo, ans>>
    /\ UNCHANGED <<kv_, arg, found>>
    /\ Contents(value_to_score_, score_to_values_)

\* ... and the add emplaces the new string, unless there is one again.
EmplaceKv(t) ==
    /\ At(t, "emplaceKv")
    /\ kv_' = [kv_ EXCEPT ![key[t]] = IF @ = Missing THEN arg[t].data ELSE @]
    /\ Done(t, Result("200", Missing, {}))
    /\ UNCHANGED <<zsets_, index, arg, found>>

\* A faulty variant: a zadd does not look for a string.
CheckKvSkipped(t) ==
    /\ At(t, "checkKv")
    /\ Goto(t, "findZset")
    /\ UNCHANGED <<kv_, zsets_, index, call, found, ans>>

\* zset_add refuses a key that holds a string ...
CheckKv(t) ==
    /\ At(t, "checkKv")
    /\ IF kv_[key[t]] = Missing THEN Goto(t, "findZset") /\ UNCHANGED <<key, todo, ans>>
       ELSE Done(t, Result(Refused, Missing, {}))
    /\ UNCHANGED <<kv_, zsets_, index, arg, found>>

\* ... and looks for its sorted set, as zset_rmv and zset_zrange do.
FindZset(t) ==
    LET o == zsets_[key[t]] IN
    /\ At(t, "findZset")
    /\ zset' = [zset EXCEPT ![t] = o]
    /\ IF o # Missing \/ arg[t].op = "zadd"
       THEN /\ Goto(t, IF o = Missing THEN "emplaceZset"
                       ELSE IF arg[t].op = "zrange" THEN "range" ELSE "findScore")
            /\ UNCHANGED <<key, todo, ans>>
       ELSE Done(t, Result(IF arg[t].op = "zrange" THEN "404" ELSE "200", Missing, {}))
    /\ UNCHANGED <<kv_, zsets_, index, arg, old>>

\* A faulty variant: the zadd goes on with its own object.
EmplaceZsetOwn(t) ==
    /\ At(t, "emplaceZset")
    /\ \E o \in ZSets : /\ ~Alive(o)
                        /\ zsets_' = [zsets_ EXCEPT ![key[t]] = IF @ = Missing THEN o ELSE @]
                        /\ zset' = [zset EXCEPT ![t] = o]
    /\ Goto(t, "findScore")
    /\ UNCHANGED <<kv_, index, call, old, ans>>

\* zset_add emplaces a new object, or gets the one another zadd was first with.
EmplaceZset(t) ==
    /\ At(t, "emplaceZset")
    /\ \E o \in ZSets : /\ IF zsets_[key[t]] = Missing THEN ~Alive(o) ELSE o = zsets_[key[t]]
                        /\ zsets_' = [zsets_ EXCEPT ![key[t]] = o]
                        /\ zset' = [zset EXCEPT ![t] = o]
    /\ Goto(t, "findScore")
    /\ UNCHANGED <<kv_, index, call, old, ans>>

-----------------------------------------------------------------------------
\* The methods of zset.  The last step lets go of the object.  (A faulty variant
\* does not.)
ReturnsHolding(t, result) == Done(t, result) /\ old' = [old EXCEPT ![t] = Missing] /\ zset' = zset
Returns(t, result) == /\ Done(t, result)
                      /\ zset' = [zset EXCEPT ![t] = Missing]
                      /\ old' = [old EXCEPT ![t] = Missing]

\* zadd and zrmv find the score of the value; the iterator keeps it.
FindScore(t) ==
    LET s == value_to_score_[zset[t]][arg[t].member] IN
    /\ At(t, "findScore")
    /\ IF s = Missing /\ arg[t].op = "zrmv"
       THEN Returns(t, Result("200", Missing, {}))
       ELSE /\ old' = [old EXCEPT ![t] = s]
            /\ Goto(t, IF s = Missing THEN "link" ELSE "unlink")
            /\ UNCHANGED <<key, todo, zset, ans>>
    /\ UNCHANGED <<kv_, zsets_, arg>>
    /\ Contents(value_to_score_, score_to_values_)

Without(o, s, m) == [score_to_values_ EXCEPT ![o][s] = @ \ {m}]
With(o, s, m)    == [score_to_values_ EXCEPT ![o][s] = @ \cup {m}]

\* A faulty variant: the value stays in the set of its old score.
UnlinkForgotten(t) ==
    /\ At(t, "unlink")
    /\ IF arg[t].op = "zadd" THEN Goto(t, "link") /\ UNCHANGED <<key, todo, found, ans>>
       ELSE Returns(t, Result("200", Missing, {}))
    /\ UNCHANGED <<kv_, zsets_, arg>>
    /\ Contents(value_to_score_, score_to_values_)

\* Under the lock the value leaves the set of that score.  zrmv is done: it leaves
\* the score in value_to_score_.
Unlink(t) ==
    /\ At(t, "unlink")
    /\ IF arg[t].op = "zadd" THEN Goto(t, "link") /\ UNCHANGED <<key, todo, found, ans>>
       ELSE Returns(t, Result("200", Missing, {}))
    /\ UNCHANGED <<kv_, zsets_, arg>>
    /\ Contents(value_to_score_, Without(zset[t], old[t], arg[t].member))

\* Under the lock, taken again, zadd puts the value into the set of its new score ...
Link(t) ==
    /\ At(t, "link")
    /\ score_to_values_' = With(zset[t], arg[t].score, arg[t].member)
    /\ Goto(t, "eraseScore")
    /\ UNCHANGED <<kv_, zsets_, value_to_score_, call, found, ans>>

\* ... and replaces its score, unless there is one again.
EraseScore(t) ==
    /\ At(t, "eraseScore")
    /\ value_to_score_' = [value_to_score_ EXCEPT ![zset[t]][arg[t].member] = Missing]
    /\ Goto(t, "emplaceScore")
    /\ UNCHANGED <<kv_, zsets_, score_to_values_, call, found, ans>>

EmplaceScore(t) ==
    /\ At(t, "emplaceScore")
    /\ Returns(t, Result("200", Missing, {}))
    /\ UNCHANGED <<kv_, zsets_, arg>>
    /\ Contents([value_to_score_ EXCEPT ![zset[t]][arg[t].member] =
                   IF @ = Missing THEN arg[t].score ELSE @], score_to_values_)

EntriesOf(o) == {e \in Entries : o # Missing /\ e.member \in score_to_values_[o][e.score]}

Within(es, r) == {e \in es : r.score <= e.score /\ e.score <= r.max_score}

\* A faulty variant: the upper bound is excluded.
RangeExclusive(t) ==
    LET es == {e \in Within(EntriesOf(zset[t]), arg[t]) : e.score < arg[t].max_score} IN
    /\ At(t, "range")
    /\ Returns(t, Result("200", Missing, es))
    /\ UNCHANGED <<kv_, zsets_, arg>>
    /\ Contents(value_to_score_, score_to_values_)

\* Under the shared lock zrange copies the sets of its scores.
Range(t) ==
    /\ At(t, "range")
    /\ Returns(t, Result("200", Missing, Within(EntriesOf(zset[t]), arg[t])))
    /\ UNCHANGED <<kv_, zsets_, arg>>
    /\ Contents(value_to_score_, score_to_values_)

Answer(t) == /\ At(t, "answer")
             /\ Goto(t, "idle")
             /\ arg' = [arg EXCEPT ![t] = NoRequest]
             /\ key' = [key EXCEPT ![t] = Missing]
             /\ ans' = [ans EXCEPT ![t] = [k \in Keys |-> NoResult]]
             /\ UNCHANGED <<kv_, zsets_, index, todo, found>>

Step(t) == \/ FindKv(t) \/ EraseKv(t) \/ EraseZset(t) \/ EmplaceKv(t)
           \/ CheckKv(t) \/ FindZset(t) \/ EmplaceZset(t)
           \/ FindScore(t) \/ Unlink(t) \/ Link(t) \/ EraseScore(t) \/ EmplaceScore(t)
           \/ Range(t)

Next == \E t \in Threads : Call(t) \/ Step(t) \/ Answer(t)

Spec == Init /\ [][Next]_vars

-----------------------------------------------------------------------------
UsesZset == {"findScore", "unlink", "link", "eraseScore", "emplaceScore", "range"}

\* Types, and: a thread holds an object just while it runs a method of it, and
\* unlinks a value from a score it has found.
TypeOK ==
    /\ kv_ \in [Keys -> Data \cup {Missing}]
    /\ zsets_ \in [Keys -> ZSets \cup {Missing}]
    /\ value_to_score_ \in [ZSets -> [Members -> Scores \cup {Missing}]]
    /\ score_to_values_ \in [ZSets -> [Scores -> SUBSET Members]]
    /\ arg \in [Threads -> Requests \cup {NoRequest}]
    /\ \A t \in Threads :
         /\ pc[t] = "idle" <=> arg[t] = NoRequest
         /\ pc[t] # "idle" => key[t] \in arg[t].keys /\ todo[t] \subseteq arg[t].keys \ {key[t]}
         /\ zset[t] # Missing <=> pc[t] \in UsesZset
         /\ pc[t] = "unlink" => old[t] \in Scores

\* README on /zadd and /add: a key that was added refuses a zadd, and an add
\* replaces a sorted set.  So no key is both.
KeyExclusive == \A k \in Keys : kv_[k] = Missing \/ zsets_[k] = Missing

\* No zrange lists a value under two scores, although a zadd that changes the score
\* takes the lock twice and zrmv leaves scores behind.
ListedOnce ==
    \A o \in ZSets, m \in Members, s1, s2 \in Scores :
        m \in score_to_values_[o][s1] \cap score_to_values_[o][s2] => s1 = s2
=============================================================================
