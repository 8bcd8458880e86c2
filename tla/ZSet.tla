------------------------------- MODULE ZSet -------------------------------
(***************************************************************************)
(* One sorted set of the Rust server (rust/src/storage.rs): two indexes,   *)
(* a lock-free map from values to scores and a locked tree from scores to  *)
(* values, and its rows in the zset RocksDB.  Handlers run on the worker   *)
(* threads of the tokio runtime and update the three copies one after the  *)
(* other: no lock is held across them.                                     *)
(***************************************************************************)
EXTENDS Naturals

CONSTANTS Threads,   \* request handlers that run at the same time
          Values,    \* members the sorted set may hold
          Scores,    \* scores (u32)
          Serialized, \* no value is in two writing requests at a time
          Missing    \* no score

ASSUME ScoresAssumption  == Scores \subseteq Nat /\ Missing \notin Scores
ASSUME SerializedAssumption == Serialized \in BOOLEAN

VARIABLES created,          \* the map Storage.zsets holds the key
          value_to_score,   \* ZSet.value_to_score
          score_to_values,  \* ZSet.score_to_values; an absent entry is {}
          zset_db,          \* the rows of the key in zset_db
          pc,               \* pc[t]: the next step of thread t
          arg,              \* arg[t]: the call thread t serves
          old,              \* old[t]: the score thread t read or removed
          ans               \* ans[t]: the answer thread t is about to send

index == <<value_to_score, score_to_values>>
vars  == <<created, index, zset_db, pc, arg, old, ans>>

NoCall   == [op |-> "none", value |-> Missing, score |-> Missing]
NoAnswer == [status |-> "none", entries |-> {}]
Entries  == [value : Values, score : Scores]
Calls    == [op : {"zadd"}, value : Values, score : Scores]
              \cup [op : {"zrmv"}, value : Values, score : {Missing}]

ZaddSteps == {"put", "getOrInsert", "getScore", "move", "setScore", "setNew", "link"}
ZrmvSteps == {"find", "take", "delete", "unlink"}

-----------------------------------------------------------------------------
Link(sv, v, s)   == [sv EXCEPT ![s] = @ \cup {v}]
Unlink(sv, v, s) == [sv EXCEPT ![s] = @ \ {v}]

\* Faulty variants of Moved, which the properties must tell from the code's.
MovedLeavingOld(sv, v, from, to) == Link(sv, v, to)
MovedOutOnly(sv, v, from, to)    == Unlink(sv, v, from)

\* The value leaves the old score set and enters the new one in one critical section.
Moved(sv, v, from, to) == Link(Unlink(sv, v, from), v, to)

\* The members a reader of score_to_values sees.
Members == {e \in Entries : e.value \in score_to_values[e.score]}

\* A faulty variant: the upper bound is excluded.
RangeAnswerExclusive(lo, hi) ==
    [status  |-> IF ~created THEN "404" ELSE IF lo > hi THEN "closed" ELSE "200",
     entries |-> {e \in Members : created /\ lo <= e.score /\ e.score < hi}]

\* zrange(lo, hi): no sorted set is a 404; BTreeMap::range panics when lo > hi,
\* and the connection is closed without an answer.
RangeAnswer(lo, hi) ==
    [status  |-> IF ~created THEN "404" ELSE IF lo > hi THEN "closed" ELSE "200",
     entries |-> {e \in Members : created /\ lo <= e.score /\ e.score <= hi}]

Goto(t, step) == pc' = [pc EXCEPT ![t] = step]
At(t, step)   == pc[t] = step

-----------------------------------------------------------------------------
Init == /\ created = FALSE
        /\ value_to_score = [v \in Values |-> Missing]
        /\ score_to_values = [s \in Scores |-> {}]
        /\ zset_db = [v \in Values |-> Missing]
        /\ pc = [t \in Threads |-> "idle"]
        /\ arg = [t \in Threads |-> NoCall]
        /\ old = [t \in Threads |-> Missing]
        /\ ans = [t \in Threads |-> NoAnswer]

\* Thread t is before the last step of a zadd or zrmv of value v.
Writing(t, v) == pc[t] \in ZaddSteps \cup ZrmvSteps /\ arg[t].value = v
Quiet(v)      == \A t \in Threads : ~Writing(t, v)

\* A request reaches Storage::zadd or Storage::zrmv of the owning node.
Call(t) == /\ At(t, "idle")
           /\ \E c \in Calls :
                /\ Serialized => Quiet(c.value)
                /\ arg' = [arg EXCEPT ![t] = c]
                /\ Goto(t, IF c.op = "zadd" THEN "put" ELSE "find")
           /\ UNCHANGED <<created, index, zset_db, old, ans>>

\* Storage::zadd: zset_db.put_opt.
ZaddPut(t) == /\ At(t, "put")
              /\ zset_db' = [zset_db EXCEPT ![arg[t].value] = arg[t].score]
              /\ Goto(t, "getOrInsert")
              /\ UNCHANGED <<created, index, arg, old, ans>>

\* Storage::zadd_memory: zsets.get_or_insert.
ZaddGetOrInsert(t) == /\ At(t, "getOrInsert")
                      /\ created' = TRUE
                      /\ Goto(t, "getScore")
                      /\ UNCHANGED <<index, zset_db, arg, old, ans>>

\* value_to_score.get chooses among a move, a first insertion and no change.
ZaddGetScore(t) ==
    LET score == value_to_score[arg[t].value] IN
    /\ At(t, "getScore")
    /\ old' = [old EXCEPT ![t] = score]
    /\ Goto(t, IF score = Missing THEN "setNew"
               ELSE IF score = arg[t].score THEN "answer" ELSE "move")
    /\ UNCHANGED <<created, index, zset_db, arg, ans>>

\* The value changes its score set under the write lock of score_to_values ...
ZaddMove(t) ==
    /\ At(t, "move")
    /\ score_to_values' = Moved(score_to_values, arg[t].value, old[t], arg[t].score)
    /\ Goto(t, "setScore")
    /\ UNCHANGED <<created, value_to_score, zset_db, arg, old, ans>>

\* ... and value_to_score is written after the lock is released.
ZaddSetScore(t) ==
    /\ At(t, "setScore")
    /\ value_to_score' = [value_to_score EXCEPT ![arg[t].value] = arg[t].score]
    /\ Goto(t, "answer")
    /\ UNCHANGED <<created, score_to_values, zset_db, arg, old, ans>>

\* A value seen for the first time enters value_to_score first ...
ZaddSetNew(t) ==
    /\ At(t, "setNew")
    /\ value_to_score' = [value_to_score EXCEPT ![arg[t].value] = arg[t].score]
    /\ Goto(t, "link")
    /\ UNCHANGED <<created, score_to_values, zset_db, arg, old, ans>>

\* ... and score_to_values after it.
ZaddLink(t) ==
    /\ At(t, "link")
    /\ score_to_values' = Link(score_to_values, arg[t].value, arg[t].score)
    /\ Goto(t, "answer")
    /\ UNCHANGED <<created, value_to_score, zset_db, arg, old, ans>>

\* Storage::zrmv: zsets.get.
ZrmvFind(t) == /\ At(t, "find")
               /\ Goto(t, IF created THEN "take" ELSE "answer")
               /\ UNCHANGED <<created, index, zset_db, arg, old, ans>>

\* A faulty variant: the result of remove_with_guard is not tested.
ZrmvTakeUnchecked(t) ==
    LET v == arg[t].value IN
    /\ At(t, "take")
    /\ old' = [old EXCEPT ![t] = value_to_score[v]]
    /\ value_to_score' = [value_to_score EXCEPT ![v] = Missing]
    /\ Goto(t, "delete")
    /\ UNCHANGED <<created, score_to_values, zset_db, arg, ans>>

\* value_to_score.remove_with_guard removes the score and returns it.
ZrmvTake(t) ==
    LET v == arg[t].value IN
    /\ At(t, "take")
    /\ old' = [old EXCEPT ![t] = value_to_score[v]]
    /\ value_to_score' = [value_to_score EXCEPT ![v] = Missing]
    /\ Goto(t, IF value_to_score[v] = Missing THEN "answer" ELSE "delete")
    /\ UNCHANGED <<created, score_to_values, zset_db, arg, ans>>

\* A faulty variant: the row stays in zset_db.
ZrmvDeleteForgotten(t) == /\ At(t, "delete")
                          /\ Goto(t, "unlink")
                          /\ UNCHANGED <<created, index, zset_db, arg, old, ans>>

\* zset_db.delete_opt.
ZrmvDelete(t) == /\ At(t, "delete")
                 /\ zset_db' = [zset_db EXCEPT ![arg[t].value] = Missing]
                 /\ Goto(t, "unlink")
                 /\ UNCHANGED <<created, index, arg, old, ans>>

\* The value leaves the score set it was taken from, under the write lock.
ZrmvUnlink(t) ==
    /\ At(t, "unlink")
    /\ score_to_values' = Unlink(score_to_values, arg[t].value, old[t])
    /\ Goto(t, "answer")
    /\ UNCHANGED <<created, value_to_score, zset_db, arg, old, ans>>

\* Storage::zrange reads score_to_values under its read lock.
Zrange(t) == /\ At(t, "idle")
             /\ \E lo, hi \in Scores : ans' = [ans EXCEPT ![t] = RangeAnswer(lo, hi)]
             /\ Goto(t, "answer")
             /\ UNCHANGED <<created, index, zset_db, arg, old>>

\* The handler answers; zadd and zrmv answer 200 whatever they found.
Answer(t) == /\ At(t, "answer")
             /\ Goto(t, "idle")
             /\ arg' = [arg EXCEPT ![t] = NoCall]
             /\ old' = [old EXCEPT ![t] = Missing]
             /\ ans' = [ans EXCEPT ![t] = NoAnswer]
             /\ UNCHANGED <<created, index, zset_db>>

Step(t) == \/ Call(t)
           \/ ZaddPut(t) \/ ZaddGetOrInsert(t) \/ ZaddGetScore(t)
           \/ ZaddMove(t) \/ ZaddSetScore(t) \/ ZaddSetNew(t) \/ ZaddLink(t)
           \/ ZrmvFind(t) \/ ZrmvTake(t) \/ ZrmvDelete(t) \/ ZrmvUnlink(t)
           \/ Zrange(t) \/ Answer(t)

Next == \E t \in Threads : Step(t)

Spec == Init /\ [][Next]_vars

-----------------------------------------------------------------------------
\* Types of the two indexes, the rows and the handlers' registers: a handler
\* unlinks a value only from a score it has found.
TypeOK ==
    /\ created \in BOOLEAN
    /\ value_to_score \in [Values -> Scores \cup {Missing}]
    /\ score_to_values \in [Scores -> SUBSET Values]
    /\ zset_db \in [Values -> Scores \cup {Missing}]
    /\ pc \in [Threads -> {"idle", "answer"} \cup ZaddSteps \cup ZrmvSteps]
    /\ arg \in [Threads -> [op : {"none", "zadd", "zrmv"},
                            value : Values \cup {Missing},
                            score : Scores \cup {Missing}]]
    /\ old \in [Threads -> Scores \cup {Missing}]
    /\ \A t \in Threads : pc[t] \in {"move", "delete", "unlink"} => old[t] \in Scores
    /\ ans \in [Threads -> [status : {"none", "200", "404", "closed"},
                            entries : SUBSET Entries]]

\* When no zadd or zrmv of a value is in progress, the two indexes and the
\* RocksDB rows agree on it: score_to_values lists it under the score
\* value_to_score holds, and under no other, and a restart would load that score.
IndexesAgree ==
    \A v \in Values : Quiet(v) =>
        /\ zset_db[v] = value_to_score[v]
        /\ \A s \in Scores : v \in score_to_values[s] <=> value_to_score[v] = s

\* A zrange never returns a value under two scores: zadd of a value that
\* exists updates its score.
ListedOnce ==
    \A v \in Values, s1, s2 \in Scores :
        v \in score_to_values[s1] /\ v \in score_to_values[s2] => s1 = s2

\* A value a zrange can see disappears only when a zrmv of it takes effect:
\* a zadd that changes the score never hides the value.
Listed(v) == \E s \in Scores : v \in score_to_values[s]
OnlyZrmvHides ==
    [][\A v \in Values : Listed(v) /\ ~Listed(v)' =>
         \E t \in Threads : arg[t].op = "zrmv" /\ arg[t].value = v]_vars

-----------------------------------------------------------------------------
\* The refinement mapping: a call has taken effect once score_to_values shows it.
Phase(t) == IF pc[t] = "idle" THEN "idle"
            ELSE IF pc[t] \in {"setScore", "answer"} THEN "applied" ELSE "called"

Abstract == INSTANCE SortedSet WITH entries <- Members,
                                    phase   <- [t \in Threads |-> Phase(t)]

\* With one writer per value at a time the sorted set is linearizable: every
\* handler's steps amount to one atomic zadd, zrmv or zrange.
Linearizable == Abstract!Spec
=============================================================================
