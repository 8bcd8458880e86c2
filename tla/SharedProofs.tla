---------------------------- MODULE SharedProofs ----------------------------
(***************************************************************************)
(* Proofs about SharedStorage and SharedHistory, for any number of         *)
(* threads, keys, members, scores and objects.                             *)
(***************************************************************************)
EXTENDS SharedHistory, TLAPS

MaybeScore == Scores \cup {Missing}
ScoreMap   == [Members -> MaybeScore]
ValueSets  == [Scores -> SUBSET Members]
Answers    == [status : {"none", "200", "404", "400"}, data : Data \cup {Missing},
               entries : SUBSET Entries]

\* The steps of each request.
StepsOf == [query  |-> {"findKv"},
            list   |-> {"findKv"},
            add    |-> {"eraseKv", "eraseZset", "emplaceKv"},
            batch  |-> {"eraseKv", "eraseZset", "emplaceKv"},
            del    |-> {"eraseKv", "eraseZset"},
            zadd   |-> {"checkKv", "findZset", "emplaceZset", "findScore", "unlink", "link",
                        "eraseScore", "emplaceScore"},
            zrange |-> {"findZset", "range"},
            zrmv   |-> {"findZset", "findScore", "unlink"}]
Steps == {"idle", "answer", "findKv", "eraseKv", "eraseZset", "emplaceKv", "checkKv", "findZset",
          "emplaceZset"} \cup UsesZset
OpNames == {"query", "list", "add", "batch", "del", "zadd", "zrange", "zrmv"}

StoreType ==
    /\ kv_ \in [Keys -> Data \cup {Missing}]
    /\ zsets_ \in [Keys -> ZSets \cup {Missing}]
    /\ value_to_score_ \in [ZSets -> ScoreMap]
    /\ score_to_values_ \in [ZSets -> ValueSets]

ThreadType ==
    /\ pc \in [Threads -> Steps]
    /\ arg \in [Threads -> Requests \cup {NoRequest}]
    /\ key \in [Threads -> Keys \cup {Missing}]
    /\ todo \in [Threads -> SUBSET Keys]
    /\ zset \in [Threads -> ZSets \cup {Missing}]
    /\ old \in [Threads -> MaybeScore]
    /\ ans \in [Threads -> [Keys -> Answers]]

\* A thread is at a step of its request, at one of its keys, with others to do.
ThreadInv(t) ==
    /\ pc[t] = "idle" <=> arg[t] = NoRequest
    /\ pc[t] # "idle" => key[t] \in arg[t].keys /\ todo[t] \subseteq arg[t].keys \ {key[t]}
    /\ ~Running(t) => todo[t] = {}
    /\ Running(t) => pc[t] \in StepsOf[arg[t].op]
    /\ zset[t] # Missing <=> pc[t] \in UsesZset
    /\ pc[t] = "unlink" => old[t] \in Scores

TypeInv == StoreType /\ ThreadType /\ \A t \in Threads : ThreadInv(t)

-----------------------------------------------------------------------------
(* Requests and the steps they start with. *)

Single == {"query", "add", "del", "zadd", "zrange", "zrmv"}

LEMMA RequestFields ==
    ASSUME NEW r \in Requests
    PROVE  /\ r.op \in OpNames
           /\ r.keys \subseteq Keys /\ r.keys # {}
           /\ r.op \in Single => \E k \in Keys : r.keys = {k}
           /\ r.op \in {"add", "batch"} => r.data \in Data
           /\ r.op \in {"zadd", "zrmv"} => r.member \in Members
           /\ r.op = "zadd" => r.score \in Scores
           /\ r.op \notin {"zadd", "zrmv"} => r.member = Missing
           /\ r # NoRequest
<1> USE DEF Single
<1>1. CASE r.op = "query"
  BY <1>1, SharedAssumption DEF Requests, OpNames, NoRequest
<1>2. CASE r.op = "add"
  BY <1>2, SharedAssumption DEF Requests, OpNames, NoRequest
<1>3. CASE r.op = "batch"
  BY <1>3, SharedAssumption DEF Requests, OpNames, NoRequest
<1>4. CASE r.op = "del"
  BY <1>4, SharedAssumption DEF Requests, OpNames, NoRequest
<1>5. CASE r.op = "list"
  BY <1>5, SharedAssumption DEF Requests, OpNames, NoRequest
<1>6. CASE r.op = "zadd"
  BY <1>6, SharedAssumption DEF Requests, OpNames, NoRequest
<1>7. CASE r.op = "zrange"
  BY <1>7, SharedAssumption DEF Requests, OpNames, NoRequest
<1>8. CASE r.op = "zrmv"
  BY <1>8, SharedAssumption DEF Requests, OpNames, NoRequest
<1>9. r.op \in OpNames
  BY DEF Requests, OpNames
<1> QED BY <1>1, <1>2, <1>3, <1>4, <1>5, <1>6, <1>7, <1>8, <1>9 DEF OpNames

LEMMA FirstStep ==
    ASSUME NEW op \in OpNames
    PROVE  /\ First(op) \in StepsOf[op]
           /\ First(op) \in {"findKv", "eraseKv", "checkKv", "findZset"}
           /\ First(op) = "findKv" => op \in {"query", "list"}
           /\ First(op) = "findZset" => op \in {"zrange", "zrmv"}
           /\ StepsOf[op] \subseteq Steps
BY DEF OpNames, First, StepsOf, Steps, UsesZset

\* What can be said of a thread that runs.
LEMMA RunningFacts ==
    ASSUME TypeInv, NEW t \in Threads, Running(t)
    PROVE  /\ arg[t] \in Requests /\ arg[t].op \in OpNames
           /\ key[t] \in Keys /\ key[t] \in arg[t].keys
           /\ todo[t] \subseteq arg[t].keys \ {key[t]} /\ arg[t].keys \subseteq Keys
           /\ arg[t].op \in Single => todo[t] = {} /\ arg[t].keys = {key[t]}
           /\ pc[t] \in StepsOf[arg[t].op]
<1>1. arg[t] \in Requests /\ key[t] \in arg[t].keys /\ todo[t] \subseteq arg[t].keys \ {key[t]}
      /\ pc[t] \in StepsOf[arg[t].op]
  BY DEF TypeInv, ThreadType, ThreadInv, Running
<1> QED BY <1>1, RequestFields

\* Which requests take a step.
LEMMA StepOps ==
    ASSUME TypeInv, NEW t \in Threads, Running(t)
    PROVE  /\ pc[t] = "findKv" <=> arg[t].op \in {"query", "list"}
           /\ pc[t] \in {"eraseKv", "eraseZset"} => arg[t].op \in {"add", "batch", "del"}
           /\ pc[t] = "emplaceKv" => arg[t].op \in {"add", "batch"}
           /\ pc[t] \in {"checkKv", "emplaceZset", "link", "eraseScore", "emplaceScore"} =>
                arg[t].op = "zadd"
           /\ pc[t] = "findZset" => arg[t].op \in {"zadd", "zrange", "zrmv"}
           /\ pc[t] \in {"findScore", "unlink"} => arg[t].op \in {"zadd", "zrmv"}
           /\ pc[t] = "range" => arg[t].op = "zrange"
           /\ arg[t].op = "zrange" => pc[t] \in {"findZset", "range"}
BY RunningFacts DEF StepsOf, OpNames

-----------------------------------------------------------------------------
(* Each step keeps the types, and the registers of all other threads. *)

Same(u) == /\ pc'[u] = pc[u] /\ arg'[u] = arg[u] /\ key'[u] = key[u] /\ todo'[u] = todo[u]
           /\ zset'[u] = zset[u] /\ old'[u] = old[u] /\ ans'[u] = ans[u]

Keeps(t) == /\ ThreadType'
            /\ \A u \in Threads \ {t} : Same(u)
            /\ ThreadInv(t)'

\* What becomes of a thread that is done with its key.
LastKey(t) == /\ todo[t] = {} /\ todo'[t] = {}
              /\ pc'[t] = "answer" /\ key'[t] = key[t]
TurnsTo(t) == /\ key'[t] \in todo[t] /\ todo'[t] = todo[t] \ {key'[t]}
              /\ pc'[t] = First(arg[t].op)
              /\ arg[t].op \in {"batch", "list"}
              /\ pc'[t] = IF arg[t].op = "batch" THEN "eraseKv" ELSE "findKv"

LEMMA NextKeyEffect ==
    ASSUME TypeInv, NEW t \in Threads, Running(t), NextKey(t)
    PROVE  /\ pc' \in [Threads -> Steps] /\ key' \in [Threads -> Keys \cup {Missing}]
           /\ todo' \in [Threads -> SUBSET Keys]
           /\ \A u \in Threads \ {t} : pc'[u] = pc[u] /\ key'[u] = key[u] /\ todo'[u] = todo[u]
           /\ LastKey(t) \/ TurnsTo(t)
<1>1. /\ pc \in [Threads -> Steps] /\ key \in [Threads -> Keys \cup {Missing}]
      /\ todo \in [Threads -> SUBSET Keys]
  BY DEF TypeInv, ThreadType
<1>2. /\ First(arg[t].op) \in Steps /\ arg[t].op \in OpNames
  <2> USE RunningFacts
  <2> QED BY FirstStep
<1>3. CASE todo[t] = {}
  BY <1>1, <1>3 DEF NextKey, Goto, LastKey, Steps
<1>4. CASE todo[t] # {}
  <2>1. PICK k \in todo[t] : /\ key' = [key EXCEPT ![t] = k]
                             /\ todo' = [todo EXCEPT ![t] = @ \ {k}]
                             /\ pc' = [pc EXCEPT ![t] = First(arg[t].op)]
    BY <1>4 DEF NextKey, Goto
  <2>2. k \in Keys /\ todo[t] \subseteq Keys
    BY <1>1
  <2>3. arg[t].op \in {"batch", "list"}
    BY <1>2, <1>4, RunningFacts DEF Single, OpNames
  <2>4. TurnsTo(t)
    BY <1>1, <2>1, <2>3 DEF TurnsTo, First
  <2> QED BY <1>1, <1>2, <2>1, <2>2, <2>4
<1> QED BY <1>3, <1>4

LEMMA DoneEffect ==
    ASSUME TypeInv, NEW t \in Threads, Running(t), NEW a \in Answers, Done(t, a)
    PROVE  /\ pc' \in [Threads -> Steps] /\ key' \in [Threads -> Keys \cup {Missing}]
           /\ todo' \in [Threads -> SUBSET Keys] /\ ans' \in [Threads -> [Keys -> Answers]]
           /\ \A u \in Threads \ {t} : /\ pc'[u] = pc[u] /\ key'[u] = key[u] /\ todo'[u] = todo[u]
                                       /\ ans'[u] = ans[u]
           /\ ans'[t] = [ans[t] EXCEPT ![key[t]] = a]
           /\ LastKey(t) \/ TurnsTo(t)
<1>1. ans \in [Threads -> [Keys -> Answers]] /\ key[t] \in Keys
  BY RunningFacts DEF TypeInv, ThreadType
<1>2. NextKey(t) /\ ans' = [ans EXCEPT ![t][key[t]] = a]
  BY DEF Done
<1>3. /\ ans' \in [Threads -> [Keys -> Answers]]
      /\ \A u \in Threads \ {t} : ans'[u] = ans[u]
      /\ ans'[t] = [ans[t] EXCEPT ![key[t]] = a]
  BY <1>1, <1>2
<1> QED BY <1>2, <1>3, NextKeyEffect

\* The answers of the methods.
LEMMA AnswerTypes ==
    ASSUME NEW s \in {"none", "200", "404", "400"}, NEW x \in Data \cup {Missing},
           NEW es \in SUBSET Entries
    PROVE  Result(s, x, es) \in Answers
BY DEF Result, Answers

\* The contents of the objects that are referred to, and nothing in the others.
LEMMA ContentsType ==
    ASSUME NEW scores \in [ZSets -> ScoreMap], NEW values \in [ZSets -> ValueSets],
           Contents(scores, values)
    PROVE  /\ value_to_score_' \in [ZSets -> ScoreMap]
           /\ score_to_values_' \in [ZSets -> ValueSets]
<1>1. NoScores \in ScoreMap /\ NoMembers \in ValueSets
  BY DEF NoScores, NoMembers, ScoreMap, ValueSets, MaybeScore
<1> QED BY <1>1 DEF Contents

\* A thread that is done with its key stops, or turns to the next one.
LEMMA DoneKeeps ==
    ASSUME TypeInv, NEW t \in Threads, Running(t), NEW a \in Answers, Done(t, a),
           arg' = arg, zset' \in [Threads -> ZSets \cup {Missing}],
           old' \in [Threads -> MaybeScore], zset'[t] = Missing,
           \A u \in Threads \ {t} : zset'[u] = zset[u] /\ old'[u] = old[u]
    PROVE  Keeps(t)
<1>1. ThreadType' /\ \A u \in Threads \ {t} : Same(u)
  <2>1. arg' \in [Threads -> Requests \cup {NoRequest}]
    BY DEF TypeInv, ThreadType
  <2> QED BY <2>1, DoneEffect DEF ThreadType, Same
<1>2. LastKey(t) \/ TurnsTo(t)
  BY DoneEffect
<1>3. /\ arg[t] \in Requests /\ arg[t] # NoRequest /\ arg'[t] = arg[t]
      /\ key[t] \in arg[t].keys /\ todo[t] \subseteq arg[t].keys \ {key[t]}
  BY RunningFacts, RequestFields
<1>4. ASSUME LastKey(t) PROVE ThreadInv(t)'
  BY <1>3, <1>4 DEF ThreadInv, LastKey, Running, UsesZset
<1>5. ASSUME TurnsTo(t) PROVE ThreadInv(t)'
  <2>1. arg[t].op \in {"batch", "list"} /\ pc'[t] \in StepsOf[arg[t].op]
        /\ pc'[t] \in {"eraseKv", "findKv"}
    BY <1>5 DEF TurnsTo, StepsOf
  <2>2. key'[t] \in arg[t].keys /\ todo'[t] \subseteq arg[t].keys \ {key'[t]}
    BY <1>3, <1>5 DEF TurnsTo
  <2> QED BY <1>3, <2>1, <2>2 DEF ThreadInv, Running, UsesZset
<1> QED BY <1>1, <1>2, <1>4, <1>5 DEF Keeps

\* A thread that goes on with its key.
LEMMA GotoKeeps ==
    ASSUME TypeInv, NEW t \in Threads, Running(t), NEW step \in Steps, Goto(t, step),
           UNCHANGED <<call, ans>>, step \in StepsOf[arg[t].op], step \notin {"idle", "answer"},
           zset' \in [Threads -> ZSets \cup {Missing}], old' \in [Threads -> MaybeScore],
           zset'[t] # Missing <=> step \in UsesZset, step = "unlink" => old'[t] \in Scores,
           \A u \in Threads \ {t} : zset'[u] = zset[u] /\ old'[u] = old[u]
    PROVE  Keeps(t) /\ pc'[t] = step
<1>1. pc' = [pc EXCEPT ![t] = step] /\ arg' = arg /\ key' = key /\ todo' = todo /\ ans' = ans
  BY DEF Goto, call
<1>2. pc \in [Threads -> Steps]
  BY DEF TypeInv, ThreadType
<1>3. pc' \in [Threads -> Steps] /\ pc'[t] = step /\ \A u \in Threads \ {t} : pc'[u] = pc[u]
  BY <1>1, <1>2
<1>4. ThreadType' /\ \A u \in Threads \ {t} : Same(u)
  BY <1>1, <1>3 DEF ThreadType, Same, TypeInv
<1>5. ThreadInv(t) /\ arg[t] # NoRequest
  BY RunningFacts, RequestFields DEF TypeInv
<1>6. ThreadInv(t)'
  BY <1>1, <1>3, <1>5 DEF ThreadInv, Running
<1> QED BY <1>3, <1>4, <1>6 DEF Keeps

\* A method of zset that returns lets go of the object.
LEMMA ReturnsKeeps ==
    ASSUME TypeInv, NEW t \in Threads, Running(t), NEW a \in Answers, Returns(t, a), arg' = arg
    PROVE  Keeps(t) /\ zset'[t] = Missing /\ (LastKey(t) \/ TurnsTo(t))
           /\ ans'[t] = [ans[t] EXCEPT ![key[t]] = a]
<1>1. Done(t, a) /\ zset' = [zset EXCEPT ![t] = Missing] /\ old' = [old EXCEPT ![t] = Missing]
  BY DEF Returns
<1>2. Missing \in MaybeScore
  BY DEF MaybeScore
<1>3. /\ zset' \in [Threads -> ZSets \cup {Missing}] /\ zset'[t] = Missing
      /\ old' \in [Threads -> MaybeScore]
      /\ \A u \in Threads \ {t} : zset'[u] = zset[u] /\ old'[u] = old[u]
  BY <1>1, <1>2 DEF TypeInv, ThreadType
<1>4. Keeps(t)
  BY <1>1, <1>3, DoneKeeps
<1> QED BY <1>1, <1>3, <1>4, DoneEffect

-----------------------------------------------------------------------------
(* The steps, one by one. *)

Stays(t) == arg'[t] = arg[t] /\ key'[t] = key[t] /\ todo'[t] = todo[t] /\ ans'[t] = ans[t]
Turns(t) == LastKey(t) \/ TurnsTo(t)
Tells(t, a) == ans'[t] = [ans[t] EXCEPT ![key[t]] = a]

LEMMA FindKvKeeps ==
    ASSUME TypeInv, NEW t \in Threads, FindKv(t)
    PROVE  /\ Keeps(t) /\ Turns(t) /\ Running(t)
           /\ Tells(t, Result(IF kv_[key[t]] = Missing THEN "404" ELSE "200", kv_[key[t]], {}))
<1> DEFINE a == Result(IF kv_[key[t]] = Missing THEN "404" ELSE "200", kv_[key[t]], {})
<1>1. Running(t) /\ Done(t, a) /\ arg' = arg /\ zset' = zset /\ old' = old
  BY DEF FindKv, Running, At, found
<1>2. a \in Answers
  <2>1. kv_[key[t]] \in Data \cup {Missing}
    BY <1>1, RunningFacts DEF TypeInv, StoreType
  <2> QED BY <2>1, AnswerTypes
<1>3. zset[t] = Missing
  BY DEF TypeInv, ThreadInv, FindKv, At, UsesZset
<1> HIDE DEF a
<1>4. Keeps(t)
  BY <1>1, <1>2, <1>3, DoneKeeps DEF TypeInv, ThreadType
<1> QED BY <1>1, <1>2, <1>4, DoneEffect DEF Turns, Tells, a

LEMMA EraseKvKeeps ==
    ASSUME TypeInv, NEW t \in Threads, EraseKv(t)
    PROVE  Keeps(t) /\ Stays(t) /\ pc'[t] = "eraseZset" /\ Running(t) /\ zset'[t] = Missing
           /\ kv_' \in [Keys -> Data \cup {Missing}]
<1>1. Running(t) /\ Goto(t, "eraseZset") /\ UNCHANGED <<call, ans, zset, old>> /\ pc[t] = "eraseKv"
  BY DEF EraseKv, Running, At, found
<1>2. zset[t] = Missing /\ "eraseZset" \in StepsOf[arg[t].op]
  BY <1>1, StepOps DEF TypeInv, ThreadInv, UsesZset, StepsOf
<1>3. kv_' \in [Keys -> Data \cup {Missing}]
  BY DEF EraseKv, TypeInv, StoreType
<1>4. Keeps(t) /\ pc'[t] = "eraseZset"
  BY <1>1, <1>2, GotoKeeps DEF TypeInv, ThreadType, UsesZset, Steps
<1> QED BY <1>1, <1>2, <1>3, <1>4 DEF Stays, call

LEMMA EraseZsetKeeps ==
    ASSUME TypeInv, NEW t \in Threads, EraseZset(t)
    PROVE  /\ Keeps(t) /\ Running(t) /\ zset'[t] = Missing
           /\ IF arg[t].op = "del" THEN LastKey(t) ELSE Stays(t) /\ pc'[t] = "emplaceKv"
           /\ zsets_' \in [Keys -> ZSets \cup {Missing}]
<1>1. Running(t) /\ UNCHANGED <<arg, zset, old>> /\ pc[t] = "eraseZset"
  BY DEF EraseZset, Running, At, found
<1>2. zset[t] = Missing /\ arg[t].op \in {"add", "batch", "del"}
  BY <1>1, StepOps DEF TypeInv, ThreadInv, UsesZset
<1>3. zsets_' \in [Keys -> ZSets \cup {Missing}]
  BY DEF EraseZset, TypeInv, StoreType
<1>4. CASE arg[t].op = "del"
  <2>1. Done(t, Result("200", Missing, {})) /\ Result("200", Missing, {}) \in Answers
    BY <1>4, AnswerTypes DEF EraseZset
  <2>2. Keeps(t)
    BY <1>1, <1>2, <2>1, DoneKeeps DEF TypeInv, ThreadType
  <2>3. LastKey(t)
    BY <1>1, <1>4, <2>1, DoneEffect DEF TurnsTo
  <2> QED BY <1>1, <1>2, <1>3, <1>4, <2>2, <2>3
<1>5. CASE arg[t].op # "del"
  <2>1. Goto(t, "emplaceKv") /\ UNCHANGED <<call, ans>>
    BY <1>1, <1>5 DEF EraseZset, call
  <2>2. Keeps(t) /\ pc'[t] = "emplaceKv"
    BY <1>1, <1>2, <1>5, <2>1, GotoKeeps DEF TypeInv, ThreadType, UsesZset, Steps, StepsOf
  <2> QED BY <1>1, <1>2, <1>3, <1>5, <2>1, <2>2 DEF Stays, call
<1> QED BY <1>4, <1>5

LEMMA EmplaceKvKeeps ==
    ASSUME TypeInv, NEW t \in Threads, EmplaceKv(t)
    PROVE  /\ Keeps(t) /\ Turns(t) /\ Running(t) /\ zset'[t] = Missing
           /\ kv_' \in [Keys -> Data \cup {Missing}]
<1>1. /\ Running(t) /\ Done(t, Result("200", Missing, {})) /\ UNCHANGED <<arg, zset, old>>
      /\ pc[t] = "emplaceKv"
  BY DEF EmplaceKv, Running, At, found
<1>2. zset[t] = Missing /\ arg[t].op \in {"add", "batch"}
  BY <1>1, StepOps DEF TypeInv, ThreadInv, UsesZset
<1>3. arg[t].data \in Data
  BY <1>1, <1>2, RunningFacts, RequestFields
<1>4. kv_' \in [Keys -> Data \cup {Missing}]
  BY <1>3 DEF EmplaceKv, TypeInv, StoreType
<1>5. Result("200", Missing, {}) \in Answers
  BY AnswerTypes
<1>6. Keeps(t)
  BY <1>1, <1>2, <1>5, DoneKeeps DEF TypeInv, ThreadType
<1> QED BY <1>1, <1>2, <1>4, <1>5, <1>6, DoneEffect DEF Turns

LEMMA CheckKvKeeps ==
    ASSUME TypeInv, NEW t \in Threads, CheckKv(t)
    PROVE  /\ Keeps(t) /\ Running(t) /\ zset'[t] = Missing
           /\ IF kv_[key[t]] = Missing THEN Stays(t) /\ pc'[t] = "findZset" ELSE LastKey(t)
<1>1. Running(t) /\ UNCHANGED <<arg, zset, old>> /\ pc[t] = "checkKv"
  BY DEF CheckKv, Running, At, found
<1>2. zset[t] = Missing /\ arg[t].op = "zadd"
  BY <1>1, StepOps DEF TypeInv, ThreadInv, UsesZset
<1>3. CASE kv_[key[t]] = Missing
  <2>1. Goto(t, "findZset") /\ UNCHANGED <<call, ans>>
    BY <1>1, <1>3 DEF CheckKv, call
  <2>2. Keeps(t) /\ pc'[t] = "findZset"
    BY <1>1, <1>2, <2>1, GotoKeeps DEF TypeInv, ThreadType, UsesZset, Steps, StepsOf
  <2> QED BY <1>1, <1>2, <1>3, <2>1, <2>2 DEF Stays, call
<1>4. CASE kv_[key[t]] # Missing
  <2>1. Done(t, Result(Refused, Missing, {})) /\ Result(Refused, Missing, {}) \in Answers
    BY <1>4, AnswerTypes, SharedAssumption DEF CheckKv
  <2>2. Keeps(t)
    BY <1>1, <1>2, <2>1, DoneKeeps DEF TypeInv, ThreadType
  <2>3. LastKey(t)
    BY <1>1, <1>2, <2>1, DoneEffect DEF TurnsTo
  <2> QED BY <1>1, <1>2, <1>4, <2>2, <2>3
<1> QED BY <1>3, <1>4

LEMMA FindZsetKeeps ==
    ASSUME TypeInv, NEW t \in Threads, FindZset(t)
    PROVE  /\ Keeps(t) /\ Running(t) /\ zset'[t] = zsets_[key[t]]
           /\ IF zsets_[key[t]] # Missing \/ arg[t].op = "zadd"
              THEN /\ Stays(t)
                   /\ pc'[t] = IF zsets_[key[t]] = Missing THEN "emplaceZset"
                               ELSE IF arg[t].op = "zrange" THEN "range" ELSE "findScore"
              ELSE /\ LastKey(t)
                   /\ Tells(t, Result(IF arg[t].op = "zrange" THEN "404" ELSE "200", Missing, {}))
<1> DEFINE o == zsets_[key[t]]
           step == IF o = Missing THEN "emplaceZset"
                   ELSE IF arg[t].op = "zrange" THEN "range" ELSE "findScore"
           a == Result(IF arg[t].op = "zrange" THEN "404" ELSE "200", Missing, {})
<1>1. Running(t) /\ UNCHANGED <<arg, old>> /\ pc[t] = "findZset" /\ zset' = [zset EXCEPT ![t] = o]
  BY DEF FindZset, Running, At
<1>2. arg[t].op \in {"zadd", "zrange", "zrmv"} /\ key[t] \in Keys /\ o \in ZSets \cup {Missing}
  BY <1>1, StepOps, RunningFacts DEF TypeInv, StoreType
<1>3. /\ zset' \in [Threads -> ZSets \cup {Missing}] /\ zset'[t] = o
      /\ \A u \in Threads \ {t} : zset'[u] = zset[u]
  BY <1>1, <1>2 DEF TypeInv, ThreadType
<1>4. CASE o # Missing \/ arg[t].op = "zadd"
  <2>1. Goto(t, step) /\ UNCHANGED <<call, ans>>
    BY <1>1, <1>4 DEF FindZset, call
  <2>2. /\ step \in Steps /\ step \in StepsOf[arg[t].op] /\ step \notin {"idle", "answer"}
        /\ o # Missing <=> step \in UsesZset
        /\ step # "unlink"
    BY <1>2, <1>4 DEF Steps, StepsOf, UsesZset
  <2> HIDE DEF step
  <2>3. Keeps(t) /\ pc'[t] = step
    BY <1>1, <1>3, <2>1, <2>2, GotoKeeps DEF TypeInv, ThreadType
  <2> QED BY <1>1, <1>3, <1>4, <2>1, <2>3 DEF Stays, call, step
<1>5. CASE ~(o # Missing \/ arg[t].op = "zadd")
  <2>1. Done(t, a) /\ a \in Answers
    BY <1>5, AnswerTypes DEF FindZset
  <2> HIDE DEF a
  <2>2. Keeps(t)
    BY <1>1, <1>3, <1>5, <2>1, DoneKeeps DEF TypeInv, ThreadType
  <2>3. LastKey(t) /\ Tells(t, a)
    BY <1>1, <1>2, <2>1, DoneEffect DEF TurnsTo, Tells
  <2> QED BY <1>1, <1>3, <1>5, <2>2, <2>3 DEF a
<1> QED BY <1>4, <1>5

\* The object a zadd goes on with is in the map: another's, or a new one.
LEMMA EmplaceZsetKeeps ==
    ASSUME TypeInv, NEW t \in Threads, EmplaceZset(t)
    PROVE  /\ Keeps(t) /\ Stays(t) /\ Running(t) /\ pc'[t] = "findScore"
           /\ zsets_' = [zsets_ EXCEPT ![key[t]] = zset'[t]]
           /\ zset'[t] \in ZSets
           /\ IF zsets_[key[t]] = Missing THEN ~Alive(zset'[t]) ELSE zset'[t] = zsets_[key[t]]
           /\ zsets_' \in [Keys -> ZSets \cup {Missing}]
<1>1. /\ Running(t) /\ UNCHANGED <<call, old, ans>> /\ pc[t] = "emplaceZset"
      /\ Goto(t, "findScore")
  BY DEF EmplaceZset, Running, At
<1>2. PICK o \in ZSets : /\ IF zsets_[key[t]] = Missing THEN ~Alive(o) ELSE o = zsets_[key[t]]
                         /\ zsets_' = [zsets_ EXCEPT ![key[t]] = o]
                         /\ zset' = [zset EXCEPT ![t] = o]
  BY DEF EmplaceZset
<1>3. arg[t].op = "zadd" /\ o # Missing
  BY <1>1, StepOps, SharedAssumption
<1>4. /\ zset' \in [Threads -> ZSets \cup {Missing}] /\ zset'[t] = o
      /\ \A u \in Threads \ {t} : zset'[u] = zset[u]
  BY <1>2 DEF TypeInv, ThreadType
<1>5. zsets_' \in [Keys -> ZSets \cup {Missing}]
  BY <1>2 DEF TypeInv, StoreType
<1>6. Keeps(t) /\ pc'[t] = "findScore"
  BY <1>1, <1>3, <1>4, GotoKeeps DEF TypeInv, ThreadType, Steps, StepsOf, UsesZset
<1> QED BY <1>1, <1>2, <1>4, <1>5, <1>6 DEF Stays, call

\* What a method of zset works on.
LEMMA MethodFacts ==
    ASSUME TypeInv, NEW t \in Threads, pc[t] \in UsesZset
    PROVE  /\ zset[t] \in ZSets /\ Running(t) /\ zset[t] # Missing
           /\ arg[t].op \in {"zadd", "zrange", "zrmv"}
           /\ pc[t] # "range" => arg[t].member \in Members /\ arg[t].op \in {"zadd", "zrmv"}
           /\ arg[t].op = "zadd" => arg[t].score \in Scores
           /\ pc[t] = "unlink" => old[t] \in Scores
           /\ pc[t] \in {"link", "eraseScore", "emplaceScore"} => arg[t].op = "zadd"
           /\ pc[t] = "range" => arg[t].op = "zrange"
<1>1. Running(t)
  BY DEF Running, UsesZset
<1>2. zset[t] # Missing /\ (pc[t] = "unlink" => old[t] \in Scores)
  BY DEF TypeInv, ThreadInv
<1>3. zset[t] \in ZSets
  BY <1>2 DEF TypeInv, ThreadType
<1>4. /\ arg[t].op \in {"zadd", "zrange", "zrmv"}
      /\ pc[t] # "range" => arg[t].op \in {"zadd", "zrmv"}
      /\ pc[t] \in {"link", "eraseScore", "emplaceScore"} => arg[t].op = "zadd"
      /\ pc[t] = "range" => arg[t].op = "zrange"
  BY <1>1, StepOps DEF UsesZset
<1> QED BY <1>1, <1>2, <1>3, <1>4, RunningFacts, RequestFields

LEMMA FindScoreKeeps ==
    ASSUME TypeInv, NEW t \in Threads, FindScore(t)
    PROVE  LET s == value_to_score_[zset[t]][arg[t].member] IN
           /\ Keeps(t) /\ Running(t)
           /\ IF s = Missing /\ arg[t].op = "zrmv" THEN LastKey(t) /\ zset'[t] = Missing
              ELSE /\ Stays(t) /\ zset'[t] = zset[t] /\ old'[t] = s
                   /\ pc'[t] = IF s = Missing THEN "link" ELSE "unlink"
<1> DEFINE s == value_to_score_[zset[t]][arg[t].member]
           step == IF s = Missing THEN "link" ELSE "unlink"
<1>1. Running(t) /\ arg' = arg /\ pc[t] = "findScore"
  BY DEF FindScore, Running, At
<1>2. /\ arg[t].op \in {"zadd", "zrmv"} /\ arg[t].member \in Members /\ zset[t] \in ZSets
      /\ zset[t] # Missing
  BY <1>1, MethodFacts DEF UsesZset
<1>3. s \in MaybeScore
  BY <1>2 DEF TypeInv, StoreType, ScoreMap
<1>4. CASE s = Missing /\ arg[t].op = "zrmv"
  <2>1. Returns(t, Result("200", Missing, {})) /\ Result("200", Missing, {}) \in Answers
    BY <1>4, AnswerTypes DEF FindScore
  <2>2. Keeps(t) /\ zset'[t] = Missing /\ Turns(t)
    BY <1>1, <2>1, ReturnsKeeps DEF Turns
  <2> QED BY <1>1, <1>4, <2>2 DEF Turns, TurnsTo
<1>5. CASE ~(s = Missing /\ arg[t].op = "zrmv")
  <2>1. Goto(t, step) /\ UNCHANGED <<call, ans, zset>> /\ old' = [old EXCEPT ![t] = s]
    BY <1>1, <1>5 DEF FindScore, call
  <2>2. /\ old' \in [Threads -> MaybeScore] /\ old'[t] = s
        /\ \A u \in Threads \ {t} : old'[u] = old[u]
    BY <1>3, <2>1 DEF TypeInv, ThreadType
  <2>3. /\ step \in Steps /\ step \in StepsOf[arg[t].op] /\ step \notin {"idle", "answer"}
        /\ step \in UsesZset /\ (step = "unlink" => s \in Scores)
    BY <1>2, <1>3, <1>5 DEF Steps, StepsOf, UsesZset, MaybeScore
  <2> HIDE DEF step, s
  <2>4. Keeps(t) /\ pc'[t] = step
    BY <1>1, <1>2, <2>1, <2>2, <2>3, GotoKeeps DEF TypeInv, ThreadType
  <2> QED BY <1>1, <1>5, <2>1, <2>2, <2>4 DEF Stays, call, step, s
<1> QED BY <1>4, <1>5

LEMMA UnlinkKeeps ==
    ASSUME TypeInv, NEW t \in Threads, Unlink(t)
    PROVE  /\ Keeps(t) /\ Running(t)
           /\ IF arg[t].op = "zadd" THEN Stays(t) /\ pc'[t] = "link" /\ zset'[t] = zset[t]
              ELSE LastKey(t) /\ zset'[t] = Missing
<1>1. Running(t) /\ arg' = arg /\ pc[t] = "unlink"
  BY DEF Unlink, Running, At
<1>2. arg[t].op \in {"zadd", "zrmv"} /\ zset[t] \in ZSets /\ zset[t] # Missing
  BY <1>1, MethodFacts DEF UsesZset
<1>3. CASE arg[t].op = "zadd"
  <2>1. Goto(t, "link") /\ UNCHANGED <<call, ans, zset, old>>
    BY <1>1, <1>3 DEF Unlink, call, found
  <2>2. Keeps(t) /\ pc'[t] = "link"
    BY <1>1, <1>2, <1>3, <2>1, GotoKeeps DEF TypeInv, ThreadType, Steps, StepsOf, UsesZset
  <2> QED BY <1>1, <1>3, <2>1, <2>2 DEF Stays, call
<1>4. CASE arg[t].op # "zadd"
  <2>1. Returns(t, Result("200", Missing, {})) /\ Result("200", Missing, {}) \in Answers
    BY <1>4, AnswerTypes DEF Unlink
  <2>2. Keeps(t) /\ zset'[t] = Missing /\ Turns(t)
    BY <1>1, <2>1, ReturnsKeeps DEF Turns
  <2> QED BY <1>1, <1>2, <1>4, <2>2 DEF Turns, TurnsTo
<1> QED BY <1>3, <1>4

LEMMA LinkKeeps ==
    ASSUME TypeInv, NEW t \in Threads, Link(t)
    PROVE  /\ Keeps(t) /\ Running(t) /\ Stays(t) /\ pc'[t] = "eraseScore" /\ zset' = zset
           /\ score_to_values_' \in [ZSets -> ValueSets]
<1>1. /\ Running(t) /\ pc[t] = "link" /\ Goto(t, "eraseScore")
      /\ UNCHANGED <<call, ans, zset, old>>
  BY DEF Link, Running, At, found
<1>2. /\ arg[t].op = "zadd" /\ arg[t].member \in Members /\ arg[t].score \in Scores
      /\ zset[t] \in ZSets /\ zset[t] # Missing
  BY <1>1, MethodFacts DEF UsesZset
<1>3. score_to_values_' \in [ZSets -> ValueSets]
  BY <1>2 DEF Link, With, TypeInv, StoreType, ValueSets
<1>4. Keeps(t) /\ pc'[t] = "eraseScore"
  BY <1>1, <1>2, GotoKeeps DEF TypeInv, ThreadType, Steps, StepsOf, UsesZset
<1> QED BY <1>1, <1>3, <1>4 DEF Stays, call

LEMMA EraseScoreKeeps ==
    ASSUME TypeInv, NEW t \in Threads, EraseScore(t)
    PROVE  /\ Keeps(t) /\ Running(t) /\ Stays(t) /\ pc'[t] = "emplaceScore" /\ zset' = zset
           /\ value_to_score_' \in [ZSets -> ScoreMap]
<1>1. /\ Running(t) /\ pc[t] = "eraseScore" /\ Goto(t, "emplaceScore")
      /\ UNCHANGED <<call, ans, zset, old>>
  BY DEF EraseScore, Running, At, found
<1>2. /\ arg[t].op = "zadd" /\ arg[t].member \in Members
      /\ zset[t] \in ZSets /\ zset[t] # Missing
  BY <1>1, MethodFacts DEF UsesZset
<1>3. value_to_score_' \in [ZSets -> ScoreMap]
  BY <1>2 DEF EraseScore, TypeInv, StoreType, ScoreMap, MaybeScore
<1>4. Keeps(t) /\ pc'[t] = "emplaceScore"
  BY <1>1, <1>2, GotoKeeps DEF TypeInv, ThreadType, Steps, StepsOf, UsesZset
<1> QED BY <1>1, <1>3, <1>4 DEF Stays, call

LEMMA EmplaceScoreKeeps ==
    ASSUME TypeInv, NEW t \in Threads, EmplaceScore(t)
    PROVE  Keeps(t) /\ Running(t) /\ LastKey(t) /\ zset'[t] = Missing
<1>1. /\ Running(t) /\ pc[t] = "emplaceScore" /\ arg' = arg
      /\ Returns(t, Result("200", Missing, {})) /\ Result("200", Missing, {}) \in Answers
  BY AnswerTypes DEF EmplaceScore, Running, At
<1>2. Keeps(t) /\ zset'[t] = Missing /\ Turns(t)
  BY <1>1, ReturnsKeeps DEF Turns
<1>3. arg[t].op = "zadd"
  BY <1>1, StepOps
<1> QED BY <1>1, <1>2, <1>3 DEF Turns, TurnsTo

LEMMA RangeKeeps ==
    ASSUME TypeInv, NEW t \in Threads, Range(t)
    PROVE  /\ Keeps(t) /\ Running(t) /\ LastKey(t) /\ zset'[t] = Missing
           /\ Tells(t, Result("200", Missing, Within(EntriesOf(zset[t]), arg[t])))
<1> DEFINE a == Result("200", Missing, Within(EntriesOf(zset[t]), arg[t]))
<1>1. Running(t) /\ pc[t] = "range" /\ arg' = arg /\ Returns(t, a)
  BY DEF Range, Running, At
<1>2. a \in Answers
  BY AnswerTypes DEF Within, EntriesOf
<1> HIDE DEF a
<1>3. Keeps(t) /\ zset'[t] = Missing /\ Turns(t) /\ Tells(t, a)
  BY <1>1, <1>2, ReturnsKeeps DEF Turns, Tells
<1>4. arg[t].op = "zrange"
  BY <1>1, StepOps
<1> QED BY <1>1, <1>3, <1>4 DEF Turns, TurnsTo, a

LEMMA CallKeeps ==
    ASSUME TypeInv, NEW t \in Threads, Call(t)
    PROVE  /\ Keeps(t) /\ pc[t] = "idle" /\ arg'[t] \in Requests /\ Running(t)'
           /\ pc'[t] = First(arg'[t].op) /\ todo'[t] = arg'[t].keys \ {key'[t]}
           /\ key'[t] \in Keys
           /\ Serialized => \A u \in Threads : Running(u) => ~Conflict(arg'[t], arg[u])
<1>1. PICK r \in Requests, k \in Keys :
         /\ k \in r.keys
         /\ Serialized => \A u \in Threads : Running(u) => ~Conflict(r, arg[u])
         /\ arg' = [arg EXCEPT ![t] = r]
         /\ key' = [key EXCEPT ![t] = k]
         /\ todo' = [todo EXCEPT ![t] = r.keys \ {k}]
         /\ pc' = [pc EXCEPT ![t] = First(r.op)]
  BY DEF Call, Goto
<1>2. UNCHANGED <<zset, old, ans>> /\ pc[t] = "idle" /\ zset[t] = Missing
  BY DEF Call, At, found, TypeInv, ThreadInv, UsesZset
<1>3. r.op \in OpNames /\ r.keys \subseteq Keys /\ r # NoRequest
  BY RequestFields
<1>4. /\ First(r.op) \in StepsOf[r.op] /\ First(r.op) \in Steps
      /\ First(r.op) \notin UsesZset \cup {"idle", "answer"}
  BY <1>3, FirstStep DEF UsesZset, Steps
<1>5. /\ pc'[t] = First(r.op) /\ arg'[t] = r /\ key'[t] = k /\ todo'[t] = r.keys \ {k}
      /\ ThreadType' /\ \A u \in Threads \ {t} : Same(u)
  BY <1>1, <1>2, <1>3, <1>4 DEF TypeInv, ThreadType, Same
<1>6. ThreadInv(t)' /\ Running(t)'
  BY <1>1, <1>2, <1>3, <1>4, <1>5 DEF ThreadInv, Running, UsesZset
<1> QED BY <1>1, <1>2, <1>5, <1>6 DEF Keeps

LEMMA AnswerKeeps ==
    ASSUME TypeInv, NEW t \in Threads, Answer(t)
    PROVE  Keeps(t) /\ pc[t] = "answer" /\ pc'[t] = "idle" /\ arg'[t] = NoRequest
<1>1. /\ pc[t] = "answer" /\ pc' = [pc EXCEPT ![t] = "idle"]
      /\ arg' = [arg EXCEPT ![t] = NoRequest] /\ key' = [key EXCEPT ![t] = Missing]
      /\ ans' = [ans EXCEPT ![t] = [k \in Keys |-> NoResult]]
      /\ UNCHANGED <<todo, zset, old>>
  BY DEF Answer, At, Goto, found
<1>2. NoResult \in Answers
  BY AnswerTypes DEF NoResult
<1>3. todo[t] = {} /\ zset[t] = Missing
  BY <1>1 DEF TypeInv, ThreadInv, Running, UsesZset
<1>4. /\ pc'[t] = "idle" /\ arg'[t] = NoRequest /\ ThreadType'
      /\ \A u \in Threads \ {t} : Same(u)
  BY <1>1, <1>2 DEF TypeInv, ThreadType, Same, Steps
<1>5. ThreadInv(t)'
  BY <1>1, <1>3, <1>4 DEF ThreadInv, Running, UsesZset
<1> QED BY <1>1, <1>4, <1>5 DEF Keeps

-----------------------------------------------------------------------------
(* Types. *)

LEMMA StepCases ==
    ASSUME TypeInv, NEW t \in Threads, Step(t)
    PROVE  Keeps(t) /\ Running(t) /\ arg' = arg
<1>1. Keeps(t) /\ Running(t)
  BY FindKvKeeps, EraseKvKeeps, EraseZsetKeeps, EmplaceKvKeeps, CheckKvKeeps, FindZsetKeeps,
     EmplaceZsetKeeps, FindScoreKeeps, UnlinkKeeps, LinkKeeps, EraseScoreKeeps,
     EmplaceScoreKeeps, RangeKeeps
  DEF Step
<1>2. arg' = arg
  BY DEF Step, FindKv, EraseKv, EraseZset, EmplaceKv, CheckKv, FindZset, EmplaceZset, FindScore,
     Unlink, Link, EraseScore, EmplaceScore, Range, call
<1> QED BY <1>1, <1>2

LEMMA WithoutType ==
    ASSUME TypeInv, NEW o \in ZSets, NEW s \in Scores, NEW m
    PROVE  Without(o, s, m) \in [ZSets -> ValueSets]
BY DEF Without, TypeInv, StoreType, ValueSets

LEMMA StepStoreType ==
    ASSUME TypeInv, NEW t \in Threads, Step(t)
    PROVE  StoreType'
<1>1. CASE FindKv(t) \/ EraseKv(t) \/ EmplaceKv(t) \/ CheckKv(t) \/ FindZset(t) \/ EmplaceZset(t)
  <2>1. value_to_score_' = value_to_score_ /\ score_to_values_' = score_to_values_
    BY <1>1 DEF FindKv, EraseKv, EmplaceKv, CheckKv, FindZset, EmplaceZset, index
  <2>2. zsets_' \in [Keys -> ZSets \cup {Missing}]
    BY <1>1, EmplaceZsetKeeps
    DEF FindKv, EraseKv, EmplaceKv, CheckKv, FindZset, TypeInv, StoreType
  <2>3. kv_' \in [Keys -> Data \cup {Missing}]
    BY <1>1, EraseKvKeeps, EmplaceKvKeeps
    DEF FindKv, EmplaceZset, CheckKv, FindZset, TypeInv, StoreType
  <2> QED BY <2>1, <2>2, <2>3 DEF TypeInv, StoreType
<1>2. CASE EraseZset(t) \/ FindScore(t) \/ Range(t)
  <2>1. kv_' = kv_ /\ Contents(value_to_score_, score_to_values_)
    BY <1>2 DEF EraseZset, FindScore, Range
  <2>2. zsets_' \in [Keys -> ZSets \cup {Missing}]
    BY <1>2, EraseZsetKeeps DEF FindScore, Range, TypeInv, StoreType
  <2> QED BY <2>1, <2>2, ContentsType DEF TypeInv, StoreType
<1>3. CASE Unlink(t)
  <2>1. /\ UNCHANGED <<kv_, zsets_>> /\ pc[t] = "unlink"
        /\ Contents(value_to_score_, Without(zset[t], old[t], arg[t].member))
    BY <1>3 DEF Unlink, At
  <2>2. zset[t] \in ZSets /\ old[t] \in Scores
    BY <2>1, MethodFacts DEF UsesZset
  <2> QED BY <2>1, <2>2, WithoutType, ContentsType DEF TypeInv, StoreType
<1>4. CASE Link(t)
  BY <1>4, LinkKeeps DEF Link, TypeInv, StoreType
<1>5. CASE EraseScore(t)
  BY <1>5, EraseScoreKeeps DEF EraseScore, TypeInv, StoreType
<1>6. CASE EmplaceScore(t)
  <2> DEFINE scores == [value_to_score_ EXCEPT ![zset[t]][arg[t].member] =
                          IF @ = Missing THEN arg[t].score ELSE @]
  <2>1. /\ UNCHANGED <<kv_, zsets_>> /\ pc[t] = "emplaceScore"
        /\ Contents(scores, score_to_values_)
    BY <1>6 DEF EmplaceScore, At
  <2>2. zset[t] \in ZSets /\ arg[t].score \in Scores /\ arg[t].member \in Members
    BY <2>1, MethodFacts DEF UsesZset
  <2>3. scores \in [ZSets -> ScoreMap]
    BY <2>2 DEF TypeInv, StoreType, ScoreMap, MaybeScore
  <2> HIDE DEF scores
  <2> QED BY <2>1, <2>3, ContentsType DEF TypeInv, StoreType
<1> QED BY <1>1, <1>2, <1>3, <1>4, <1>5, <1>6 DEF Step

LEMMA OthersInv ==
    ASSUME TypeInv, NEW t \in Threads, Keeps(t)
    PROVE  \A u \in Threads : ThreadInv(u)'
<1>1. SUFFICES ASSUME NEW u \in Threads \ {t} PROVE ThreadInv(u)'
  BY DEF Keeps
<1>2. Same(u) /\ ThreadInv(u)
  BY DEF Keeps, TypeInv
<1> QED BY <1>2 DEF Same, ThreadInv, Running

LEMMA TypeStep ==
    ASSUME TypeInv, [Next]_vars
    PROVE  TypeInv'
<1>1. CASE UNCHANGED vars
  BY <1>1 DEF vars, index, call, found, TypeInv, StoreType, ThreadType, ThreadInv, Running
<1>2. ASSUME NEW t \in Threads, Call(t) \/ Step(t) \/ Answer(t)
      PROVE  TypeInv'
  <2>1. Keeps(t)
    BY <1>2, CallKeeps, StepCases, AnswerKeeps
  <2>2. StoreType'
    BY <1>2, StepStoreType DEF Call, Answer, index, TypeInv, StoreType
  <2> QED BY <2>1, <2>2, OthersInv DEF TypeInv, Keeps
<1> QED BY <1>1, <1>2 DEF Next

LEMMA TypeInit ==
    ASSUME Init
    PROVE  TypeInv
<1>1. StoreType
  BY DEF Init, StoreType, ScoreMap, ValueSets, NoScores, NoMembers, MaybeScore
<1>2. ThreadType
  BY AnswerTypes DEF Init, ThreadType, Steps, MaybeScore, NoResult
<1>3. \A t \in Threads : ThreadInv(t)
  BY DEF Init, ThreadInv, Running, UsesZset
<1> QED BY <1>1, <1>2, <1>3 DEF TypeInv

LEMMA TypeInvariant == Spec => []TypeInv
<1>1. Init => TypeInv
  BY TypeInit
<1>2. TypeInv /\ [Next]_vars => TypeInv'
  BY TypeStep
<1> QED BY <1>1, <1>2, PTL DEF Spec

\* The maps and the registers of the threads hold what their types say, a thread
\* holds an object exactly while it runs a method of it, and unlinks a value just
\* from a score it has found, whatever requests run at the same time.
THEOREM TypeCorrect == Spec => []TypeOK
<1>1. TypeInv => TypeOK
  BY DEF TypeInv, StoreType, ThreadType, ThreadInv, TypeOK, ScoreMap, ValueSets, MaybeScore
<1> QED BY <1>1, TypeInvariant, PTL

-----------------------------------------------------------------------------
(* What a step does to the maps and the objects. *)

\* An object nobody refers to holds nothing.
DeadInv == \A o \in ZSets : ~Alive(o) => /\ value_to_score_[o] = NoScores
                                         /\ score_to_values_[o] = NoMembers

WholeWrite(r)  == r.op \in {"add", "batch", "del"}
MemberWrite(r) == r.op \in {"zadd", "zrmv"}

\* The value that a thread is about to change in an object.
Own(t, o, m) == pc[t] \in UsesZset \ {"range"} /\ zset[t] = o /\ arg[t].member = m

SameEntry(o, m) ==
    /\ value_to_score_'[o][m] = value_to_score_[o][m]
    /\ \A s \in Scores : m \in score_to_values_'[o][s] <=> m \in score_to_values_[o][s]

\* A zadd creates the object of its key.
Creates(t, k) ==
    /\ k = key[t] /\ pc[t] = "emplaceZset" /\ pc'[t] = "findScore" /\ arg[t].op = "zadd"
    /\ Stays(t)
    /\ zsets_[k] = Missing /\ zsets_'[k] \in ZSets /\ zset'[t] = zsets_'[k] /\ ~Alive(zsets_'[k])

LEMMA KvEffect ==
    ASSUME TypeInv, NEW t \in Threads, Step(t), NEW k \in Keys,
           ~(k = key[t] /\ WholeWrite(arg[t]))
    PROVE  kv_'[k] = kv_[k]
<1>1. CASE EraseKv(t) \/ EmplaceKv(t)
  <2>1. pc[t] \in {"eraseKv", "emplaceKv"} /\ Running(t)
    BY <1>1 DEF EraseKv, EmplaceKv, At, Running
  <2>2. k # key[t]
    BY <2>1, StepOps DEF WholeWrite
  <2> QED BY <1>1, <2>2 DEF EraseKv, EmplaceKv, TypeInv, StoreType
<1>2. CASE ~(EraseKv(t) \/ EmplaceKv(t))
  BY <1>2 DEF Step, FindKv, EraseZset, CheckKv, FindZset, EmplaceZset, FindScore, Unlink, Link,
              EraseScore, EmplaceScore, Range
<1> QED BY <1>1, <1>2

LEMMA ZsetsEffect ==
    ASSUME TypeInv, NEW t \in Threads, Step(t), NEW k \in Keys,
           ~(k = key[t] /\ WholeWrite(arg[t]))
    PROVE  zsets_'[k] = zsets_[k] \/ Creates(t, k)
<1>1. CASE EraseZset(t)
  <2>1. pc[t] = "eraseZset" /\ Running(t)
    BY <1>1 DEF EraseZset, At, Running
  <2>2. k # key[t]
    BY <2>1, StepOps DEF WholeWrite
  <2> QED BY <1>1, <2>2 DEF EraseZset, TypeInv, StoreType
<1>2. CASE EmplaceZset(t)
  <2>1. pc[t] = "emplaceZset" /\ Running(t)
    BY <1>2 DEF EmplaceZset, At, Running
  <2>2. arg[t].op = "zadd"
    BY <2>1, StepOps
  <2>3. zsets_ \in [Keys -> ZSets \cup {Missing}]
    BY DEF TypeInv, StoreType
  <2> QED BY <1>2, <2>1, <2>2, <2>3, EmplaceZsetKeeps DEF Creates
<1>3. CASE ~(EraseZset(t) \/ EmplaceZset(t))
  BY <1>3 DEF Step, FindKv, EraseKv, EmplaceKv, CheckKv, FindZset, FindScore, Unlink, Link,
              EraseScore, EmplaceScore, Range
<1> QED BY <1>1, <1>2, <1>3

\* Nothing is lost when no reference is dropped.
LEMMA AliveGrows ==
    ASSUME NEW t \in Threads, zset[t] \in {Missing, zset'[t]},
           \A u \in Threads \ {t} : zset'[u] = zset[u],
           \A k \in Keys : zsets_[k] \in {Missing, zsets_'[k]}
    PROVE  \A o \in ZSets : Alive(o) => Alive(o)'
BY SharedAssumption DEF Alive

LEMMA AliveFacts ==
    /\ \A k \in Keys : Alive(zsets_[k]) /\ Alive(zsets_[k])'
    /\ \A u \in Threads : Alive(zset[u]) /\ Alive(zset[u])'
BY DEF Alive

\* With Contents: what is referred to is there, the rest is gone.
LEMMA ContentsEffect ==
    ASSUME NEW scores, NEW values, Contents(scores, values)
    PROVE  /\ DeadInv'
           /\ \A o \in ZSets : Alive(o)' => value_to_score_'[o] = scores[o]
                                            /\ score_to_values_'[o] = values[o]
BY DEF Contents, DeadInv

\* A step that does not look at the references again drops none.
LEMMA StillAlive ==
    ASSUME TypeInv, NEW t \in Threads,
           \/ Call(t) \/ Answer(t) \/ FindKv(t) \/ EraseKv(t) \/ EmplaceKv(t) \/ CheckKv(t)
           \/ FindZset(t) \/ EmplaceZset(t) \/ Link(t) \/ EraseScore(t)
    PROVE  \A o \in ZSets : Alive(o) => Alive(o)'
<1>1. CASE FindZset(t) \/ EmplaceZset(t)
  <2>1. zset[t] = Missing
    BY <1>1 DEF FindZset, EmplaceZset, At, TypeInv, ThreadInv, UsesZset
  <2>2. Keeps(t) /\ \A k \in Keys : zsets_[k] \in {Missing, zsets_'[k]}
    BY <1>1, FindZsetKeeps, EmplaceZsetKeeps DEF FindZset, TypeInv, StoreType
  <2> QED BY <2>1, <2>2, AliveGrows DEF Keeps, Same
<1>2. CASE ~(FindZset(t) \/ EmplaceZset(t))
  <2>1. zset' = zset /\ zsets_' = zsets_
    BY <1>2 DEF Call, Answer, FindKv, EraseKv, EmplaceKv, CheckKv, Link, EraseScore, found
  <2> QED BY <2>1 DEF Alive
<1> QED BY <1>1, <1>2

LEMMA EntryEffect ==
    ASSUME TypeInv, DeadInv, NEW t \in Threads, Step(t)
    PROVE  /\ DeadInv'
           /\ \A o \in ZSets, m \in Members : Alive(o)' /\ ~Own(t, o, m) => SameEntry(o, m)
<1>1. CASE FindKv(t) \/ EraseKv(t) \/ EmplaceKv(t) \/ CheckKv(t) \/ FindZset(t) \/ EmplaceZset(t)
  <2>1. value_to_score_' = value_to_score_ /\ score_to_values_' = score_to_values_
    BY <1>1 DEF FindKv, EraseKv, EmplaceKv, CheckKv, FindZset, EmplaceZset, index
  <2>2. \A o \in ZSets : ~Alive(o)' => ~Alive(o)
    BY <1>1, StillAlive
  <2> QED BY <2>1, <2>2 DEF DeadInv, SameEntry
<1>2. CASE EraseZset(t) \/ FindScore(t) \/ Range(t)
  <2>1. Contents(value_to_score_, score_to_values_)
    BY <1>2 DEF EraseZset, FindScore, Range
  <2> QED BY <2>1, ContentsEffect DEF SameEntry
<1>3. CASE Unlink(t)
  <2> DEFINE values == Without(zset[t], old[t], arg[t].member)
  <2>1. pc[t] = "unlink" /\ Contents(value_to_score_, values)
    BY <1>3 DEF Unlink, At
  <2>2. \A o \in ZSets, m \in Members : ~Own(t, o, m) =>
          \A s \in Scores : m \in values[o][s] <=> m \in score_to_values_[o][s]
    BY <2>1 DEF Without, Own, UsesZset, TypeInv, StoreType, ValueSets
  <2> HIDE DEF values
  <2> QED BY <2>1, <2>2, ContentsEffect DEF SameEntry
<1>4. CASE Link(t)
  <2>1. /\ pc[t] = "link" /\ value_to_score_' = value_to_score_
        /\ score_to_values_' = With(zset[t], arg[t].score, arg[t].member) /\ zset' = zset
    BY <1>4 DEF Link, At, found
  <2>2. \A o \in ZSets, m \in Members : ~Own(t, o, m) =>
          \A s \in Scores : m \in score_to_values_'[o][s] <=> m \in score_to_values_[o][s]
    BY <2>1 DEF With, Own, UsesZset, TypeInv, StoreType, ValueSets
  <2>3. \A o \in ZSets : o # zset[t] => score_to_values_'[o] = score_to_values_[o]
    BY <2>1 DEF With, TypeInv, StoreType
  <2>4. \A o \in ZSets : ~Alive(o)' => ~Alive(o) /\ o # zset[t]
    BY <1>4, <2>1, StillAlive, AliveFacts
  <2> QED BY <2>1, <2>2, <2>3, <2>4 DEF SameEntry, DeadInv
<1>5. CASE EraseScore(t)
  <2>1. /\ pc[t] = "eraseScore" /\ score_to_values_' = score_to_values_ /\ zset' = zset
        /\ value_to_score_' = [value_to_score_ EXCEPT ![zset[t]][arg[t].member] = Missing]
    BY <1>5 DEF EraseScore, At, found
  <2>2. \A o \in ZSets, m \in Members : ~Own(t, o, m) =>
          value_to_score_'[o][m] = value_to_score_[o][m]
    BY <2>1 DEF Own, UsesZset, TypeInv, StoreType, ScoreMap
  <2>3. \A o \in ZSets : o # zset[t] => value_to_score_'[o] = value_to_score_[o]
    BY <2>1 DEF TypeInv, StoreType
  <2>4. \A o \in ZSets : ~Alive(o)' => ~Alive(o) /\ o # zset[t]
    BY <1>5, <2>1, StillAlive, AliveFacts
  <2> QED BY <2>1, <2>2, <2>3, <2>4 DEF SameEntry, DeadInv
<1>6. CASE EmplaceScore(t)
  <2> DEFINE scores == [value_to_score_ EXCEPT ![zset[t]][arg[t].member] =
                          IF @ = Missing THEN arg[t].score ELSE @]
  <2>1. pc[t] = "emplaceScore" /\ Contents(scores, score_to_values_)
    BY <1>6 DEF EmplaceScore, At
  <2>2. \A o \in ZSets, m \in Members : ~Own(t, o, m) => scores[o][m] = value_to_score_[o][m]
    BY <2>1 DEF Own, UsesZset, TypeInv, StoreType, ScoreMap
  <2> HIDE DEF scores
  <2> QED BY <2>1, <2>2, ContentsEffect DEF SameEntry
<1> QED BY <1>1, <1>2, <1>3, <1>4, <1>5, <1>6 DEF Step

-----------------------------------------------------------------------------
(* The safety invariant, while no two conflicting writes run. *)

NoConflict == \A t, u \in Threads : t # u /\ Running(t) /\ Running(u) => ~Conflict(arg[t], arg[u])

\* An add, batch or del between its steps.
WholeInv(t) ==
    /\ pc[t] = "eraseZset" => kv_[key[t]] = Missing
    /\ pc[t] = "emplaceKv" => kv_[key[t]] = Missing /\ zsets_[key[t]] = Missing
    /\ Running(t) /\ arg[t].op \in {"add", "batch"} =>
         \A j \in arg[t].keys \ (todo[t] \cup {key[t]}) :
             kv_[j] = arg[t].data /\ zsets_[j] = Missing

\* A zadd or zrmv between its steps: its key is no string, and has its object.
MemberInv(t) ==
    /\ Running(t) /\ arg[t].op = "zadd" /\ pc[t] # "checkKv" => kv_[key[t]] = Missing
    /\ MemberWrite(arg[t]) /\ pc[t] \in UsesZset => zsets_[key[t]] = zset[t]

\* Where it has its value.
EntryInv(t) ==
    LET o == zset[t]  m == arg[t].member IN
    /\ pc[t] = "unlink" => old[t] = value_to_score_[o][m]
    /\ pc[t] = "link" => \A s \in Scores : m \notin score_to_values_[o][s]
    /\ pc[t] \in {"eraseScore", "emplaceScore"} =>
         \A s \in Scores : m \in score_to_values_[o][s] <=> s = arg[t].score
    /\ pc[t] = "emplaceScore" => value_to_score_[o][m] = Missing

ObjInv == \A j, k \in Keys : zsets_[j] = zsets_[k] /\ zsets_[j] # Missing => j = k

\* A value is listed under its score only, unless a zadd is moving it.
Listed(o, m) == \A s \in Scores : m \in score_to_values_[o][s] => value_to_score_[o][m] = s
Moving(t, o, m) == /\ pc[t] \in {"link", "eraseScore", "emplaceScore"}
                   /\ zset[t] = o /\ arg[t].member = m
ListedInv == \A o \in ZSets, m \in Members : Listed(o, m) \/ \E t \in Threads : Moving(t, o, m)

IInv == /\ TypeInv /\ DeadInv /\ NoConflict /\ ObjInv /\ ListedInv /\ KeyExclusive
        /\ \A t \in Threads : WholeInv(t) /\ MemberInv(t) /\ EntryInv(t)

\* Two requests that run are about different keys, or different values of one.
LEMMA Apart ==
    ASSUME TypeInv, NoConflict, NEW t \in Threads, NEW u \in Threads \ {t}, Running(t), Running(u)
    PROVE  /\ WholeWrite(arg[t]) /\ Writes(arg[u]) => arg[t].keys \cap arg[u].keys = {}
           /\ Writes(arg[t]) /\ WholeWrite(arg[u]) => arg[t].keys \cap arg[u].keys = {}
           /\ MemberWrite(arg[t]) /\ MemberWrite(arg[u]) /\ key[t] = key[u] =>
                arg[t].member # arg[u].member
<1>1. ~Conflict(arg[t], arg[u])
  BY DEF NoConflict
<1>2. arg[t] \in Requests /\ arg[u] \in Requests /\ key[t] \in arg[t].keys /\ key[u] \in arg[u].keys
  BY RunningFacts
<1>3. /\ WholeWrite(arg[t]) => arg[t].member = Missing
      /\ WholeWrite(arg[u]) => arg[u].member = Missing
  BY <1>2, RequestFields DEF WholeWrite
<1> QED BY <1>1, <1>2, <1>3 DEF Conflict, Writes, WholeWrite, MemberWrite

LEMMA OwnFacts ==
    ASSUME IInv, NEW t \in Threads, NEW o, NEW m, Own(t, o, m)
    PROVE  /\ Running(t) /\ MemberWrite(arg[t]) /\ o \in ZSets /\ m \in Members
           /\ key[t] \in Keys /\ zsets_[key[t]] = o /\ o = zset[t] /\ m = arg[t].member
<1>1. /\ pc[t] \in UsesZset /\ pc[t] # "range" /\ zset[t] = o /\ arg[t].member = m
      /\ TypeInv /\ MemberInv(t)
  BY DEF Own, IInv
<1>2. Running(t) /\ MemberWrite(arg[t]) /\ o \in ZSets /\ m \in Members
  BY <1>1, MethodFacts DEF MemberWrite
<1> QED BY <1>1, <1>2, RunningFacts DEF MemberInv

\* No two threads are about to change the same value of an object.
LEMMA OwnUnique ==
    ASSUME IInv, NEW t \in Threads, NEW u \in Threads, NEW o, NEW m, Own(t, o, m), Own(u, o, m)
    PROVE  t = u
<1>1. SUFFICES ASSUME t # u PROVE FALSE
  OBVIOUS
<1>2. key[t] = key[u]
  <2>1. o # Missing
    BY OwnFacts, SharedAssumption
  <2> QED BY <2>1, OwnFacts DEF ObjInv, IInv
<1>3. Running(t) /\ Running(u) /\ MemberWrite(arg[t]) /\ MemberWrite(arg[u])
      /\ arg[t].member = m /\ arg[u].member = m
  BY OwnFacts DEF Own
<1> QED BY <1>1, <1>2, <1>3, Apart DEF IInv

LEMMA OtherWrites ==
    ASSUME IInv, NEW t \in Threads, Step(t), NEW u \in Threads \ {t}
    PROVE  WholeInv(u)' /\ MemberInv(u)' /\ EntryInv(u)'
<1>1. TypeInv /\ Same(u) /\ Running(t) /\ WholeInv(u) /\ MemberInv(u) /\ EntryInv(u)
  BY StepCases DEF Keeps, IInv
<1>2. ASSUME Running(u), WholeWrite(arg[u]), NEW j \in arg[u].keys
      PROVE  kv_'[j] = kv_[j] /\ zsets_'[j] = zsets_[j]
  <2>1. j \in Keys /\ ~(j = key[t] /\ Writes(arg[t]))
    BY <1>1, <1>2, Apart, RunningFacts DEF IInv
  <2> QED BY <1>1, <2>1, KvEffect, ZsetsEffect DEF Creates, Writes, WholeWrite
<1>3. ASSUME Running(u), MemberWrite(arg[u])
      PROVE  /\ kv_'[key[u]] = kv_[key[u]]
             /\ zsets_[key[u]] # Missing => zsets_'[key[u]] = zsets_[key[u]]
  <2>1. key[u] \in Keys /\ ~(key[u] = key[t] /\ WholeWrite(arg[t]))
    BY <1>1, <1>3, Apart, RunningFacts DEF IInv, Writes, MemberWrite
  <2> QED BY <1>1, <2>1, KvEffect, ZsetsEffect DEF Creates
<1>4. WholeInv(u)'
  <2>1. CASE Running(u) /\ WholeWrite(arg[u])
    <3>1. key[u] \in arg[u].keys
      BY <1>1, <2>1, RunningFacts
    <3> QED BY <1>1, <1>2, <2>1, <3>1 DEF WholeInv, Same, Running
  <2>2. CASE ~(Running(u) /\ WholeWrite(arg[u]))
    <3>1. /\ pc[u] \notin {"eraseZset", "emplaceKv"}
          /\ ~(Running(u) /\ arg[u].op \in {"add", "batch"})
      BY <1>1, <2>2, StepOps DEF WholeWrite, Running
    <3> QED BY <1>1, <3>1 DEF WholeInv, Same, Running
  <2> QED BY <2>1, <2>2
<1>5. MemberInv(u)'
  <2>1. CASE Running(u) /\ MemberWrite(arg[u])
    <3>1. pc[u] \in UsesZset => zset[u] # Missing
      BY <1>1 DEF TypeInv, ThreadInv
    <3> QED BY <1>1, <1>3, <2>1, <3>1 DEF MemberInv, Same, Running, MemberWrite
  <2>2. CASE ~(Running(u) /\ MemberWrite(arg[u]))
    BY <1>1, <2>2 DEF MemberInv, Same, Running, MemberWrite, UsesZset
  <2> QED BY <2>1, <2>2
<1>6. EntryInv(u)'
  <2>1. ASSUME NEW o, NEW m, Own(u, o, m) PROVE EntryInv(u)'
    <3>1. o \in ZSets /\ m \in Members /\ ~Own(t, o, m) /\ o = zset[u] /\ m = arg[u].member
      BY <2>1, OwnFacts, OwnUnique
    <3>2. Alive(o)'
      BY <1>1, <3>1, AliveFacts DEF Same
    <3>3. SameEntry(o, m)
      BY <1>1, <3>1, <3>2, EntryEffect DEF IInv
    <3> QED BY <1>1, <3>1, <3>3 DEF EntryInv, Same, SameEntry
  <2>2. CASE ~Own(u, zset[u], arg[u].member)
    BY <1>1, <2>2 DEF EntryInv, Same, Own, UsesZset
  <2> QED BY <2>1, <2>2
<1> QED BY <1>4, <1>5, <1>6

\* No thread is moving a value that another is about to change.
LEMMA OwnListed ==
    ASSUME IInv, NEW t \in Threads, NEW o, NEW m, Own(t, o, m), pc[t] \in {"findScore", "unlink"}
    PROVE  Listed(o, m)
<1>1. ~\E u \in Threads : Moving(u, o, m)
  <2>1. ASSUME NEW u \in Threads, Moving(u, o, m) PROVE FALSE
    <3>1. Own(u, o, m)
      BY <2>1 DEF Moving, Own, UsesZset
    <3>2. u = t
      BY <3>1, OwnUnique
    <3> QED BY <2>1, <3>2 DEF Moving
  <2> QED BY <2>1
<1> QED BY <1>1, OwnFacts DEF IInv, ListedInv

\* While a thread uses the object of its key, it is there after the step, too.
LEMMA OwnAlive ==
    ASSUME IInv, NEW t \in Threads, NEW o, NEW m, Own(t, o, m), zsets_' = zsets_
    PROVE  Alive(o)'
BY OwnFacts, AliveFacts

LEMMA OwnWhole ==
    ASSUME IInv, NEW t \in Threads, Step(t)
    PROVE  WholeInv(t)'
<1>1. TypeInv /\ WholeInv(t) /\ Running(t) /\ arg' = arg
  BY StepCases DEF IInv
<1>2. CASE EraseKv(t)
  <2>1. Stays(t) /\ pc'[t] = "eraseZset" /\ zsets_' = zsets_ /\ Running(t)'
    BY <1>1, <1>2, EraseKvKeeps DEF EraseKv, Running
  <2>2. kv_' = [kv_ EXCEPT ![key[t]] = Missing] /\ kv_ \in [Keys -> Data \cup {Missing}]
    BY <1>1, <1>2 DEF EraseKv, TypeInv, StoreType
  <2>3. key[t] \in Keys /\ arg[t].keys \subseteq Keys
    BY <1>1, RunningFacts
  <2> QED BY <1>1, <2>1, <2>2, <2>3 DEF WholeInv, Stays
<1>3. CASE EraseZset(t)
  <2>1. /\ zsets_' = [zsets_ EXCEPT ![key[t]] = Missing] /\ kv_' = kv_ /\ pc[t] = "eraseZset"
        /\ zsets_ \in [Keys -> ZSets \cup {Missing}]
    BY <1>1, <1>3 DEF EraseZset, TypeInv, StoreType, At
  <2>2. key[t] \in Keys /\ arg[t].keys \subseteq Keys
    BY <1>1, RunningFacts
  <2>3. CASE arg[t].op = "del"
    <3>1. pc'[t] = "answer"
      BY <1>1, <1>3, <2>3, EraseZsetKeeps DEF LastKey
    <3> QED BY <3>1 DEF WholeInv, Running
  <2>4. CASE arg[t].op # "del"
    <3>1. Stays(t) /\ pc'[t] = "emplaceKv"
      BY <1>1, <1>3, <2>4, EraseZsetKeeps
    <3> QED BY <1>1, <2>1, <2>2, <3>1 DEF WholeInv, Stays
  <2> QED BY <2>3, <2>4
<1>4. CASE EmplaceKv(t)
  <2>1. /\ kv_' = [kv_ EXCEPT ![key[t]] = IF @ = Missing THEN arg[t].data ELSE @]
        /\ zsets_' = zsets_ /\ pc[t] = "emplaceKv" /\ kv_ \in [Keys -> Data \cup {Missing}]
    BY <1>1, <1>4 DEF EmplaceKv, TypeInv, StoreType, At
  <2>2. /\ key[t] \in Keys /\ arg[t].keys \subseteq Keys /\ key[t] \in arg[t].keys
        /\ arg[t].op \in {"add", "batch"}
    BY <1>1, <2>1, RunningFacts, StepOps
  <2>3. \A j \in arg[t].keys \ todo[t] : kv_'[j] = arg[t].data /\ zsets_'[j] = Missing
    BY <1>1, <2>1, <2>2 DEF WholeInv
  <2>4. LastKey(t) \/ TurnsTo(t)
    BY <1>1, <1>4, EmplaceKvKeeps DEF Turns
  <2>5. CASE LastKey(t)
    BY <2>5 DEF LastKey, WholeInv, Running
  <2>6. CASE TurnsTo(t)
    <3>1. todo'[t] \cup {key'[t]} = todo[t] /\ pc'[t] \in {"eraseKv", "findKv"}
      BY <2>6 DEF TurnsTo
    <3> QED BY <1>1, <2>3, <3>1 DEF WholeInv
  <2> QED BY <2>4, <2>5, <2>6
<1>5. CASE FindKv(t)
  <2>1. pc[t] = "findKv"
    BY <1>5 DEF FindKv, At
  <2>2. arg[t].op \in {"query", "list"} /\ (LastKey(t) \/ TurnsTo(t))
    BY <1>1, <1>5, <2>1, StepOps, FindKvKeeps DEF Turns
  <2> QED BY <1>1, <2>2 DEF WholeInv, LastKey, TurnsTo
<1>6. CASE ~(EraseKv(t) \/ EraseZset(t) \/ EmplaceKv(t) \/ FindKv(t))
  <2>1. pc[t] \notin {"findKv", "eraseKv", "eraseZset", "emplaceKv"}
    BY <1>6 DEF Step, CheckKv, FindZset, EmplaceZset, FindScore, Unlink, Link, EraseScore,
                EmplaceScore, Range, At
  <2>2. arg[t].op \notin {"add", "batch", "del"}
    BY <1>1, <2>1, RunningFacts DEF StepsOf, OpNames
  <2>3. TypeInv'
    BY <1>1, StepCases, StepStoreType, OthersInv DEF TypeInv, Keeps
  <2>4. Running(t)' => pc'[t] \in StepsOf[arg[t].op]
    BY <1>1, <2>3 DEF TypeInv, ThreadInv
  <2>5. arg[t].op \in OpNames
    BY <1>1, RunningFacts
  <2>6. pc'[t] \notin {"eraseZset", "emplaceKv"}
    BY <2>2, <2>4, <2>5 DEF StepsOf, OpNames, Running
  <2> QED BY <1>1, <2>2, <2>6 DEF WholeInv
<1> QED BY <1>2, <1>3, <1>4, <1>5, <1>6

LEMMA OwnMember ==
    ASSUME IInv, NEW t \in Threads, Step(t)
    PROVE  MemberInv(t)'
<1>1. TypeInv /\ MemberInv(t) /\ Running(t) /\ arg' = arg /\ key[t] \in Keys
  BY StepCases, RunningFacts DEF IInv
<1>2. CASE pc'[t] = "answer"
  BY <1>2 DEF MemberInv, Running, UsesZset
<1>3. CASE ~MemberWrite(arg[t])
  BY <1>1, <1>3 DEF MemberInv, MemberWrite
<1>4. ASSUME MemberWrite(arg[t]), pc'[t] # "answer" PROVE MemberInv(t)'
  <2>1. kv_'[key[t]] = kv_[key[t]]
    BY <1>1, <1>4, KvEffect DEF MemberWrite, WholeWrite
  <2>2. CASE CheckKv(t)
    <3>1. Stays(t) /\ pc'[t] = "findZset" /\ kv_[key[t]] = Missing
      BY <1>1, <1>4, <2>2, CheckKvKeeps DEF LastKey
    <3> QED BY <2>1, <3>1 DEF MemberInv, Stays, UsesZset
  <2>3. CASE FindZset(t)
    <3>1. Stays(t) /\ zset'[t] = zsets_[key[t]] /\ zsets_' = zsets_ /\ pc[t] = "findZset"
      BY <1>1, <1>4, <2>3, FindZsetKeeps DEF LastKey, FindZset, At
    <3> QED BY <1>1, <2>1, <3>1 DEF MemberInv, Stays
  <2>4. CASE EmplaceZset(t)
    <3>1. /\ Stays(t) /\ zsets_' = [zsets_ EXCEPT ![key[t]] = zset'[t]] /\ pc[t] = "emplaceZset"
          /\ zsets_ \in [Keys -> ZSets \cup {Missing}]
      BY <1>1, <2>4, EmplaceZsetKeeps DEF EmplaceZset, At, TypeInv, StoreType
    <3> QED BY <1>1, <2>1, <3>1 DEF MemberInv, Stays
  <2>5. CASE FindScore(t) \/ Unlink(t) \/ Link(t) \/ EraseScore(t)
    <3>1. pc[t] \in UsesZset /\ zsets_' = zsets_ /\ pc[t] # "checkKv"
      BY <2>5 DEF FindScore, Unlink, Link, EraseScore, At, UsesZset
    <3>2. Stays(t) /\ zset'[t] = zset[t]
      BY <1>1, <1>4, <2>5, FindScoreKeeps, UnlinkKeeps, LinkKeeps, EraseScoreKeeps DEF LastKey
    <3> QED BY <1>1, <1>4, <2>1, <3>1, <3>2 DEF MemberInv, Stays
  <2>6. CASE EmplaceScore(t) \/ Range(t)
    BY <1>1, <1>4, <2>6, EmplaceScoreKeeps, RangeKeeps DEF LastKey
  <2>7. CASE FindKv(t) \/ EraseKv(t) \/ EraseZset(t) \/ EmplaceKv(t)
    <3>1. pc[t] \in {"findKv", "eraseKv", "eraseZset", "emplaceKv"}
      BY <2>7 DEF FindKv, EraseKv, EraseZset, EmplaceKv, At
    <3> QED BY <1>1, <1>4, <3>1, StepOps DEF MemberWrite
  <2> QED BY <2>2, <2>3, <2>4, <2>5, <2>6, <2>7 DEF Step
<1> QED BY <1>2, <1>3, <1>4

\* Where the value of a thread is, before and after each of its steps.
LEMMA OwnEntry ==
    ASSUME IInv, NEW t \in Threads, Step(t)
    PROVE  EntryInv(t)'
<1> DEFINE o == zset[t]
           m == arg[t].member
<1>1. TypeInv /\ EntryInv(t) /\ Running(t) /\ arg' = arg /\ StoreType
  BY StepCases DEF IInv, TypeInv
<1>2. CASE FindScore(t)
  <2>1. /\ pc[t] = "findScore" /\ zsets_' = zsets_ /\ Own(t, o, m)
        /\ Contents(value_to_score_, score_to_values_)
    BY <1>2 DEF FindScore, At, Own, UsesZset
  <2>2. o \in ZSets /\ m \in Members
    BY <2>1, OwnFacts
  <2>3. ASSUME NEW p, p = o
        PROVE  value_to_score_'[p] = value_to_score_[p] /\ score_to_values_'[p] = score_to_values_[p]
    <3>1. Alive(p)'
      BY <2>1, <2>3, OwnAlive
    <3> QED BY <2>1, <2>2, <2>3, <3>1, ContentsEffect
  <2>4. Listed(o, m)
    BY <2>1, OwnListed
  <2>5. CASE pc'[t] = "answer"
    BY <2>5 DEF EntryInv
  <2>6. CASE pc'[t] # "answer"
    <3>1. /\ zset'[t] = o /\ old'[t] = value_to_score_[o][m]
          /\ pc'[t] = IF value_to_score_[o][m] = Missing THEN "link" ELSE "unlink"
      BY <1>1, <1>2, <2>6, FindScoreKeeps DEF LastKey
    <3> QED BY <1>1, <2>3, <2>4, <3>1, SharedAssumption DEF EntryInv, Listed
  <2> QED BY <2>5, <2>6
<1>3. CASE Unlink(t)
  <2>1. /\ pc[t] = "unlink" /\ zsets_' = zsets_ /\ Own(t, o, m)
        /\ Contents(value_to_score_, Without(o, old[t], m))
    BY <1>3 DEF Unlink, At, Own, UsesZset
  <2>2. o \in ZSets /\ m \in Members /\ old[t] \in Scores
    BY <1>1, <2>1, OwnFacts, MethodFacts DEF UsesZset
  <2>3. ASSUME NEW p, p = o
        PROVE  score_to_values_'[p] = Without(o, old[t], m)[p]
    <3>1. Alive(p)'
      BY <2>1, <2>3, OwnAlive
    <3> QED BY <2>1, <2>2, <2>3, <3>1, ContentsEffect
  <2>4. Listed(o, m) /\ old[t] = value_to_score_[o][m]
    BY <1>1, <2>1, OwnListed DEF EntryInv
  <2>5. \A s \in Scores : m \notin Without(o, old[t], m)[o][s]
    BY <1>1, <2>2, <2>4 DEF Without, Listed, StoreType, ValueSets
  <2>6. CASE pc'[t] = "answer"
    BY <2>6 DEF EntryInv
  <2>7. CASE pc'[t] # "answer"
    <3>1. zset'[t] = o /\ pc'[t] = "link"
      BY <1>1, <1>3, <2>7, UnlinkKeeps DEF LastKey
    <3> QED BY <1>1, <2>3, <2>5, <3>1 DEF EntryInv
  <2> QED BY <2>6, <2>7
<1>4. CASE Link(t)
  <2>1. /\ pc[t] = "link" /\ zset'[t] = o /\ pc'[t] = "eraseScore"
        /\ score_to_values_' = With(o, arg[t].score, m)
    BY <1>1, <1>4, LinkKeeps DEF Link, At
  <2>2. o \in ZSets /\ m \in Members /\ arg[t].score \in Scores
    BY <1>1, <2>1, MethodFacts DEF UsesZset
  <2>3. \A s \in Scores : m \notin score_to_values_[o][s]
    BY <1>1, <2>1 DEF EntryInv
  <2>4. \A s \in Scores : m \in score_to_values_'[o][s] <=> s = arg[t].score
    BY <1>1, <2>1, <2>2, <2>3 DEF With, StoreType, ValueSets
  <2> QED BY <1>1, <2>1, <2>4 DEF EntryInv
<1>5. CASE EraseScore(t)
  <2>1. /\ pc[t] = "eraseScore" /\ zset'[t] = o /\ pc'[t] = "emplaceScore"
        /\ score_to_values_' = score_to_values_
        /\ value_to_score_' = [value_to_score_ EXCEPT ![o][m] = Missing]
    BY <1>1, <1>5, EraseScoreKeeps DEF EraseScore, At
  <2>2. o \in ZSets /\ m \in Members
    BY <1>1, <2>1, MethodFacts DEF UsesZset
  <2>3. value_to_score_'[o][m] = Missing
    BY <1>1, <2>1, <2>2 DEF StoreType, ScoreMap
  <2> QED BY <1>1, <2>1, <2>3 DEF EntryInv
<1>6. CASE ~(FindScore(t) \/ Unlink(t) \/ Link(t) \/ EraseScore(t))
  <2>1. pc'[t] \notin {"unlink", "link", "eraseScore", "emplaceScore"}
    BY <1>1, <1>6, FindKvKeeps, EraseKvKeeps, EraseZsetKeeps, EmplaceKvKeeps, CheckKvKeeps,
       FindZsetKeeps, EmplaceZsetKeeps, EmplaceScoreKeeps, RangeKeeps
    DEF Step, Turns, LastKey, TurnsTo
  <2> QED BY <2>1 DEF EntryInv
<1> QED BY <1>2, <1>3, <1>4, <1>5, <1>6

\* The value a thread changes is listed under its score after the step, or moving.
LEMMA OwnStep ==
    ASSUME IInv, NEW t \in Threads, Step(t), NEW o, NEW m, Own(t, o, m), Alive(o)'
    PROVE  Listed(o, m)' \/ Moving(t, o, m)'
<1>1. /\ TypeInv /\ EntryInv(t) /\ Running(t) /\ arg' = arg /\ StoreType /\ StoreType'
      /\ o \in ZSets /\ m \in Members /\ o = zset[t] /\ m = arg[t].member
  BY StepCases, StepStoreType, OwnFacts DEF IInv, TypeInv
<1>2. CASE FindScore(t)
  <2>1. pc[t] = "findScore" /\ Contents(value_to_score_, score_to_values_)
    BY <1>2 DEF FindScore, At
  <2>2. value_to_score_'[o] = value_to_score_[o] /\ score_to_values_'[o] = score_to_values_[o]
    BY <1>1, <2>1, ContentsEffect
  <2>3. Listed(o, m)
    BY <2>1, OwnListed
  <2> QED BY <2>2, <2>3 DEF Listed
<1>3. CASE Unlink(t)
  <2>1. pc[t] = "unlink" /\ Contents(value_to_score_, Without(o, old[t], m))
    BY <1>1, <1>3 DEF Unlink, At
  <2>2. /\ value_to_score_'[o] = value_to_score_[o]
        /\ score_to_values_'[o] = Without(o, old[t], m)[o] /\ old[t] \in Scores
    BY <1>1, <2>1, ContentsEffect, MethodFacts DEF UsesZset
  <2>3. Listed(o, m)
    BY <2>1, OwnListed
  <2>4. \A s \in Scores : m \in score_to_values_'[o][s] => m \in score_to_values_[o][s]
    BY <1>1, <2>2 DEF Without, StoreType, ValueSets
  <2> QED BY <2>2, <2>3, <2>4 DEF Listed
<1>4. CASE Link(t) \/ EraseScore(t)
  BY <1>1, <1>4, LinkKeeps, EraseScoreKeeps DEF Moving
<1>5. CASE EmplaceScore(t)
  <2> DEFINE scores == [value_to_score_ EXCEPT ![zset[t]][arg[t].member] =
                          IF @ = Missing THEN arg[t].score ELSE @]
  <2>1. pc[t] = "emplaceScore" /\ Contents(scores, score_to_values_)
    BY <1>5 DEF EmplaceScore, At
  <2>2. value_to_score_[o][m] = Missing
        /\ \A s \in Scores : m \in score_to_values_[o][s] <=> s = arg[t].score
    BY <1>1, <2>1 DEF EntryInv
  <2>3. scores[o][m] = arg[t].score
    BY <1>1, <2>2 DEF StoreType, ScoreMap
  <2> HIDE DEF scores
  <2>4. value_to_score_'[o] = scores[o] /\ score_to_values_'[o] = score_to_values_[o]
    BY <1>1, <2>1, ContentsEffect
  <2> QED BY <2>2, <2>3, <2>4 DEF Listed
<1>6. ~(FindKv(t) \/ EraseKv(t) \/ EraseZset(t) \/ EmplaceKv(t) \/ CheckKv(t) \/ FindZset(t)
        \/ EmplaceZset(t) \/ Range(t))
  BY DEF Own, UsesZset, FindKv, EraseKv, EraseZset, EmplaceKv, CheckKv, FindZset, EmplaceZset,
         Range, At
<1> QED BY <1>2, <1>3, <1>4, <1>5, <1>6 DEF Step

LEMMA ListedStep ==
    ASSUME IInv, NEW t \in Threads, Step(t)
    PROVE  ListedInv'
<1>1. SUFFICES ASSUME NEW o \in ZSets, NEW m \in Members
               PROVE  Listed(o, m)' \/ \E u \in Threads : Moving(u, o, m)'
  BY DEF ListedInv
<1>2. DeadInv' /\ Keeps(t)
  BY EntryEffect, StepCases DEF IInv
<1>3. CASE ~Alive(o)'
  BY <1>2, <1>3 DEF DeadInv, Listed, NoMembers
<1>4. CASE Alive(o)' /\ Own(t, o, m)
  BY <1>4, OwnStep
<1>5. CASE Alive(o)' /\ ~Own(t, o, m)
  <2>1. SameEntry(o, m)
    BY <1>5, EntryEffect DEF IInv
  <2>2. CASE Listed(o, m)
    BY <2>1, <2>2 DEF Listed, SameEntry
  <2>3. ASSUME NEW u \in Threads, Moving(u, o, m)
        PROVE  Moving(u, o, m)'
    <3>1. u # t
      BY <1>5, <2>3 DEF Moving, Own, UsesZset
    <3> QED BY <1>2, <2>3, <3>1 DEF Keeps, Same, Moving
  <2> QED BY <2>2, <2>3 DEF IInv, ListedInv
<1> QED BY <1>3, <1>4, <1>5

\* An add emplaces its string when it has erased the sorted set, and a zadd creates
\* a sorted set when its key is no string.
LEMMA KeysStep ==
    ASSUME IInv, NEW t \in Threads, Step(t)
    PROVE  KeyExclusive' /\ ObjInv'
<1>1. /\ TypeInv /\ StoreType /\ WholeInv(t) /\ MemberInv(t) /\ Running(t) /\ KeyExclusive /\ ObjInv
      /\ key[t] \in Keys
  BY StepCases, RunningFacts DEF IInv, TypeInv
<1>2. CASE EraseKv(t)
  BY <1>1, <1>2 DEF EraseKv, KeyExclusive, ObjInv, StoreType
<1>3. CASE EraseZset(t)
  BY <1>1, <1>3 DEF EraseZset, KeyExclusive, ObjInv, StoreType
<1>4. CASE EmplaceKv(t)
  BY <1>1, <1>4 DEF EmplaceKv, At, WholeInv, KeyExclusive, ObjInv, StoreType
<1>5. CASE EmplaceZset(t)
  <2>1. pc[t] = "emplaceZset" /\ kv_' = kv_ /\ arg[t].op = "zadd"
    BY <1>1, <1>5, StepOps DEF EmplaceZset, At
  <2>2. kv_[key[t]] = Missing
    BY <1>1, <2>1 DEF MemberInv
  <2>3. \A k \in Keys : zsets_'[k] = zsets_[k] \/ (k = key[t] /\ ~Alive(zsets_'[k]))
    BY <1>1, <1>5, ZsetsEffect, <2>1 DEF Creates, WholeWrite, Step
  <2> QED BY <1>1, <2>1, <2>2, <2>3, AliveFacts DEF KeyExclusive, ObjInv
<1>6. CASE ~(EraseKv(t) \/ EraseZset(t) \/ EmplaceKv(t) \/ EmplaceZset(t))
  <2>1. kv_' = kv_ /\ zsets_' = zsets_
    BY <1>6 DEF Step, FindKv, CheckKv, FindZset, FindScore, Unlink, Link, EraseScore, EmplaceScore,
                Range
  <2> QED BY <1>1, <2>1 DEF KeyExclusive, ObjInv
<1> QED BY <1>2, <1>3, <1>4, <1>5, <1>6

LEMMA IInvStep ==
    ASSUME IInv, NEW t \in Threads, Step(t)
    PROVE  IInv'
<1>1. TypeInv'
  BY StepCases, StepStoreType, OthersInv DEF IInv, TypeInv, Keeps
<1>2. NoConflict'
  <2>1. Running(t) /\ arg' = arg /\ \A u \in Threads \ {t} : Same(u)
    BY StepCases DEF Keeps, IInv
  <2> QED BY <2>1 DEF NoConflict, IInv, Same, Running
<1>3. DeadInv'
  BY EntryEffect DEF IInv
<1>4. \A u \in Threads : WholeInv(u)' /\ MemberInv(u)' /\ EntryInv(u)'
  BY OtherWrites, OwnWhole, OwnMember, OwnEntry
<1> QED BY <1>1, <1>2, <1>3, <1>4, ListedStep, KeysStep DEF IInv

LEMMA IInvCall ==
    ASSUME IInv, Serialized, NEW t \in Threads, Call(t) \/ Answer(t)
    PROVE  IInv'
<1>1. TypeInv /\ Keeps(t) /\ ~Running(t) /\ UNCHANGED <<kv_, zsets_, value_to_score_, score_to_values_>>
  BY CallKeeps, AnswerKeeps DEF IInv, Call, Answer, index, Running
<1>2. TypeInv'
  BY <1>1, OthersInv DEF TypeInv, Keeps, StoreType
<1>3. NoConflict'
  <2>1. \A u \in Threads \ {t} : Same(u)
    BY <1>1 DEF Keeps
  <2>2. Running(t)' => \A u \in Threads : Running(u) => ~Conflict(arg'[t], arg[u])
    BY <1>1, CallKeeps, AnswerKeeps DEF Running
  <2> QED BY <1>1, <2>1, <2>2 DEF NoConflict, IInv, Same, Running, Conflict
<1>4. DeadInv'
  <2>1. \A o \in ZSets : ~Alive(o)' => ~Alive(o)
    BY <1>1, StillAlive
  <2> QED BY <1>1, <2>1 DEF IInv, DeadInv
<1>5. ASSUME NEW u \in Threads \ {t} PROVE WholeInv(u)' /\ MemberInv(u)' /\ EntryInv(u)'
  <2>1. Same(u) /\ WholeInv(u) /\ MemberInv(u) /\ EntryInv(u)
    BY <1>1 DEF Keeps, IInv
  <2> QED BY <1>1, <2>1 DEF Same, WholeInv, MemberInv, EntryInv, Running
<1>6. WholeInv(t)' /\ MemberInv(t)' /\ EntryInv(t)'
  <2>1. CASE Answer(t)
    BY <1>1, <2>1, AnswerKeeps DEF WholeInv, MemberInv, EntryInv, Running, UsesZset
  <2>2. CASE Call(t)
    <3>1. /\ pc'[t] = First(arg'[t].op) /\ arg'[t].op \in OpNames
          /\ todo'[t] = arg'[t].keys \ {key'[t]}
      BY <1>1, <2>2, CallKeeps, RequestFields
    <3>2. /\ pc'[t] \in {"findKv", "eraseKv", "checkKv", "findZset"}
          /\ arg'[t].op = "zadd" => pc'[t] = "checkKv"
      BY <3>1, FirstStep DEF First
    <3> QED BY <3>1, <3>2 DEF WholeInv, MemberInv, EntryInv, UsesZset
  <2> QED BY <2>1, <2>2
<1>7. ListedInv'
  <2>1. SUFFICES ASSUME NEW o \in ZSets, NEW m \in Members
                 PROVE  Listed(o, m)' \/ \E u \in Threads : Moving(u, o, m)'
    BY DEF ListedInv
  <2>2. ASSUME NEW u \in Threads, Moving(u, o, m) PROVE Moving(u, o, m)'
    <3>1. u # t
      BY <1>1, <2>2 DEF Moving, Running
    <3> QED BY <1>1, <2>2, <3>1 DEF Moving, Keeps, Same
  <2> QED BY <1>1, <2>2 DEF IInv, ListedInv, Listed
<1> QED BY <1>1, <1>2, <1>3, <1>4, <1>5, <1>6, <1>7 DEF IInv, KeyExclusive, ObjInv

LEMMA IInvInit ==
    ASSUME Init
    PROVE  IInv
<1>1. DeadInv /\ ObjInv /\ KeyExclusive
  BY DEF Init, DeadInv, ObjInv, KeyExclusive
<1>2. ListedInv
  BY DEF Init, ListedInv, Listed, NoMembers
<1>3. NoConflict /\ \A t \in Threads : WholeInv(t) /\ MemberInv(t) /\ EntryInv(t)
  BY DEF Init, NoConflict, Running, WholeInv, MemberInv, EntryInv, UsesZset
<1> QED BY <1>1, <1>2, <1>3, TypeInit DEF IInv

LEMMA IInvNext ==
    ASSUME IInv, Serialized, [Next]_vars
    PROVE  IInv'
<1>1. CASE UNCHANGED vars
  <2>1. TypeInv'
    BY <1>1, TypeStep DEF IInv
  <2>2. \A t \in Threads : WholeInv(t)' /\ MemberInv(t)' /\ EntryInv(t)'
    BY <1>1 DEF IInv, vars, index, call, found, WholeInv, MemberInv, EntryInv, Running
  <2>3. DeadInv' /\ NoConflict' /\ ObjInv' /\ ListedInv' /\ KeyExclusive'
    BY <1>1 DEF IInv, vars, index, call, found, DeadInv, Alive, NoConflict, Running, ObjInv,
                ListedInv, Listed, Moving, KeyExclusive
  <2> QED BY <2>1, <2>2, <2>3 DEF IInv
<1>2. ASSUME NEW t \in Threads, Call(t) \/ Step(t) \/ Answer(t) PROVE IInv'
  BY <1>2, IInvCall, IInvStep
<1> QED BY <1>1, <1>2 DEF Next

LEMMA IInvariant ==
    ASSUME Serialized
    PROVE  Spec => []IInv
<1>1. Init => IInv
  BY IInvInit
<1>2. IInv /\ [Next]_vars => IInv'
  BY IInvNext
<1> QED BY <1>1, <1>2, PTL DEF Spec

\* A key is never a string and a sorted set, although an add looks at the two maps in
\* two steps and a zadd in others: as long as writes of the same key, or of the same
\* value of a sorted set, do not overlap.
THEOREM KeyExclusiveCorrect ==
    ASSUME Serialized
    PROVE  Spec => []KeyExclusive
<1>1. IInv => KeyExclusive
  BY DEF IInv
<1> QED BY <1>1, IInvariant, PTL

\* A value is never listed under two scores: a zadd finds it in value_to_score_, takes
\* it out of the set of that score and links it again while others range over the set,
\* and zrmv leaves the score in value_to_score_.
THEOREM ListedOnceCorrect ==
    ASSUME Serialized
    PROVE  Spec => []ListedOnce
<1>1. ASSUME IInv PROVE ListedOnce
  <2>1. SUFFICES ASSUME NEW o \in ZSets, NEW m \in Members, NEW s1 \in Scores, NEW s2 \in Scores,
                        m \in score_to_values_[o][s1] \cap score_to_values_[o][s2]
                 PROVE  s1 = s2
    BY DEF ListedOnce
  <2>2. CASE Listed(o, m)
    BY <2>1, <2>2 DEF Listed
  <2>3. ASSUME NEW t \in Threads, Moving(t, o, m) PROVE s1 = s2
    BY <1>1, <2>1, <2>3 DEF IInv, Moving, EntryInv
  <2> QED BY <1>1, <2>2, <2>3 DEF IInv, ListedInv
<1>2. IInv => ListedOnce
  BY <1>1
<1> QED BY <1>2, IInvariant, PTL

-----------------------------------------------------------------------------
(* What the answered requests make of the keys. *)

Promises == [string : Data \cup {Missing}, zkey : BOOLEAN, entries : SUBSET Entries]
HistType == promised \in [Keys -> Promises] /\ calm \in [Threads -> SUBSET Parts]

Entry(m, s) == [member |-> m, score |-> s]
Shows(k, m, s) == zsets_[k] # Missing /\ m \in score_to_values_[zsets_[k]][s]

\* Nobody erases or adds key k; nobody writes member m of it.
Quiet(k)   == \A t \in Threads : Running(t) /\ WholeWrite(arg[t]) => k \notin arg[t].keys
Free(k, m) == \A t \in Threads : Running(t) => ~Touches(arg[t], k, m)

\* A zadd that has not answered has created the object, or found it.
Adding(t, k) == pc[t] \in UsesZset /\ arg[t].op = "zadd" /\ key[t] = k

KindInv(k) == promised[k].entries # {} => promised[k].string = Missing
KeyInv(k) ==
    Quiet(k) => /\ kv_[k] = promised[k].string
                /\ promised[k].zkey => zsets_[k] # Missing
                /\ zsets_[k] # Missing => promised[k].zkey \/ \E t \in Threads : Adding(t, k)
EntriesInv(k) ==
    \A m \in Members, s \in Scores :
        Free(k, m) => (Entry(m, s) \in promised[k].entries <=> Shows(k, m, s))

PromiseInv == \A k \in Keys : KindInv(k) /\ KeyInv(k) /\ EntriesInv(k)

LEMMA AfterFields ==
    ASSUME NEW p \in Promises, NEW r \in Requests, Writes(r)
    PROVE  /\ After(p, r) \in Promises
           /\ r.op \in {"add", "batch"} => After(p, r).string = r.data
           /\ r.op = "del" => After(p, r).string = Missing
           /\ WholeWrite(r) => ~After(p, r).zkey /\ After(p, r).entries = {}
           /\ MemberWrite(r) => After(p, r).string = p.string
           /\ r.op = "zrmv" => After(p, r).zkey = p.zkey
           /\ r.op = "zadd" => (After(p, r).zkey <=> p.string = Missing \/ p.zkey)
           /\ MemberWrite(r) => \A m \in Members, s \in Scores :
                m # r.member => (Entry(m, s) \in After(p, r).entries <=> Entry(m, s) \in p.entries)
           /\ r.op = "zrmv" => \A s \in Scores : Entry(r.member, s) \notin After(p, r).entries
           /\ r.op = "zadd" /\ p.string # Missing => After(p, r) = p
           /\ r.op = "zadd" /\ p.string = Missing =>
                \A s \in Scores : Entry(r.member, s) \in After(p, r).entries <=> s = r.score
           /\ r.op = "zrmv" => After(p, r).entries \subseteq p.entries
<1>1. CASE WholeWrite(r)
  <2>1. r.op \in {"add", "batch"} => r.data \in Data
    BY RequestFields
  <2> QED BY <1>1, <2>1 DEF WholeWrite, MemberWrite, After, Nothing, Promises
<1>2. CASE r.op = "zrmv"
  <2> DEFINE others == {e \in p.entries : e.member # r.member}
  <2>1. After(p, r) = [p EXCEPT !.entries = others]
    BY <1>2 DEF After
  <2>2. After(p, r) \in Promises /\ After(p, r).entries = others
        /\ After(p, r).string = p.string /\ After(p, r).zkey = p.zkey
    BY <2>1 DEF Promises
  <2>3. \A m \in Members, s \in Scores :
          Entry(m, s) \in others <=> Entry(m, s) \in p.entries /\ m # r.member
    BY DEF Entry
  <2> HIDE DEF others
  <2>4. r.member \in Members /\ others \subseteq p.entries
    BY <1>2, RequestFields DEF others
  <2> QED BY <1>2, <2>2, <2>3, <2>4 DEF WholeWrite, MemberWrite
<1>3. CASE r.op = "zadd" /\ p.string # Missing
  <2>1. After(p, r) = p
    BY <1>3 DEF After
  <2> QED BY <1>3, <2>1 DEF WholeWrite, MemberWrite
<1>4. CASE r.op = "zadd" /\ p.string = Missing
  <2> DEFINE es == {e \in p.entries : e.member # r.member} \cup {Entry(r.member, r.score)}
  <2>1. After(p, r) = [p EXCEPT !.zkey = TRUE, !.entries = es]
    BY <1>4 DEF After, Entry
  <2>2. r.member \in Members /\ r.score \in Scores
    BY <1>4, RequestFields
  <2>3. es \subseteq Entries
    BY <2>2 DEF Promises, Entry, Entries
  <2>4. \A m \in Members, s \in Scores :
          Entry(m, s) \in es <=> \/ Entry(m, s) \in p.entries /\ m # r.member
                                 \/ m = r.member /\ s = r.score
    BY <2>2 DEF Entry
  <2> HIDE DEF es
  <2>5. After(p, r) \in Promises /\ After(p, r).entries = es
        /\ After(p, r).string = p.string /\ After(p, r).zkey = TRUE
    BY <2>1, <2>3 DEF Promises
  <2> QED BY <1>4, <2>2, <2>4, <2>5 DEF WholeWrite, MemberWrite
<1> QED BY <1>1, <1>2, <1>3, <1>4 DEF Writes, WholeWrite

\* A step of a request that does not write a key, or a member, leaves it as it is.
LEMMA QuietStep ==
    ASSUME IInv, NEW t \in Threads, Step(t), NEW k \in Keys,
           ~(WholeWrite(arg[t]) /\ k \in arg[t].keys)
    PROVE  kv_'[k] = kv_[k] /\ (zsets_'[k] = zsets_[k] \/ Creates(t, k))
<1>1. TypeInv /\ Running(t)
  BY StepCases DEF IInv
<1>2. ~(k = key[t] /\ WholeWrite(arg[t]))
  BY <1>1, RunningFacts
<1> QED BY <1>1, <1>2, KvEffect, ZsetsEffect

LEMMA ShowsStep ==
    ASSUME IInv, NEW t \in Threads, Step(t), NEW k \in Keys, NEW m \in Members,
           ~Touches(arg[t], k, m)
    PROVE  \A s \in Scores : Shows(k, m, s)' <=> Shows(k, m, s)
<1>1. TypeInv /\ Running(t) /\ ObjInv /\ DeadInv /\ StoreType
  BY StepCases DEF IInv, TypeInv
<1>2. arg[t] \in Requests /\ key[t] \in arg[t].keys /\ k \in Keys
  BY <1>1, RunningFacts
<1>3. ~(WholeWrite(arg[t]) /\ k \in arg[t].keys)
  BY <1>2, RequestFields DEF Touches, Writes, WholeWrite
<1>4. ASSUME NEW o \in ZSets, zsets_'[k] = o, zsets_[k] = o
      PROVE  \A s \in Scores : Shows(k, m, s)' <=> Shows(k, m, s)
  <2>1. ~Own(t, o, m)
    <3>1. SUFFICES ASSUME Own(t, o, m) PROVE FALSE
      OBVIOUS
    <3>2. key[t] = k
      BY <1>1, <1>4, <3>1, OwnFacts, SharedAssumption DEF ObjInv
    <3> QED BY <1>2, <3>1, <3>2, OwnFacts DEF Touches, MemberWrite, Writes
  <2>2. Alive(o)'
    BY <1>4, AliveFacts
  <2> QED BY <1>1, <1>4, <2>1, <2>2, EntryEffect DEF SameEntry, Shows
<1>5. ASSUME NEW o \in ZSets, zsets_'[k] = o, Creates(t, k)
      PROVE  \A s \in Scores : Shows(k, m, s)' <=> Shows(k, m, s)
  <2>1. ~Own(t, o, m) /\ zsets_[k] = Missing /\ ~Alive(o)
    BY <1>5 DEF Creates, Own, UsesZset
  <2>2. Alive(o)'
    BY <1>5, AliveFacts
  <2>3. SameEntry(o, m)
    BY <1>1, <2>1, <2>2, EntryEffect
  <2>4. \A s \in Scores : m \notin score_to_values_[o][s]
    BY <1>1, <2>1 DEF DeadInv, NoMembers
  <2> QED BY <1>5, <2>1, <2>3, <2>4 DEF SameEntry, Shows
<1>6. zsets_[k] \in ZSets \cup {Missing}
  BY <1>1 DEF StoreType
<1>7. CASE zsets_'[k] = Missing
  BY <1>3, <1>7, QuietStep, SharedAssumption DEF Shows, Creates
<1> QED BY <1>3, <1>4, <1>5, <1>6, <1>7, QuietStep DEF Creates

\* An add, batch or del that ends has made of its keys what it says.
LEMMA WholeEnds ==
    ASSUME IInv, NEW t \in Threads, Step(t), Ends(t), WholeWrite(arg[t]), NEW k \in arg[t].keys
    PROVE  /\ kv_'[k] = IF arg[t].op = "del" THEN Missing ELSE arg[t].data
           /\ zsets_'[k] = Missing
<1>1. /\ TypeInv /\ Running(t) /\ WholeInv(t) /\ StoreType /\ arg' = arg
      /\ key[t] \in Keys /\ arg[t].keys \subseteq Keys /\ key[t] \in arg[t].keys
  BY StepCases, RunningFacts DEF IInv, TypeInv
<1>2. pc'[t] \in {"idle", "answer"}
  BY DEF Ends, Running
<1>3. pc[t] \in {"eraseKv", "eraseZset", "emplaceKv"}
  BY <1>1, RunningFacts DEF WholeWrite, StepsOf
<1>4. EraseKv(t) \/ EraseZset(t) \/ EmplaceKv(t)
  BY <1>3 DEF Step, At, FindKv, CheckKv, FindZset, EmplaceZset, FindScore, Unlink, Link, EraseScore,
              EmplaceScore, Range
<1>5. ~EraseKv(t)
  BY <1>1, <1>2, EraseKvKeeps
<1>6. CASE EraseZset(t)
  <2>1. arg[t].op = "del"
    BY <1>1, <1>2, <1>6, EraseZsetKeeps
  <2>2. k = key[t]
    BY <1>1, <2>1, RunningFacts DEF Single
  <2> QED BY <1>1, <1>6, <2>1, <2>2 DEF EraseZset, At, WholeInv, StoreType
<1>7. CASE EmplaceKv(t)
  <2>1. /\ kv_' = [kv_ EXCEPT ![key[t]] = IF @ = Missing THEN arg[t].data ELSE @]
        /\ zsets_' = zsets_ /\ pc[t] = "emplaceKv"
    BY <1>7 DEF EmplaceKv, At
  <2>2. arg[t].op \in {"add", "batch"}
    BY <1>1, <2>1, StepOps
  <2>3. todo[t] = {}
    <3>1. pc'[t] \notin {"eraseKv", "findKv"}
      BY <1>2
    <3> QED BY <1>1, <1>7, <3>1, EmplaceKvKeeps DEF Turns, LastKey, TurnsTo
  <2> QED BY <1>1, <2>1, <2>2, <2>3 DEF WholeInv, StoreType
<1> QED BY <1>4, <1>5, <1>6, <1>7

\* A zadd or zrmv that ends: where its key and its value are.
LEMMA MemberEnds ==
    ASSUME IInv, NEW t \in Threads, Step(t), Ends(t), MemberWrite(arg[t]),
           NEW k, k = key[t], NEW m, m = arg[t].member
    PROVE  /\ arg[t].keys = {k} /\ k \in Keys
           /\ kv_'[k] = kv_[k] /\ zsets_'[k] = zsets_[k]
           /\ arg[t].op = "zadd" /\ kv_[k] = Missing => zsets_[k] # Missing
           /\ \A s \in Scores : Shows(k, m, s)' <=>
                arg[t].op = "zadd" /\ kv_[k] = Missing /\ s = arg[t].score
<1>1. /\ TypeInv /\ Running(t) /\ MemberInv(t) /\ EntryInv(t) /\ StoreType /\ arg' = arg
      /\ key[t] \in Keys /\ arg[t].member \in Members
  BY StepCases, RunningFacts, RequestFields DEF IInv, TypeInv, MemberWrite
<1>2. pc'[t] \in {"idle", "answer"}
  BY DEF Ends, Running
<1>3. arg[t].keys = {k}
  BY <1>1, RunningFacts DEF MemberWrite, Single
<1>4. kv_'[k] = kv_[k] /\ zsets_'[k] = zsets_[k]
  BY <1>1, <1>2, QuietStep DEF MemberWrite, WholeWrite, Creates
<1> DEFINE Goal == /\ arg[t].op = "zadd" /\ kv_[k] = Missing => zsets_[k] # Missing
                   /\ \A s \in Scores : Shows(k, m, s)' <=>
                        arg[t].op = "zadd" /\ kv_[k] = Missing /\ s = arg[t].score
<1>5. SUFFICES Goal
  BY <1>1, <1>3, <1>4
<1>6. \/ CheckKv(t) \/ FindZset(t) \/ FindScore(t) \/ Unlink(t) \/ EmplaceScore(t)
  <2>1. pc[t] \notin {"findKv", "eraseKv", "eraseZset", "emplaceKv", "range"}
    BY <1>1, StepOps DEF MemberWrite
  <2>2. ~(EmplaceZset(t) \/ Link(t) \/ EraseScore(t))
    BY <1>1, <1>2, EmplaceZsetKeeps, LinkKeeps, EraseScoreKeeps
  <2> QED BY <2>1, <2>2 DEF Step, At, FindKv, EraseKv, EraseZset, EmplaceKv, Range
<1>7. CASE CheckKv(t)
  <2>1. kv_[k] # Missing
    BY <1>1, <1>2, <1>7, CheckKvKeeps
  <2>2. zsets_[k] = Missing
    BY <1>1, <2>1 DEF IInv, KeyExclusive
  <2> QED BY <1>4, <2>1, <2>2 DEF Shows
<1>8. CASE FindZset(t)
  <2>1. zsets_[k] = Missing /\ arg[t].op # "zadd"
    BY <1>1, <1>2, <1>8, FindZsetKeeps
  <2> QED BY <1>4, <2>1 DEF Shows
<1>9. ASSUME NEW o, o = zset[t], FindScore(t) \/ Unlink(t) \/ EmplaceScore(t)
      PROVE  Goal
  <2>1. pc[t] \in UsesZset \ {"range"} /\ zsets_' = zsets_ /\ Own(t, o, m)
    BY <1>9 DEF FindScore, Unlink, EmplaceScore, At, Own, UsesZset
  <2>2. o \in ZSets /\ m \in Members /\ zsets_[k] = o /\ o # Missing
    BY <2>1, OwnFacts, SharedAssumption
  <2>3. Alive(o)'
    BY <2>1, OwnAlive
  <2>4. zsets_'[k] = o
    BY <2>1, <2>2
  <2>5. \A s \in Scores : Shows(k, m, s)' <=> m \in score_to_values_'[o][s]
    BY <2>2, <2>4 DEF Shows
  <2>6. CASE FindScore(t) \/ Unlink(t)
    <3>1. Listed(o, m)
      BY <2>1, <2>6, OwnListed DEF FindScore, Unlink, At
    <3>2. \A s \in Scores : m \notin score_to_values_'[o][s]
      <4>1. CASE FindScore(t)
        <5>1. value_to_score_[o][m] = Missing
          BY <1>1, <1>2, <1>9, <4>1, FindScoreKeeps
        <5>2. score_to_values_'[o] = score_to_values_[o]
          BY <2>2, <2>3, <4>1, ContentsEffect DEF FindScore
        <5> QED BY <3>1, <5>1, <5>2, SharedAssumption DEF Listed
      <4>2. CASE Unlink(t)
        <5>1. pc[t] = "unlink" /\ Contents(value_to_score_, Without(o, old[t], m))
          BY <1>9, <4>2 DEF Unlink, At
        <5>2. /\ score_to_values_'[o] = Without(o, old[t], m)[o]
              /\ old[t] \in Scores /\ old[t] = value_to_score_[o][m]
          BY <1>1, <1>9, <2>2, <2>3, <5>1, ContentsEffect, MethodFacts DEF UsesZset, EntryInv
        <5> QED BY <1>1, <2>2, <3>1, <5>2 DEF Without, Listed, StoreType, ValueSets
      <4> QED BY <2>6, <4>1, <4>2
    <3>3. arg[t].op = "zrmv"
      BY <1>1, <1>2, <2>6, FindScoreKeeps, UnlinkKeeps DEF MemberWrite
    <3> QED BY <2>5, <3>2, <3>3
  <2>7. CASE EmplaceScore(t)
    <3>1. pc[t] = "emplaceScore" /\ arg[t].op = "zadd" /\ kv_[k] = Missing
      BY <1>1, <2>7, StepOps DEF EmplaceScore, At, MemberInv
    <3>2. score_to_values_'[o] = score_to_values_[o]
      BY <2>2, <2>3, <2>7, ContentsEffect DEF EmplaceScore
    <3>3. \A s \in Scores : m \in score_to_values_[o][s] <=> s = arg[t].score
      BY <1>1, <1>9, <3>1 DEF EntryInv
    <3> QED BY <2>2, <2>5, <3>1, <3>2, <3>3
  <2> QED BY <1>9, <2>6, <2>7
<1> QED BY <1>6, <1>7, <1>8, <1>9

Tracks(t) == promised' = [k \in Keys |-> IF Ends(t) /\ Writes(arg[t]) /\ k \in arg[t].keys
                                         THEN After(promised[k], arg[t]) ELSE promised[k]]

\* What is free after a step was free before, but for what the step has released.
LEMMA FreeBefore ==
    ASSUME IInv, NEW t \in Threads, Step(t), NEW k, NEW m
    PROVE  /\ ~(Ends(t) /\ Touches(arg[t], k, m)) /\ Free(k, m)' => Free(k, m)
           /\ ~(Ends(t) /\ WholeWrite(arg[t]) /\ k \in arg[t].keys) /\ Quiet(k)' => Quiet(k)
<1>1. Running(t) /\ arg' = arg /\ \A u \in Threads \ {t} : Same(u)
  BY StepCases DEF Keeps, IInv
<1> QED BY <1>1 DEF Free, Quiet, Same, Running, Ends, Touches, Writes

\* A zadd keeps the object of its key until it has answered.
LEMMA AddingStep ==
    ASSUME IInv, NEW t \in Threads, Step(t), NEW k, NEW u \in Threads, Adding(u, k),
           u = t => ~Ends(t)
    PROVE  Adding(u, k)'
<1>1. TypeInv /\ Running(t) /\ arg' = arg /\ \A v \in Threads \ {t} : Same(v)
  BY StepCases DEF Keeps, IInv
<1>2. CASE u # t
  BY <1>1, <1>2 DEF Adding, Same
<1>3. CASE u = t
  <2>1. pc[t] \in UsesZset \ {"range"} /\ arg[t].op = "zadd" /\ key[t] = k
    BY <1>3, MethodFacts, <1>1 DEF Adding
  <2>2. pc'[t] # "answer"
    BY <1>1, <1>3 DEF Ends, Running
  <2>3. FindScore(t) \/ Unlink(t) \/ Link(t) \/ EraseScore(t) \/ EmplaceScore(t)
    BY <2>1 DEF Step, At, FindKv, EraseKv, EraseZset, EmplaceKv, CheckKv, FindZset, EmplaceZset,
                Range, UsesZset
  <2>4. Stays(t) /\ pc'[t] \in {"link", "unlink", "eraseScore", "emplaceScore"}
    BY <1>1, <2>1, <2>2, <2>3, FindScoreKeeps, UnlinkKeeps, LinkKeeps, EraseScoreKeeps,
       EmplaceScoreKeeps
    DEF LastKey
  <2> QED BY <1>1, <1>3, <2>1, <2>4 DEF Adding, Stays, UsesZset
<1> QED BY <1>2, <1>3

\* A key whose promise the step does not change.
LEMMA PromiseKept ==
    ASSUME IInv, HistType, PromiseInv, NEW t \in Threads, Step(t), Tracks(t), NEW k \in Keys,
           ~(Ends(t) /\ Writes(arg[t]) /\ k \in arg[t].keys)
    PROVE  KindInv(k)' /\ KeyInv(k)' /\ EntriesInv(k)'
<1>1. promised'[k] = promised[k]
  BY DEF Tracks
<1>2. TypeInv /\ Running(t) /\ arg' = arg /\ KindInv(k) /\ KeyInv(k) /\ EntriesInv(k)
  BY StepCases DEF IInv, PromiseInv
<1>3. KindInv(k)'
  BY <1>1, <1>2 DEF KindInv
<1>4. KeyInv(k)'
  <2>1. SUFFICES ASSUME Quiet(k)'
                 PROVE  /\ kv_'[k] = promised'[k].string
                        /\ promised'[k].zkey => zsets_'[k] # Missing
                        /\ zsets_'[k] # Missing =>
                             promised'[k].zkey \/ \E u \in Threads : Adding(u, k)'
    BY DEF KeyInv
  <2>2. Quiet(k)
    BY <2>1, FreeBefore DEF Writes, WholeWrite
  <2>3. kv_'[k] = kv_[k] /\ (zsets_'[k] = zsets_[k] \/ Creates(t, k))
    BY <1>2, <2>2, QuietStep DEF Quiet
  <2>4. \A u \in Threads : Adding(u, k) => Adding(u, k)'
    <3>1. SUFFICES ASSUME NEW u \in Threads, Adding(u, k) PROVE Adding(u, k)'
      OBVIOUS
    <3>2. u = t => ~Ends(t)
      BY <1>2, <3>1, RunningFacts DEF Adding, Writes
    <3> QED BY <3>1, <3>2, AddingStep
  <2>5. Creates(t, k) => Adding(t, k)' /\ zsets_'[k] # Missing
    BY <1>2, SharedAssumption DEF Creates, Adding, UsesZset, Stays
  <2> QED BY <1>1, <1>2, <2>2, <2>3, <2>4, <2>5 DEF KeyInv
<1>5. EntriesInv(k)'
  <2>1. SUFFICES ASSUME NEW m \in Members, NEW s \in Scores, Free(k, m)'
                 PROVE  Entry(m, s) \in promised'[k].entries <=> Shows(k, m, s)'
    BY DEF EntriesInv, Entry
  <2>2. Free(k, m) /\ ~Touches(arg[t], k, m)
    <3>1. ~(Ends(t) /\ Touches(arg[t], k, m))
      BY DEF Touches
    <3> QED BY <1>2, <2>1, <3>1, FreeBefore DEF Free
  <2> QED BY <1>1, <1>2, <2>2, ShowsStep DEF EntriesInv
<1> QED BY <1>3, <1>4, <1>5

\* The keys of an add, batch or del that ends.
LEMMA PromiseWhole ==
    ASSUME IInv, HistType, PromiseInv, NEW t \in Threads, Step(t), Tracks(t), NEW k \in Keys,
           Ends(t), WholeWrite(arg[t]), k \in arg[t].keys
    PROVE  KindInv(k)' /\ KeyInv(k)' /\ EntriesInv(k)'
<1>1. /\ promised'[k] = After(promised[k], arg[t]) /\ arg[t] \in Requests /\ Writes(arg[t])
      /\ promised[k] \in Promises
  BY RunningFacts DEF Tracks, WholeWrite, Writes, HistType, Ends, IInv
<1>2. /\ promised'[k].string = IF arg[t].op = "del" THEN Missing ELSE arg[t].data
      /\ ~promised'[k].zkey /\ promised'[k].entries = {}
  BY <1>1, AfterFields DEF WholeWrite
<1>3. /\ kv_'[k] = IF arg[t].op = "del" THEN Missing ELSE arg[t].data
      /\ zsets_'[k] = Missing
  BY WholeEnds
<1> QED BY <1>2, <1>3 DEF KindInv, KeyInv, EntriesInv, Shows

\* The key of a zadd or zrmv that ends.
LEMMA PromiseMember ==
    ASSUME IInv, HistType, PromiseInv, NEW t \in Threads, Step(t), Tracks(t), NEW k \in Keys,
           Ends(t), MemberWrite(arg[t]), k \in arg[t].keys
    PROVE  KindInv(k)' /\ KeyInv(k)' /\ EntriesInv(k)'
<1> DEFINE r == arg[t]
           p == promised[k]
<1>1. /\ promised'[k] = After(p, r) /\ r \in Requests /\ Writes(r) /\ p \in Promises
      /\ r.member \in Members
  BY RunningFacts, RequestFields DEF Tracks, MemberWrite, Writes, HistType, Ends, IInv
<1>2. /\ k = key[t] /\ r.keys = {k} /\ Running(t) /\ TypeInv
      /\ KindInv(k) /\ KeyInv(k) /\ EntriesInv(k)
  BY RunningFacts, StepCases DEF MemberWrite, Single, PromiseInv, IInv
<1>3. /\ kv_'[k] = kv_[k] /\ zsets_'[k] = zsets_[k]
      /\ r.op = "zadd" /\ kv_[k] = Missing => zsets_[k] # Missing
      /\ \A m \in Members, s \in Scores : m = r.member =>
           (Shows(k, m, s)' <=> r.op = "zadd" /\ kv_[k] = Missing /\ s = r.score)
  BY <1>2, MemberEnds
<1>4. Quiet(k)
  <2>1. ASSUME NEW u \in Threads, Running(u), WholeWrite(arg[u]), k \in arg[u].keys PROVE FALSE
    <3>1. u # t
      BY <2>1 DEF WholeWrite, MemberWrite
    <3> QED BY <1>1, <1>2, <2>1, <3>1, Apart DEF IInv
  <2> QED BY <2>1 DEF Quiet
<1>5. kv_[k] = p.string
  BY <1>2, <1>4 DEF KeyInv
<1>6. KindInv(k)'
  <2>1. After(p, r).string = p.string
        /\ (r.op = "zadd" /\ p.string # Missing => After(p, r) = p)
        /\ (r.op = "zrmv" => After(p, r).entries \subseteq p.entries)
    BY <1>1, AfterFields
  <2> QED BY <1>1, <1>2, <2>1 DEF KindInv, MemberWrite
<1>7. KeyInv(k)'
  <2>1. /\ After(p, r).string = p.string
        /\ r.op = "zrmv" => After(p, r).zkey = p.zkey
        /\ r.op = "zadd" => (After(p, r).zkey <=> p.string = Missing \/ p.zkey)
    BY <1>1, AfterFields
  <2>2. zsets_[k] # Missing => promised'[k].zkey \/ \E u \in Threads : Adding(u, k)'
    <3>1. SUFFICES ASSUME zsets_[k] # Missing, ~promised'[k].zkey
                   PROVE  \E u \in Threads : Adding(u, k)'
      OBVIOUS
    <3>2. ~(r.op = "zadd" /\ p.string = Missing) /\ ~p.zkey
      BY <1>1, <2>1, <3>1 DEF MemberWrite
    <3>3. PICK u \in Threads : Adding(u, k)
      BY <1>2, <1>4, <3>1, <3>2 DEF KeyInv
    <3>4. u # t
      <4>1. p.string = Missing
        BY <1>5, <3>1 DEF IInv, KeyExclusive
      <4> QED BY <3>2, <3>3, <4>1 DEF Adding
    <3> QED BY <3>3, <3>4, AddingStep
  <2>3. promised'[k].zkey => zsets_[k] # Missing
    BY <1>1, <1>2, <1>3, <1>4, <1>5, <2>1 DEF KeyInv, MemberWrite
  <2> QED BY <1>1, <1>3, <1>5, <2>1, <2>2, <2>3 DEF KeyInv
<1>8. EntriesInv(k)'
  <2>1. SUFFICES ASSUME NEW m \in Members, NEW s \in Scores, Free(k, m)'
                 PROVE  Entry(m, s) \in promised'[k].entries <=> Shows(k, m, s)'
    BY DEF EntriesInv, Entry
  <2>2. CASE m = r.member
    <3>1. KindInv(k) /\ (kv_[k] # Missing => \A x \in Scores : Entry(m, x) \notin p.entries)
      BY <1>2, <1>5 DEF KindInv
    <3>2. Entry(m, s) \in After(p, r).entries <=>
            r.op = "zadd" /\ p.string = Missing /\ s = r.score
      BY <1>1, <1>5, <2>2, <3>1, AfterFields DEF MemberWrite
    <3> QED BY <1>1, <1>3, <1>5, <2>2, <3>2
  <2>3. CASE m # r.member
    <3>1. ~Touches(r, k, m)
      BY <1>1, <2>3, SharedAssumption DEF Touches
    <3>2. Free(k, m)
      BY <2>1, <3>1, FreeBefore
    <3>3. Entry(m, s) \in After(p, r).entries <=> Entry(m, s) \in p.entries
      BY <1>1, <2>3, AfterFields
    <3> QED BY <1>1, <1>2, <3>1, <3>2, <3>3, ShowsStep DEF EntriesInv
  <2> QED BY <2>2, <2>3
<1> QED BY <1>6, <1>7, <1>8

\* A request that begins, or was answered, changes nothing of that.
LEMMA PromiseCall ==
    ASSUME IInv, PromiseInv, NEW t \in Threads, Call(t) \/ Answer(t), Tracks(t)
    PROVE  PromiseInv' /\ promised' = [k \in Keys |-> promised[k]]
<1>1. /\ Keeps(t) /\ ~Running(t)
      /\ UNCHANGED <<kv_, zsets_, value_to_score_, score_to_values_>>
  BY CallKeeps, AnswerKeeps DEF IInv, Call, Answer, index, Running
<1>2. promised' = [k \in Keys |-> promised[k]]
  BY <1>1 DEF Tracks, Ends
<1>3. \A u \in Threads : Running(u) => Same(u)
  BY <1>1 DEF Keeps
<1>4. ASSUME NEW k \in Keys PROVE KindInv(k)' /\ KeyInv(k)' /\ EntriesInv(k)'
  <2>1. Quiet(k)' => Quiet(k)
    BY <1>3 DEF Quiet, Same, Running
  <2>2. \A m \in Members : Free(k, m)' => Free(k, m)
    BY <1>3 DEF Free, Same, Running
  <2>3. \A u \in Threads : Adding(u, k) => Adding(u, k)'
    BY <1>3 DEF Adding, Same, Running, UsesZset
  <2>4. KindInv(k) /\ KeyInv(k) /\ EntriesInv(k) /\ promised'[k] = promised[k]
    BY <1>2 DEF PromiseInv
  <2>5. KeyInv(k)'
    BY <1>1, <2>1, <2>3, <2>4 DEF KeyInv
  <2>6. EntriesInv(k)'
    BY <1>1, <2>2, <2>4 DEF EntriesInv, Shows
  <2> QED BY <2>4, <2>5, <2>6 DEF KindInv
<1> QED BY <1>2, <1>4 DEF PromiseInv

LEMMA PromiseStep ==
    ASSUME IInv, HistType, PromiseInv, NEW t \in Threads, Step(t), Tracks(t)
    PROVE  PromiseInv'
<1>1. \A k \in Keys : KindInv(k)' /\ KeyInv(k)' /\ EntriesInv(k)'
  BY PromiseKept, PromiseWhole, PromiseMember DEF Writes, WholeWrite, MemberWrite
<1> QED BY <1>1 DEF PromiseInv

Calms == calm' = [u \in Threads |-> IF pc'[u] = "idle" THEN {}
                                    ELSE IF pc[u] = "idle" THEN Untouched'
                                    ELSE calm[u] \cap Untouched']

LEMMA HNextCases ==
    ASSUME HNext
    PROVE  \E t \in Threads : (Call(t) \/ Step(t) \/ Answer(t)) /\ Tracks(t) /\ Calms
BY DEF HNext, Tracks, Calms

LEMMA HistStep ==
    ASSUME IInv, HistType, NEW t \in Threads, Tracks(t), Calms
    PROVE  HistType'
<1>1. ASSUME NEW k \in Keys, Ends(t), Writes(arg[t])
      PROVE  After(promised[k], arg[t]) \in Promises
  BY <1>1, RunningFacts, AfterFields DEF HistType, Ends, IInv
<1>2. promised' \in [Keys -> Promises]
  BY <1>1 DEF Tracks, HistType
<1>3. calm' \in [Threads -> SUBSET Parts]
  BY DEF Calms, HistType, Untouched
<1> QED BY <1>2, <1>3 DEF HistType

LEMMA HSpecImplements == HSpec => Spec
<1>1. HInit => Init
  BY DEF HInit
<1>2. [HNext]_hvars => [Next]_vars
  BY DEF HNext, Next, hvars
<1> QED BY <1>1, <1>2, PTL DEF HSpec, Spec

LEMMA PromiseInvariant ==
    ASSUME Serialized
    PROVE  HSpec => [](HistType /\ PromiseInv)
<1>1. HInit => HistType /\ PromiseInv
  <2>1. ASSUME HInit PROVE HistType
    BY <2>1 DEF HInit, HistType, Promises, Nothing
  <2>2. ASSUME HInit PROVE PromiseInv
    BY <2>2 DEF HInit, Init, PromiseInv, KindInv, KeyInv, EntriesInv, Nothing, Shows
  <2> QED BY <2>1, <2>2
<1>2. IInv /\ HistType /\ PromiseInv /\ [HNext]_hvars => (HistType /\ PromiseInv)'
  <2>1. SUFFICES ASSUME IInv, HistType, PromiseInv, [HNext]_hvars PROVE HistType' /\ PromiseInv'
    OBVIOUS
  <2>2. CASE UNCHANGED hvars
    <3>1. HistType'
      BY <2>1, <2>2 DEF HistType, hvars
    <3>2. ASSUME NEW k \in Keys PROVE KindInv(k)' /\ KeyInv(k)' /\ EntriesInv(k)'
      <4>1. /\ UNCHANGED <<kv_, zsets_, value_to_score_, score_to_values_, promised, pc, arg, key>>
            /\ KindInv(k) /\ KeyInv(k) /\ EntriesInv(k)
        BY <2>1, <2>2 DEF hvars, vars, index, call, PromiseInv
      <4>2. KindInv(k)' /\ KeyInv(k)'
        BY <4>1 DEF KindInv, KeyInv, Quiet, Running, Adding
      <4>3. EntriesInv(k)'
        BY <4>1 DEF EntriesInv, Free, Running, Shows
      <4> QED BY <4>2, <4>3
    <3> QED BY <3>1, <3>2 DEF PromiseInv
  <2>3. CASE HNext
    <3>1. PICK t \in Threads : (Call(t) \/ Step(t) \/ Answer(t)) /\ Tracks(t) /\ Calms
      BY <2>3, HNextCases
    <3> QED BY <2>1, <3>1, HistStep, PromiseStep, PromiseCall
  <2> QED BY <2>1, <2>2, <2>3
<1> QED BY <1>1, <1>2, HSpecImplements, IInvariant, PTL DEF HSpec

LEMMA UntouchedFree ==
    ASSUME TypeInv, NEW k \in Keys, NEW m \in Members \cup {Missing}
    PROVE  /\ <<k, m>> \in Untouched <=> Free(k, m)
           /\ Free(k, Missing) => Free(k, m) /\ Quiet(k) /\ \A t \in Threads : ~Adding(t, k)
<1>1. <<k, m>> \in Untouched <=> Free(k, m)
  BY DEF Untouched, Free, Parts
<1>2. Free(k, Missing) => Free(k, m) /\ Quiet(k)
  BY DEF Free, Quiet, Touches, Writes, WholeWrite
<1>3. ASSUME Free(k, Missing), NEW t \in Threads, Adding(t, k) PROVE FALSE
  <2>1. Running(t) /\ key[t] = k /\ arg[t].op = "zadd"
    BY <1>3 DEF Adding, Running, UsesZset
  <2> QED BY <1>3, <2>1, RunningFacts DEF Free, Touches, Writes
<1> QED BY <1>1, <1>2, <1>3

\* What a map shows of a key is made of what it shows of its values.
LEMMA ShownEntries ==
    ASSUME TypeInv, NEW k \in Keys
    PROVE  /\ Shown(k).entries \subseteq Entries
           /\ \A m \in Members, s \in Scores : Entry(m, s) \in Shown(k).entries <=> Shows(k, m, s)
           /\ Shown(k).string = kv_[k] /\ Shown(k).zkey = (zsets_[k] # Missing)
BY DEF Shown, EntriesOf, Entries, Entry, Shows

LEMMA SameEntries ==
    ASSUME NEW es1 \in SUBSET Entries, NEW es2 \in SUBSET Entries, NEW m \in Members \cup {Missing},
           \A x \in Members, s \in Scores : m \in {Missing, x} =>
               (Entry(x, s) \in es1 <=> Entry(x, s) \in es2)
    PROVE  Of(es1, m) = Of(es2, m)
<1>1. \A e \in Entries : /\ e = Entry(e.member, e.score)
                          /\ e.member \in Members /\ e.score \in Scores
  BY DEF Entries, Entry
<1>2. \A e \in Entries : m = Missing \/ e.member = m => (e \in es1 <=> e \in es2)
  BY <1>1
<1> QED BY <1>2 DEF Of

\* What the clients were told of a key nobody is writing, or of a value nobody is
\* writing while others of its sorted set are written, is what the storage shows, also
\* while requests create the sorted set at the same time.
THEOREM AckedVisibleCorrect ==
    ASSUME Serialized
    PROVE  HSpec => []AckedVisible
<1>1. ASSUME IInv, HistType, PromiseInv PROVE AckedVisible
  <2>1. SUFFICES ASSUME NEW k \in Keys, NEW m \in Members \cup {Missing}, <<k, m>> \in Untouched
                 PROVE  /\ m = Missing => Shown(k) = promised[k]
                        /\ Of(Shown(k).entries, m) = Of(promised[k].entries, m)
    BY DEF AckedVisible, Untouched, Parts
  <2>2. /\ TypeInv /\ Free(k, m) /\ KeyInv(k) /\ EntriesInv(k)
        /\ promised[k] \in Promises /\ promised[k].entries \subseteq Entries
    BY <1>1, <2>1, UntouchedFree DEF IInv, PromiseInv, HistType, Promises
  <2>3. \A x \in Members, s \in Scores : m \in {Missing, x} =>
          (Entry(x, s) \in Shown(k).entries <=> Entry(x, s) \in promised[k].entries)
    <3>1. ASSUME NEW x \in Members, NEW s \in Scores, m \in {Missing, x}
          PROVE  Entry(x, s) \in Shown(k).entries <=> Entry(x, s) \in promised[k].entries
      <4>1. Free(k, x)
        BY <2>2, <3>1, UntouchedFree
      <4> QED BY <2>2, <4>1, ShownEntries DEF EntriesInv
    <3> QED BY <3>1
  <2>4. Shown(k).entries \subseteq Entries
    BY <2>2, ShownEntries
  <2>5. Of(Shown(k).entries, m) = Of(promised[k].entries, m)
    BY <2>2, <2>3, <2>4, SameEntries
  <2>6. ASSUME m = Missing PROVE Shown(k) = promised[k]
    <3>1. Shown(k).entries = promised[k].entries
      BY <2>5, <2>6 DEF Of
    <3>2. Quiet(k) /\ \A t \in Threads : ~Adding(t, k)
      BY <2>2, <2>6, UntouchedFree
    <3>3. kv_[k] = promised[k].string /\ (zsets_[k] # Missing <=> promised[k].zkey)
      BY <2>2, <3>2 DEF KeyInv
    <3> QED BY <2>2, <3>1, <3>3 DEF Shown, Promises
  <2> QED BY <2>5, <2>6
<1>2. IInv /\ HistType /\ PromiseInv => AckedVisible
  BY <1>1
<1> QED BY <1>2, HSpecImplements, IInvariant, PromiseInvariant, PTL

-----------------------------------------------------------------------------
(* What the reads answer. *)

\* The parts of the keys nobody writes during t's request are nobody's now, and with
\* all of a key each value of it is one.
CalmSet(t) ==
    /\ pc[t] = "idle" => calm[t] = {}
    /\ calm[t] \subseteq Untouched
    /\ \A k \in Keys, m \in Members : <<k, Missing>> \in calm[t] => <<k, m>> \in calm[t]

\* The keys of which a query or list has its answer.
Looked(t) == IF pc[t] = "answer" THEN arg[t].keys ELSE arg[t].keys \ (todo[t] \cup {key[t]})

LookedInv(t) ==
    arg[t].op \in {"query", "list"} =>
        \A k \in Looked(t) : <<k, Missing>> \in calm[t] =>
            ans[t][k] = Result(IF promised[k].string = Missing THEN "404" ELSE "200",
                               promised[k].string, {})

\* A zrange has found the object of its key, and has copied its values.
RangeInv(t) ==
    arg[t].op = "zrange" =>
        \A k \in arg[t].keys, m \in Members \cup {Missing} : <<k, m>> \in calm[t] =>
            /\ pc[t] = "range" => zsets_[k] = zset[t]
            /\ pc[t] = "answer" =>
                 /\ m = Missing => ans[t][k].status = IF promised[k].zkey THEN "200" ELSE "404"
                 /\ m # Missing => \A s \in Scores :
                      Entry(m, s) \in ans[t][k].entries <=>
                          Entry(m, s) \in Within(promised[k].entries, arg[t])

CalmInv == \A t \in Threads : CalmSet(t) /\ LookedInv(t) /\ RangeInv(t)

\* What no step changes of a part of a key that nobody is writing.
PartKept(k, m) ==
    /\ m = Missing => promised'[k] = promised[k]
    /\ m # Missing => \A s \in Scores :
         Entry(m, s) \in promised'[k].entries <=> Entry(m, s) \in promised[k].entries
    /\ zsets_[k] # Missing => zsets_'[k] = zsets_[k]

LEMMA FreeKept ==
    ASSUME IInv, HistType, PromiseInv, NEW t \in Threads, Call(t) \/ Step(t) \/ Answer(t),
           Tracks(t), NEW k \in Keys, NEW m \in Members \cup {Missing}, Free(k, m)
    PROVE  PartKept(k, m)
<1>1. CASE Call(t) \/ Answer(t)
  <2>1. promised'[k] = promised[k]
    BY <1>1, PromiseCall
  <2>2. zsets_' = zsets_
    BY <1>1 DEF Call, Answer
  <2> QED BY <2>1, <2>2 DEF PartKept
<1>2. CASE Step(t)
  <2>1. /\ TypeInv /\ Running(t) /\ ~Touches(arg[t], k, m) /\ arg[t] \in Requests
        /\ promised[k] \in Promises
    BY <1>2, StepCases, RunningFacts DEF IInv, Free, HistType
  <2>2. ~(WholeWrite(arg[t]) /\ k \in arg[t].keys)
    BY <2>1, RequestFields DEF Touches, Writes, WholeWrite
  <2>3. zsets_[k] # Missing => zsets_'[k] = zsets_[k]
    BY <1>2, <2>2, QuietStep DEF Creates
  <2>4. CASE ~(Ends(t) /\ Writes(arg[t]) /\ k \in arg[t].keys)
    BY <2>3, <2>4 DEF Tracks, PartKept
  <2>5. CASE Ends(t) /\ Writes(arg[t]) /\ k \in arg[t].keys
    <3>1. MemberWrite(arg[t]) /\ m # Missing /\ m # arg[t].member
      BY <2>1, <2>2, <2>5 DEF Touches, Writes, WholeWrite, MemberWrite
    <3>2. promised'[k] = After(promised[k], arg[t])
      BY <2>5 DEF Tracks
    <3> QED BY <2>1, <2>3, <2>5, <3>1, <3>2, AfterFields DEF PartKept
  <2> QED BY <2>4, <2>5
<1> QED BY <1>1, <1>2

LEMMA CalmSetStep ==
    ASSUME TypeInv', HistType, CalmInv, Calms, NEW u \in Threads
    PROVE  /\ CalmSet(u)'
           /\ pc[u] # "idle" => calm'[u] \subseteq calm[u]
<1>1. calm'[u] = IF pc'[u] = "idle" THEN {} ELSE IF pc[u] = "idle" THEN Untouched'
                 ELSE calm[u] \cap Untouched'
  BY DEF Calms
<1>2. \A k \in Keys, m \in Members : <<k, Missing>> \in Untouched' => <<k, m>> \in Untouched'
  <2>1. ASSUME NEW k \in Keys, NEW m \in Members, <<k, Missing>> \in Untouched'
        PROVE  <<k, m>> \in Untouched'
    BY <2>1 DEF Untouched, Parts, Touches
  <2> QED BY <2>1
<1>3. CalmSet(u)
  BY DEF CalmInv
<1> QED BY <1>1, <1>2, <1>3 DEF CalmSet

LEMMA WithinEntry ==
    ASSUME NEW es, NEW r, NEW m, NEW s
    PROVE  Entry(m, s) \in Within(es, r) <=> Entry(m, s) \in es /\ r.score <= s /\ s <= r.max_score
BY DEF Within, Entry

\* A thread that does not step.
LEMMA ReadKept ==
    ASSUME HistType, CalmInv, NEW u \in Threads, Same(u), TypeInv,
           calm'[u] \subseteq calm[u] \/ pc[u] = "idle",
           \A k \in Keys, m \in Members \cup {Missing} : <<k, m>> \in calm[u] => PartKept(k, m)
    PROVE  LookedInv(u)' /\ RangeInv(u)'
<1>1. LookedInv(u) /\ RangeInv(u)
  BY DEF CalmInv
<1>2. CASE ~Running(u) /\ pc[u] # "answer"
  <2>1. arg'[u] = NoRequest
    BY <1>2 DEF TypeInv, ThreadInv, Same, Running
  <2> QED BY <2>1 DEF LookedInv, RangeInv, NoRequest
<1>3. CASE Running(u) \/ pc[u] = "answer"
  <2>1. pc[u] = "range" => zset[u] # Missing
    BY DEF TypeInv, ThreadInv, UsesZset
  <2>2. calm'[u] \subseteq calm[u] /\ arg[u].keys \subseteq Keys
    BY <1>3, RequestFields DEF Running, TypeInv, ThreadInv, ThreadType
  <2>3. LookedInv(u)'
    <3>1. Looked(u)' = Looked(u) /\ Looked(u) \subseteq Keys
      BY <2>2 DEF Looked, Same
    <3> QED BY <1>1, <2>2, <3>1 DEF LookedInv, Same, PartKept
  <2>4. RangeInv(u)'
    <3>1. SUFFICES ASSUME arg[u].op = "zrange", NEW k \in arg[u].keys, NEW m \in Members \cup {Missing},
                          <<k, m>> \in calm'[u]
                   PROVE  /\ pc[u] = "range" => zsets_'[k] = zset[u]
                          /\ pc[u] = "answer" =>
                               /\ m = Missing => ans[u][k].status =
                                    IF promised'[k].zkey THEN "200" ELSE "404"
                               /\ m # Missing => \A s \in Scores :
                                    Entry(m, s) \in ans[u][k].entries <=>
                                        Entry(m, s) \in Within(promised'[k].entries, arg[u])
      BY DEF RangeInv, Same, Within, Entry
    <3>2. k \in Keys /\ <<k, m>> \in calm[u] /\ PartKept(k, m)
      BY <2>2, <3>1
    <3> QED BY <1>1, <2>1, <3>1, <3>2, WithinEntry DEF RangeInv, PartKept
  <2> QED BY <2>3, <2>4
<1> QED BY <1>2, <1>3

LEMMA ReadCall ==
    ASSUME IInv, NEW t \in Threads, Call(t) \/ Answer(t)
    PROVE  LookedInv(t)' /\ RangeInv(t)'
<1>1. CASE Answer(t)
  BY <1>1, AnswerKeeps DEF IInv, LookedInv, RangeInv, NoRequest
<1>2. CASE Call(t)
  <2>1. /\ pc'[t] = First(arg'[t].op) /\ arg'[t].op \in OpNames
        /\ todo'[t] = arg'[t].keys \ {key'[t]}
    BY <1>2, CallKeeps, RequestFields DEF IInv
  <2>2. pc'[t] \in {"findKv", "eraseKv", "checkKv", "findZset"}
    BY <2>1, FirstStep
  <2> QED BY <2>1, <2>2 DEF LookedInv, RangeInv, Looked
<1> QED BY <1>1, <1>2

LEMMA ReadFindKv ==
    ASSUME IInv, HistType, PromiseInv, CalmInv, NEW t \in Threads, FindKv(t),
           calm'[t] \subseteq calm[t],
           \A k \in Keys, m \in Members \cup {Missing} : <<k, m>> \in calm[t] => PartKept(k, m)
    PROVE  LookedInv(t)' /\ RangeInv(t)'
<1>1. /\ TypeInv /\ Running(t) /\ arg' = arg /\ pc[t] = "findKv" /\ Turns(t)
      /\ Tells(t, Result(IF kv_[key[t]] = Missing THEN "404" ELSE "200", kv_[key[t]], {}))
      /\ CalmSet(t) /\ LookedInv(t)
  BY FindKvKeeps DEF FindKv, At, IInv, CalmInv
<1>2. /\ arg[t].op \in {"query", "list"} /\ arg[t].keys \subseteq Keys /\ key[t] \in arg[t].keys
      /\ todo[t] \subseteq arg[t].keys \ {key[t]} /\ ans[t] \in [Keys -> Answers]
  BY <1>1, StepOps, RunningFacts DEF TypeInv, ThreadType
<1>3. Looked(t)' \subseteq Looked(t) \cup {key[t]} /\ Looked(t) = arg[t].keys \ (todo[t] \cup {key[t]})
  <2>1. Looked(t) = arg[t].keys \ (todo[t] \cup {key[t]})
    BY <1>1 DEF Looked
  <2>2. CASE LastKey(t)
    BY <1>1, <1>2, <2>1, <2>2 DEF LastKey, Looked
  <2>3. CASE TurnsTo(t)
    <3>1. pc'[t] # "answer" /\ todo'[t] \cup {key'[t]} = todo[t]
      BY <2>3 DEF TurnsTo
    <3> QED BY <1>1, <1>2, <2>1, <3>1 DEF Looked
  <2> QED BY <1>1, <2>1, <2>2, <2>3 DEF Turns
<1>4. ASSUME NEW k \in Looked(t)', <<k, Missing>> \in calm'[t]
      PROVE  ans'[t][k] = Result(IF promised'[k].string = Missing THEN "404" ELSE "200",
                                 promised'[k].string, {})
  <2>1. k \in Keys /\ <<k, Missing>> \in calm[t]
    BY <1>2, <1>3, <1>4
  <2>2. promised'[k] = promised[k]
    BY <2>1 DEF PartKept
  <2>3. CASE k = key[t]
    <3>1. Free(k, Missing)
      BY <1>1, <2>1, UntouchedFree DEF CalmSet
    <3>2. kv_[k] = promised[k].string
      BY <1>1, <2>1, <3>1, UntouchedFree DEF PromiseInv, KeyInv
    <3> QED BY <1>1, <1>2, <2>1, <2>2, <2>3, <3>2 DEF Tells
  <2>4. CASE k # key[t]
    <3>1. k \in Looked(t) /\ ans'[t][k] = ans[t][k]
      BY <1>1, <1>2, <1>3, <1>4, <2>1, <2>4 DEF Tells
    <3> QED BY <1>1, <1>2, <2>1, <2>2, <3>1 DEF LookedInv
  <2> QED BY <2>3, <2>4
<1> QED BY <1>1, <1>2, <1>4 DEF LookedInv, RangeInv

LEMMA ReadFindZset ==
    ASSUME IInv, HistType, PromiseInv, CalmInv, NEW t \in Threads, FindZset(t), arg[t].op = "zrange",
           calm'[t] \subseteq calm[t],
           \A k \in Keys, m \in Members \cup {Missing} : <<k, m>> \in calm[t] => PartKept(k, m)
    PROVE  RangeInv(t)'
<1>1. /\ TypeInv /\ Running(t) /\ arg' = arg /\ zset'[t] = zsets_[key[t]] /\ zsets_' = zsets_
      /\ CalmSet(t)
  BY FindZsetKeeps DEF FindZset, IInv, CalmInv
<1>2. arg[t].keys = {key[t]} /\ key[t] \in Keys /\ ans[t] \in [Keys -> Answers]
  BY <1>1, RunningFacts DEF Single, TypeInv, ThreadType
<1>3. SUFFICES ASSUME NEW k \in arg[t].keys, NEW m \in Members \cup {Missing}, <<k, m>> \in calm'[t],
                      pc'[t] = "answer"
               PROVE  /\ m = Missing => ans'[t][k].status =
                           IF promised'[k].zkey THEN "200" ELSE "404"
                      /\ m # Missing => \A s \in Scores :
                           Entry(m, s) \in ans'[t][k].entries <=>
                               Entry(m, s) \in Within(promised'[k].entries, arg[t])
  BY <1>1, <1>2 DEF RangeInv, Within, Entry
<1>4. /\ k \in Keys /\ k = key[t] /\ <<k, m>> \in calm[t] /\ PartKept(k, m) /\ Free(k, m)
      /\ KeyInv(k) /\ EntriesInv(k)
  BY <1>1, <1>2, <1>3, UntouchedFree DEF CalmSet, PromiseInv
<1>5. zsets_[k] = Missing /\ ans'[t] = [ans[t] EXCEPT ![k] = Result("404", Missing, {})]
  BY <1>1, <1>3, <1>4, FindZsetKeeps DEF Tells
<1>6. ans'[t][k] = Result("404", Missing, {})
  BY <1>2, <1>4, <1>5
<1>7. m = Missing => ~promised[k].zkey
  BY <1>1, <1>4, <1>5, UntouchedFree DEF KeyInv
<1>8. m # Missing => \A s \in Scores : Entry(m, s) \notin promised[k].entries
  BY <1>4, <1>5 DEF EntriesInv, Shows
<1>9. m # Missing => \A s \in Scores : Entry(m, s) \notin Within(promised'[k].entries, arg[t])
  BY <1>4, <1>8, WithinEntry DEF PartKept
<1> QED BY <1>4, <1>6, <1>7, <1>9 DEF PartKept, Result

LEMMA ReadRange ==
    ASSUME IInv, HistType, PromiseInv, CalmInv, NEW t \in Threads, Range(t),
           calm'[t] \subseteq calm[t],
           \A k \in Keys, m \in Members \cup {Missing} : <<k, m>> \in calm[t] => PartKept(k, m)
    PROVE  RangeInv(t)'
<1>1. /\ TypeInv /\ Running(t) /\ arg' = arg /\ pc[t] = "range" /\ pc'[t] = "answer"
      /\ Tells(t, Result("200", Missing, Within(EntriesOf(zset[t]), arg[t])))
      /\ CalmSet(t) /\ RangeInv(t)
  BY RangeKeeps DEF Range, At, IInv, CalmInv, LastKey
<1>2. /\ arg[t].op = "zrange" /\ arg[t].keys = {key[t]} /\ key[t] \in Keys
      /\ ans[t] \in [Keys -> Answers] /\ zset[t] # Missing
  BY <1>1, RunningFacts, MethodFacts DEF Single, TypeInv, ThreadType, UsesZset
<1>3. SUFFICES ASSUME NEW k \in arg[t].keys, NEW m \in Members \cup {Missing}, <<k, m>> \in calm'[t]
               PROVE  /\ m = Missing => ans'[t][k].status =
                           IF promised'[k].zkey THEN "200" ELSE "404"
                      /\ m # Missing => \A s \in Scores :
                           Entry(m, s) \in ans'[t][k].entries <=>
                               Entry(m, s) \in Within(promised'[k].entries, arg[t])
  BY <1>1 DEF RangeInv, Within, Entry
<1>4. /\ k \in Keys /\ k = key[t] /\ <<k, m>> \in calm[t] /\ PartKept(k, m) /\ Free(k, m)
      /\ KeyInv(k) /\ EntriesInv(k) /\ zsets_[k] = zset[t]
  BY <1>1, <1>2, <1>3, UntouchedFree DEF CalmSet, PromiseInv, RangeInv
<1>5. ans'[t][k] = Result("200", Missing, Within(EntriesOf(zset[t]), arg[t]))
  BY <1>1, <1>2, <1>4 DEF Tells
<1>6. m = Missing => promised[k].zkey
  BY <1>1, <1>2, <1>4, UntouchedFree DEF KeyInv
<1>7. ASSUME m # Missing, NEW s \in Scores
      PROVE  /\ Entry(m, s) \in EntriesOf(zset[t]) <=> Entry(m, s) \in promised[k].entries
             /\ Entry(m, s) \in promised'[k].entries <=> Entry(m, s) \in promised[k].entries
  <2>1. Entry(m, s) \in EntriesOf(zset[t]) <=> Shows(k, m, s)
    BY <1>4, <1>7 DEF EntriesOf, Entry, Entries, Shows
  <2> QED BY <1>4, <1>7, <2>1 DEF EntriesInv, PartKept
<1>8. m # Missing => \A s \in Scores :
        Entry(m, s) \in Within(EntriesOf(zset[t]), arg[t]) <=>
            Entry(m, s) \in Within(promised'[k].entries, arg[t])
  BY <1>7, WithinEntry
<1> QED BY <1>4, <1>5, <1>6, <1>8 DEF PartKept, Result

LEMMA ReadOwn ==
    ASSUME IInv, HistType, PromiseInv, CalmInv, NEW t \in Threads, Step(t),
           calm'[t] \subseteq calm[t],
           \A k \in Keys, m \in Members \cup {Missing} : <<k, m>> \in calm[t] => PartKept(k, m)
    PROVE  LookedInv(t)' /\ RangeInv(t)'
<1>1. TypeInv /\ Running(t) /\ arg' = arg
  BY StepCases DEF IInv
<1>2. CASE FindKv(t)
  BY <1>2, ReadFindKv
<1>3. CASE arg[t].op = "zrange"
  <2>1. pc[t] \in {"findZset", "range"}
    BY <1>1, <1>3, StepOps
  <2>2. FindZset(t) \/ Range(t)
    BY <2>1 DEF Step, At, FindKv, EraseKv, EraseZset, EmplaceKv, CheckKv, EmplaceZset, FindScore,
                Unlink, Link, EraseScore, EmplaceScore
  <2> QED BY <1>1, <1>3, <2>2, ReadFindZset, ReadRange DEF LookedInv
<1>4. CASE ~FindKv(t) /\ arg[t].op # "zrange"
  <2>1. pc[t] # "findKv"
    BY <1>4 DEF Step, At, EraseKv, EraseZset, EmplaceKv, CheckKv, FindZset, EmplaceZset, FindScore,
                Unlink, Link, EraseScore, EmplaceScore, Range
  <2>2. arg[t].op \notin {"query", "list"}
    BY <1>1, <2>1, StepOps
  <2> QED BY <1>1, <1>4, <2>2 DEF LookedInv, RangeInv
<1> QED BY <1>2, <1>3, <1>4

LEMMA CalmStep ==
    ASSUME IInv, IInv', HistType, PromiseInv, CalmInv, [HNext]_hvars
    PROVE  CalmInv'
<1>1. CASE UNCHANGED hvars
  <2>1. SUFFICES ASSUME NEW t \in Threads PROVE CalmSet(t)' /\ LookedInv(t)' /\ RangeInv(t)'
    BY DEF CalmInv
  <2>2. /\ UNCHANGED <<zsets_, promised, calm, pc, arg, key, todo, zset, ans>>
        /\ CalmSet(t) /\ LookedInv(t) /\ RangeInv(t)
    BY <1>1 DEF hvars, vars, call, found, CalmInv
  <2>3. CalmSet(t)'
    BY <2>2 DEF CalmSet, Untouched, Running
  <2>4. LookedInv(t)'
    BY <2>2 DEF LookedInv, Looked
  <2>5. RangeInv(t)'
    BY <2>2 DEF RangeInv, Within, Entry
  <2> QED BY <2>3, <2>4, <2>5
<1>2. CASE HNext
  <2>1. PICK t \in Threads : (Call(t) \/ Step(t) \/ Answer(t)) /\ Tracks(t) /\ Calms
    BY <1>2, HNextCases
  <2>2. SUFFICES ASSUME NEW u \in Threads PROVE CalmSet(u)' /\ LookedInv(u)' /\ RangeInv(u)'
    BY DEF CalmInv
  <2>3. CalmSet(u)' /\ (pc[u] # "idle" => calm'[u] \subseteq calm[u]) /\ CalmSet(u)
    BY <2>1, CalmSetStep DEF CalmInv, IInv
  <2>4. \A k \in Keys, m \in Members \cup {Missing} : <<k, m>> \in calm[u] => PartKept(k, m)
    <3>1. ASSUME NEW k \in Keys, NEW m \in Members \cup {Missing}, <<k, m>> \in calm[u]
          PROVE  PartKept(k, m)
      <4>1. Free(k, m)
        BY <2>3, <3>1, UntouchedFree DEF CalmSet, IInv
      <4> QED BY <2>1, <4>1, FreeKept
    <3> QED BY <3>1
  <2>5. CASE u # t
    <3>1. Same(u) /\ TypeInv
      BY <2>1, <2>5, CallKeeps, StepCases, AnswerKeeps DEF Keeps, IInv
    <3>2. LookedInv(u)' /\ RangeInv(u)'
      BY <2>3, <2>4, <3>1, ReadKept
    <3> QED BY <2>3, <3>2
  <2>6. CASE u = t /\ (Call(t) \/ Answer(t))
    BY <2>3, <2>6, ReadCall
  <2>7. CASE u = t /\ Step(t)
    <3>1. pc[u] # "idle"
      BY <2>7, StepCases DEF Running, IInv
    <3> QED BY <2>3, <2>4, <2>7, <3>1, ReadOwn
  <2> QED BY <2>1, <2>5, <2>6, <2>7
<1> QED BY <1>1, <1>2

LEMMA CalmInvariant ==
    ASSUME Serialized
    PROVE  HSpec => []CalmInv
<1>1. HInit => CalmInv
  <2>1. SUFFICES ASSUME HInit, NEW t \in Threads PROVE CalmSet(t) /\ LookedInv(t) /\ RangeInv(t)
    BY DEF CalmInv
  <2>2. calm[t] = {} /\ arg[t] = NoRequest
    BY <2>1 DEF HInit, Init
  <2> QED BY <2>2 DEF CalmSet, LookedInv, RangeInv, NoRequest
<1>2. IInv /\ IInv' /\ HistType /\ PromiseInv /\ CalmInv /\ [HNext]_hvars => CalmInv'
  BY CalmStep
<1> QED BY <1>1, <1>2, HSpecImplements, IInvariant, PromiseInvariant, PTL DEF HSpec

\* A read answers what the clients were told of each key, and each value, that nobody
\* wrote while it ran: a query or list of all the strings it looked at one by one, a
\* zrange although it finds the object and copies its values in two steps.
THEOREM StableReadsCorrect ==
    ASSUME Serialized
    PROVE  HSpec => []StableReads
<1>1. ASSUME IInv, HistType, CalmInv PROVE StableReads
  <2>1. SUFFICES ASSUME NEW t \in Threads, NEW k \in Keys, NEW m \in Members \cup {Missing},
                        <<k, m>> \in calm[t], pc[t] = "answer", k \in arg[t].keys
                 PROVE  LET p0 == promised[k]  a == ans[t][k] IN
                        /\ arg[t].op \in {"query", "list"} /\ m = Missing =>
                             a = Result(IF p0.string = Missing THEN "404" ELSE "200", p0.string, {})
                        /\ arg[t].op = "zrange" =>
                             /\ m = Missing => a.status = IF p0.zkey THEN "200" ELSE "404"
                             /\ Of(a.entries, m) = Of(Within(p0.entries, arg[t]), m)
    BY <1>1 DEF StableReads, HistType, Parts, At
  <2>2. CalmSet(t) /\ LookedInv(t) /\ RangeInv(t)
    BY <1>1 DEF CalmInv
  <2>3. /\ ans[t][k].entries \in SUBSET Entries
        /\ Within(promised[k].entries, arg[t]) \in SUBSET Entries
    BY <1>1 DEF IInv, TypeInv, ThreadType, Answers, HistType, Promises, Within
  <2>4. ASSUME arg[t].op = "zrange"
        PROVE  Of(ans[t][k].entries, m) = Of(Within(promised[k].entries, arg[t]), m)
    <3>1. ASSUME NEW x \in Members, NEW s \in Scores, m \in {Missing, x}
          PROVE  Entry(x, s) \in ans[t][k].entries <=>
                     Entry(x, s) \in Within(promised[k].entries, arg[t])
      <4>1. <<k, x>> \in calm[t] /\ x # Missing
        BY <2>1, <2>2, <3>1, SharedAssumption DEF CalmSet
      <4> QED BY <2>1, <2>2, <2>4, <4>1 DEF RangeInv
    <3> QED BY <2>3, <3>1, SameEntries
  <2> QED BY <2>1, <2>2, <2>4 DEF LookedInv, Looked, RangeInv
<1>2. IInv /\ HistType /\ CalmInv => StableReads
  BY <1>1
<1> QED BY <1>2, HSpecImplements, IInvariant, PromiseInvariant, CalmInvariant, PTL
=============================================================================
