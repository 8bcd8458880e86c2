----------------------------- MODULE ZSetProofs -----------------------------
(***************************************************************************)
(* With one write of a value at a time, the two indexes and the RocksDB    *)
(* rows of a sorted set agree whenever the value is quiet, and the sorted  *)
(* set is linearizable.  The inductive invariant says, for every step a    *)
(* writer can be at, which of the three copies it has already changed.     *)
(***************************************************************************)
EXTENDS ZSet, TLAPS

\* The type invariant with the calls the writers serve.
CallInv(t) == /\ pc[t] \in ZaddSteps => arg[t] \in Calls /\ arg[t].op = "zadd"
              /\ pc[t] \in ZrmvSteps => arg[t] \in Calls /\ arg[t].op = "zrmv"
TypeInv == TypeOK /\ \A t \in Threads : CallInv(t)

\* score_to_values lists v under s only (nowhere when s is Missing).
ListedAt(v, s) == \A r \in Scores : v \in score_to_values[r] <=> r = s

\* What thread t has done so far to the value v it writes, n being its score.
WriterInv(t) ==
    LET v == arg[t].value
        n == arg[t].score
    IN
    /\ pc[t] \in ZaddSteps \ {"put", "getOrInsert"} => created
    /\ pc[t] \in {"put", "find", "take"} => zset_db[v] = value_to_score[v]
    /\ pc[t] \in ZaddSteps \ {"put"} => zset_db[v] = n
    /\ pc[t] \in {"put", "getOrInsert", "getScore", "move", "find", "take"} =>
         ListedAt(v, value_to_score[v])
    /\ pc[t] = "move" => old[t] = value_to_score[v] /\ old[t] \in Scores /\ old[t] # n
    /\ pc[t] = "setScore" => ListedAt(v, n)
    /\ pc[t] = "setNew" => value_to_score[v] = Missing /\ ListedAt(v, Missing)
    /\ pc[t] = "link" => value_to_score[v] = n /\ ListedAt(v, Missing)
    /\ pc[t] \in {"delete", "unlink"} =>
         value_to_score[v] = Missing /\ old[t] \in Scores /\ ListedAt(v, old[t])
    /\ pc[t] = "unlink" => zset_db[v] = Missing

\* No value is in the writing steps of two threads.
OneWriter == \A t, u \in Threads :
    t # u /\ {pc[t], pc[u]} \subseteq ZaddSteps \cup ZrmvSteps =>
      arg[t].value # arg[u].value

\* Nothing is listed before the sorted set exists.
CreatedInv == ~created => \A s \in Scores : score_to_values[s] = {}

IInv == /\ TypeInv
        /\ CreatedInv
        /\ OneWriter
        /\ IndexesAgree
        /\ \A t \in Threads : WriterInv(t)

-----------------------------------------------------------------------------
\* The members a zrange returns are entries.
LEMMA RangeAnswerType ==
    ASSUME NEW lo \in Scores, NEW hi \in Scores
    PROVE  RangeAnswer(lo, hi) \in [status : {"none", "200", "404", "closed"},
                                    entries : SUBSET Entries]
  BY DEF RangeAnswer, Members

\* Every step keeps the types, whoever shares a value.
LEMMA TypeStep == TypeInv /\ [Next]_vars => TypeInv'
<1> SUFFICES ASSUME TypeInv, [Next]_vars PROVE TypeInv'
    OBVIOUS
<1> USE ScoresAssumption
        DEF TypeInv, TypeOK, CallInv, Goto, At, Calls, ZaddSteps, ZrmvSteps, index
<1>1. CASE UNCHANGED vars
    BY <1>1 DEF vars
<1>2. ASSUME NEW t \in Threads, Call(t) PROVE TypeInv'
    BY <1>2 DEF Call
<1>3. ASSUME NEW t \in Threads, ZaddPut(t) PROVE TypeInv'
    BY <1>3 DEF ZaddPut
<1>4. ASSUME NEW t \in Threads, ZaddGetOrInsert(t) PROVE TypeInv'
    BY <1>4 DEF ZaddGetOrInsert
<1>5. ASSUME NEW t \in Threads, ZaddGetScore(t) PROVE TypeInv'
    BY <1>5 DEF ZaddGetScore
<1>6. ASSUME NEW t \in Threads, ZaddMove(t) PROVE TypeInv'
    BY <1>6 DEF ZaddMove, Moved, Link, Unlink
<1>7. ASSUME NEW t \in Threads, ZaddSetScore(t) PROVE TypeInv'
    BY <1>7 DEF ZaddSetScore
<1>8. ASSUME NEW t \in Threads, ZaddSetNew(t) PROVE TypeInv'
    BY <1>8 DEF ZaddSetNew
<1>9. ASSUME NEW t \in Threads, ZaddLink(t) PROVE TypeInv'
    BY <1>9 DEF ZaddLink, Link
<1>10. ASSUME NEW t \in Threads, ZrmvFind(t) PROVE TypeInv'
    BY <1>10 DEF ZrmvFind
<1>11. ASSUME NEW t \in Threads, ZrmvTake(t) PROVE TypeInv'
    BY <1>11 DEF ZrmvTake
<1>12. ASSUME NEW t \in Threads, ZrmvDelete(t) PROVE TypeInv'
    BY <1>12 DEF ZrmvDelete
<1>13. ASSUME NEW t \in Threads, ZrmvUnlink(t) PROVE TypeInv'
    BY <1>13 DEF ZrmvUnlink, Unlink
<1>14. ASSUME NEW t \in Threads, Zrange(t) PROVE TypeInv'
    BY <1>14, RangeAnswerType DEF Zrange
<1>15. ASSUME NEW t \in Threads, Answer(t) PROVE TypeInv'
    BY <1>15 DEF Answer, NoCall, NoAnswer
<1> QED
    BY <1>1, <1>2, <1>3, <1>4, <1>5, <1>6, <1>7, <1>8, <1>9, <1>10, <1>11,
       <1>12, <1>13, <1>14, <1>15 DEF Next, Step

\* The initial state is typed.
LEMMA InitTyped == ASSUME Init PROVE TypeInv
<1> USE DEF Init
<1>1. /\ created \in BOOLEAN
      /\ value_to_score \in [Values -> Scores \cup {Missing}]
      /\ score_to_values \in [Scores -> SUBSET Values]
      /\ zset_db \in [Values -> Scores \cup {Missing}]
      /\ pc \in [Threads -> {"idle", "answer"} \cup ZaddSteps \cup ZrmvSteps]
      /\ old \in [Threads -> Scores \cup {Missing}]
    OBVIOUS
<1>2. arg \in [Threads -> [op : {"none", "zadd", "zrmv"},
                          value : Values \cup {Missing},
                          score : Scores \cup {Missing}]]
    BY DEF NoCall
<1>3. ans \in [Threads -> [status : {"none", "200", "404", "closed"},
                          entries : SUBSET Entries]]
    BY DEF NoAnswer
<1>4. ASSUME NEW t \in Threads PROVE CallInv(t)
    BY DEF CallInv, ZaddSteps, ZrmvSteps
<1>5. ASSUME NEW t \in Threads PROVE pc[t] = "idle"
    OBVIOUS
<1> QED
    BY <1>1, <1>2, <1>3, <1>4, <1>5 DEF TypeInv, TypeOK

\* Types and calls are right from the start on.
LEMMA TypeInvariance == Spec => []TypeInv
<1>1. Init => TypeInv
    BY InitTyped
<1> QED
    BY <1>1, TypeStep, PTL DEF Spec

\* The variables of a sorted set always have their types.
THEOREM TypeCorrect == Spec => []TypeOK
<1>1. TypeInv => TypeOK
    BY DEF TypeInv
<1> QED
    BY <1>1, TypeInvariance, PTL

-----------------------------------------------------------------------------
\* What a step of thread t may leave behind for its value, and for the rest:
\* if it changes the three copies for the value of its call only, and keeps the
\* promises of its new place in the code, the whole invariant is kept.
LEMMA WriterStep ==
    ASSUME Serialized, IInv, TypeInv', CreatedInv',
           NEW t \in Threads, pc[t] \in ZaddSteps \cup ZrmvSteps,
           \A u \in Threads : u # t => /\ pc'[u] = pc[u]
                                       /\ arg'[u] = arg[u]
                                       /\ old'[u] = old[u],
           arg'[t] = arg[t],
           pc'[t] \in {"answer"} \cup ZaddSteps \cup ZrmvSteps,
           created => created',
           \A v \in Values : v # arg[t].value =>
              /\ value_to_score'[v] = value_to_score[v]
              /\ zset_db'[v] = zset_db[v]
              /\ \A s \in Scores : v \in score_to_values'[s] <=> v \in score_to_values[s],
           WriterInv(t)',
           pc'[t] = "answer" =>
              /\ zset_db'[arg[t].value] = value_to_score'[arg[t].value]
              /\ ListedAt(arg[t].value, value_to_score[arg[t].value])'
    PROVE  IInv'
<1>1. ASSUME NEW u \in Threads, u # t PROVE WriterInv(u)'
    <2>1. CASE pc[u] \in ZaddSteps \cup ZrmvSteps
        <3>1. arg[u].value \in Values /\ arg[u].value # arg[t].value
            BY <1>1, <2>1 DEF IInv, OneWriter, TypeInv, CallInv, Calls
        <3> QED
            BY <1>1, <3>1 DEF IInv, WriterInv, ListedAt
    <2>2. CASE pc[u] \notin ZaddSteps \cup ZrmvSteps
        BY <1>1, <2>2 DEF WriterInv, ZaddSteps, ZrmvSteps
    <2> QED
        BY <2>1, <2>2
<1>2. ASSUME NEW v \in Values, Quiet(v)'
      PROVE  zset_db'[v] = value_to_score'[v] /\ ListedAt(v, value_to_score[v])'
    <2>1. CASE v = arg[t].value
        <3>1. pc'[t] = "answer"
            BY <1>2, <2>1 DEF Quiet, Writing
        <3> QED
            BY <2>1, <3>1
    <2>2. CASE v # arg[t].value
        <3>1. Quiet(v)
            BY <1>2, <2>2 DEF Quiet, Writing
        <3>2. zset_db[v] = value_to_score[v] /\ ListedAt(v, value_to_score[v])
            BY <3>1 DEF IInv, IndexesAgree, ListedAt
        <3> QED
            BY <2>2, <3>2 DEF ListedAt
    <2> QED
        BY <2>1, <2>2
<1>3. IndexesAgree'
    BY <1>2 DEF IndexesAgree, ListedAt
<1>4. OneWriter'
    BY DEF IInv, OneWriter, ZaddSteps, ZrmvSteps
<1> QED
    BY <1>1, <1>3, <1>4 DEF IInv

-----------------------------------------------------------------------------
\* Every step of every thread keeps the inductive invariant.
LEMMA InvStep ==
    ASSUME Serialized, IInv, [Next]_vars
    PROVE  IInv'
<1> USE ScoresAssumption
<1>1. TypeInv'
    BY TypeStep DEF IInv
<1>2. CreatedInv'
  <2> USE DEF CreatedInv, IInv, index
  <2>1. CASE UNCHANGED vars
      BY <2>1 DEF vars
  <2>2. ASSUME NEW t \in Threads, Step(t), ~(ZaddMove(t) \/ ZaddLink(t) \/ ZrmvUnlink(t))
        PROVE  CreatedInv'
      BY <2>2 DEF Step, Call, ZaddPut, ZaddGetOrInsert, ZaddGetScore, ZaddSetScore,
                  ZaddSetNew, ZrmvFind, ZrmvTake, ZrmvDelete, Zrange, Answer
  <2>3. ASSUME NEW t \in Threads, ZaddMove(t) \/ ZaddLink(t) PROVE CreatedInv'
      <3>1. pc[t] \in {"move", "link"} /\ created' = created
          BY <2>3 DEF ZaddMove, ZaddLink, At
      <3>2. created
          BY <3>1 DEF WriterInv, ZaddSteps
      <3> QED
          BY <3>1, <3>2
  <2>4. ASSUME NEW t \in Threads, ZrmvUnlink(t) PROVE CreatedInv'
      BY <2>4 DEF ZrmvUnlink, Unlink, TypeInv, TypeOK
  <2> QED
      BY <2>1, <2>2, <2>3, <2>4 DEF Next
<1>3. CASE UNCHANGED vars
  <2>1. UNCHANGED <<created, value_to_score, score_to_values, zset_db, pc, arg, old>>
      BY <1>3 DEF vars, index
  <2>2. ASSUME NEW t \in Threads PROVE WriterInv(t)'
      BY <2>1 DEF IInv, WriterInv, ListedAt
  <2>3. IndexesAgree' /\ OneWriter'
      BY <2>1 DEF IInv, IndexesAgree, Quiet, Writing, OneWriter
  <2> QED
      BY <1>1, <1>2, <2>2, <2>3 DEF IInv
<1> DEFINE Others(t) == \A u \in Threads : u # t => /\ pc'[u] = pc[u]
                                                    /\ arg'[u] = arg[u]
                                                    /\ old'[u] = old[u]
           Rest(t) == \A v \in Values : v # arg[t].value =>
              /\ value_to_score'[v] = value_to_score[v]
              /\ zset_db'[v] = zset_db[v]
              /\ \A s \in Scores : v \in score_to_values'[s] <=> v \in score_to_values[s]
           Ends(t) == pc'[t] = "answer" =>
              /\ zset_db'[arg[t].value] = value_to_score'[arg[t].value]
              /\ ListedAt(arg[t].value, value_to_score[arg[t].value])'
           Rewrites(t) ==
              \/ ZaddPut(t) \/ ZaddGetOrInsert(t) \/ ZaddGetScore(t) \/ ZaddMove(t)
              \/ ZaddSetScore(t) \/ ZaddSetNew(t) \/ ZaddLink(t)
              \/ ZrmvFind(t) \/ ZrmvTake(t) \/ ZrmvDelete(t) \/ ZrmvUnlink(t)
<1>4. ASSUME NEW t \in Threads, Rewrites(t) PROVE IInv'
  <2> USE DEF Goto, At, index, ZaddSteps, ZrmvSteps
  <2>1. /\ pc[t] \in ZaddSteps \cup ZrmvSteps
        /\ pc'[t] \in {"answer"} \cup ZaddSteps \cup ZrmvSteps
        /\ arg' = arg
        /\ created => created'
        /\ Others(t)
      BY <1>4 DEF IInv, TypeInv, TypeOK, ZaddPut, ZaddGetOrInsert, ZaddGetScore,
                  ZaddMove, ZaddSetScore, ZaddSetNew, ZaddLink, ZrmvFind, ZrmvTake,
                  ZrmvDelete, ZrmvUnlink
  <2>2. Rest(t)
    <3> USE DEF IInv, TypeInv, TypeOK
    <3>1. CASE ZaddMove(t) \/ ZaddLink(t) \/ ZrmvUnlink(t)
        BY <3>1 DEF ZaddMove, ZaddLink, ZrmvUnlink, Moved, Link, Unlink
    <3>2. CASE ZaddPut(t) \/ ZrmvDelete(t)
        BY <3>2 DEF ZaddPut, ZrmvDelete
    <3>3. CASE ZaddSetScore(t) \/ ZaddSetNew(t) \/ ZrmvTake(t)
        BY <3>3 DEF ZaddSetScore, ZaddSetNew, ZrmvTake
    <3>4. CASE ZaddGetOrInsert(t) \/ ZaddGetScore(t) \/ ZrmvFind(t)
        BY <3>4 DEF ZaddGetOrInsert, ZaddGetScore, ZrmvFind
    <3> QED
        BY <1>4, <3>1, <3>2, <3>3, <3>4
  <2>3. arg[t].value \in Values /\ (pc[t] \in ZaddSteps => arg[t].score \in Scores)
    <3>1. arg[t] \in Calls /\ (pc[t] \in ZaddSteps => arg[t].op = "zadd")
        BY <2>1 DEF IInv, TypeInv, CallInv
    <3> QED
        BY <3>1 DEF Calls
  <2>4. WriterInv(t)' /\ Ends(t)
    <3> USE <2>3 DEF IInv, TypeInv, TypeOK, WriterInv, ListedAt
    <3>1. CASE ZaddPut(t)
        BY <3>1 DEF ZaddPut
    <3>2. CASE ZaddGetOrInsert(t)
        BY <3>2 DEF ZaddGetOrInsert
    <3>3. CASE ZaddGetScore(t)
        BY <3>3 DEF ZaddGetScore
    <3>4. CASE ZaddMove(t)
        BY <3>4 DEF ZaddMove, Moved, Link, Unlink
    <3>5. CASE ZaddSetScore(t)
        BY <3>5 DEF ZaddSetScore
    <3>6. CASE ZaddSetNew(t)
        BY <3>6 DEF ZaddSetNew
    <3>7. CASE ZaddLink(t)
        BY <3>7 DEF ZaddLink, Link
    <3>8. CASE ZrmvFind(t)
        BY <3>8 DEF ZrmvFind
    <3>9. CASE ZrmvTake(t)
        BY <3>9 DEF ZrmvTake
    <3>10. CASE ZrmvDelete(t)
        BY <3>10 DEF ZrmvDelete
    <3>11. CASE ZrmvUnlink(t)
        BY <3>11 DEF ZrmvUnlink, Unlink
    <3> QED
        BY <1>4, <3>1, <3>2, <3>3, <3>4, <3>5, <3>6, <3>7, <3>8, <3>9, <3>10, <3>11
  <2> QED
      BY <1>1, <1>2, <2>1, <2>2, <2>4, WriterStep
<1>5. ASSUME NEW t \in Threads, Zrange(t) PROVE IInv'
    BY <1>1, <1>2, <1>5
       DEF IInv, TypeInv, TypeOK, Zrange, Goto, At, index, IndexesAgree, Quiet, Writing,
           OneWriter, WriterInv, ListedAt, ZaddSteps, ZrmvSteps
<1>6. ASSUME NEW t \in Threads, Answer(t) PROVE IInv'
    BY <1>1, <1>2, <1>6
       DEF IInv, TypeInv, TypeOK, Answer, Goto, At, index, IndexesAgree, Quiet, Writing,
           OneWriter, WriterInv, ListedAt, ZaddSteps, ZrmvSteps
<1>7. ASSUME NEW t \in Threads, Call(t) PROVE IInv'
  <2> PICK c \in Calls : /\ Quiet(c.value)
                        /\ arg' = [arg EXCEPT ![t] = c]
                        /\ Goto(t, IF c.op = "zadd" THEN "put" ELSE "find")
      BY <1>7 DEF Call
  <2>1. /\ pc[t] = "idle"
        /\ arg'[t] = c
        /\ pc'[t] \in {"put", "find"}
        /\ Others(t)
        /\ UNCHANGED <<created, index, zset_db>>
      BY <1>7 DEF Call, At, Goto, IInv, TypeInv, TypeOK
  <2>2. c.value \in Values
      BY DEF Calls
  <2>3. Quiet(c.value)
      OBVIOUS
  <2>4. zset_db[c.value] = value_to_score[c.value] /\ ListedAt(c.value, value_to_score[c.value])
      BY <2>2, <2>3 DEF IInv, IndexesAgree, ListedAt
  <2>5. WriterInv(t)'
      BY <2>1, <2>4 DEF WriterInv, ListedAt, index, ZaddSteps, ZrmvSteps
  <2>6. ASSUME NEW u \in Threads, u # t PROVE WriterInv(u)'
      BY <2>1, <2>6 DEF WriterInv, ListedAt, index, IInv
  <2>7. ASSUME NEW v \in Values, Quiet(v)' PROVE Quiet(v)
      BY <2>1, <2>7 DEF Quiet, Writing, ZaddSteps, ZrmvSteps
  <2>8. IndexesAgree'
      BY <2>1, <2>7 DEF IndexesAgree, IInv, index
  <2>9. OneWriter'
      BY <2>1, <2>3 DEF IInv, OneWriter, Quiet, Writing, ZaddSteps, ZrmvSteps
  <2> QED
      BY <1>1, <1>2, <2>5, <2>6, <2>8, <2>9 DEF IInv
<1> QED
    BY <1>3, <1>4, <1>5, <1>6, <1>7 DEF Next, Step

\* The inductive invariant holds from the start on.
LEMMA Invariance == ASSUME Serialized PROVE Spec => []IInv
<1>1. ASSUME Init PROVE IInv
  <2>1. TypeInv
      BY <1>1, InitTyped
  <2>2. IndexesAgree /\ CreatedInv /\ OneWriter
      BY <1>1, ScoresAssumption
         DEF Init, IndexesAgree, CreatedInv, OneWriter, ZaddSteps, ZrmvSteps
  <2>3. ASSUME NEW t \in Threads PROVE WriterInv(t)
      BY <1>1 DEF Init, WriterInv, ZaddSteps, ZrmvSteps
  <2> QED
      BY <2>1, <2>2, <2>3 DEF IInv
<1>2. IInv /\ [Next]_vars => IInv'
    BY InvStep
<1> QED
    BY <1>1, <1>2, PTL DEF Spec

\* With one write of a value at a time, a quiet value has the same score in both indexes
\* and in the rows a restart loads.
THEOREM IndexesAgreeCorrect == ASSUME Serialized PROVE Spec => []IndexesAgree
<1>1. IInv => IndexesAgree
    BY DEF IInv
<1> QED
    BY <1>1, Invariance, PTL

\* With one write of a value at a time, no zrange returns a value twice.
THEOREM ListedOnceCorrect == ASSUME Serialized PROVE Spec => []ListedOnce
<1>1. ASSUME IInv PROVE ListedOnce
  <2> SUFFICES ASSUME NEW v \in Values, NEW r \in Scores, NEW s \in Scores,
                      v \in score_to_values[r], v \in score_to_values[s]
               PROVE  r = s
      BY DEF ListedOnce
  <2>1. CASE Quiet(v)
      BY <1>1, <2>1 DEF IInv, IndexesAgree
  <2>2. CASE \E t \in Threads : Writing(t, v)
      BY <1>1, <2>2 DEF IInv, Writing, WriterInv, ListedAt, ZaddSteps, ZrmvSteps
  <2> QED
      BY <2>1, <2>2 DEF Quiet
<1> QED
    BY <1>1, Invariance, PTL

\* Whoever shares a value, only a zrmv hides it from the readers.
THEOREM OnlyZrmvHidesCorrect == Spec => OnlyZrmvHides
<1> DEFINE Hides == \A v \in Values : Listed(v) /\ ~Listed(v)' =>
                      \E t \in Threads : arg[t].op = "zrmv" /\ arg[t].value = v
<1>1. ASSUME TypeInv, [Next]_vars PROVE [Hides]_vars
  <2> SUFFICES ASSUME TypeInv, NEW t \in Threads, Step(t),
                      NEW v \in Values, Listed(v), ~Listed(v)'
               PROVE  arg[t].op = "zrmv" /\ arg[t].value = v
      BY <1>1 DEF Next
  <2> USE DEF Listed, index, At
  <2>1. CASE ZaddMove(t)
    <3>1. arg[t].score \in Scores
        BY <2>1 DEF ZaddMove, TypeInv, CallInv, Calls, ZaddSteps
    <3>2. v # arg[t].value => \A s \in Scores :
             v \in score_to_values[s] => v \in score_to_values'[s]
        BY <2>1 DEF ZaddMove, Moved, Link, Unlink, TypeInv, TypeOK
    <3>3. arg[t].value \in score_to_values'[arg[t].score]
        BY <2>1, <3>1 DEF ZaddMove, Moved, Link, Unlink, TypeInv, TypeOK
    <3> QED
        BY <3>1, <3>2, <3>3
  <2>2. CASE ZaddLink(t)
      BY <2>2 DEF ZaddLink, Link, TypeInv, TypeOK
  <2>3. CASE ZrmvUnlink(t)
    <3>1. arg[t].op = "zrmv"
        BY <2>3 DEF ZrmvUnlink, TypeInv, CallInv, ZrmvSteps
    <3> QED
        BY <2>3, <3>1 DEF ZrmvUnlink, Unlink, TypeInv, TypeOK
  <2> QED
      BY <2>1, <2>2, <2>3
         DEF Step, Call, ZaddPut, ZaddGetOrInsert, ZaddGetScore, ZaddSetScore,
             ZaddSetNew, ZrmvFind, ZrmvTake, ZrmvDelete, Zrange, Answer
<1> QED
    BY <1>1, TypeInvariance, PTL DEF Spec, OnlyZrmvHides

-----------------------------------------------------------------------------
\* What the refinement mapping makes of the members when a call takes effect.
LEMMA MembersEffect ==
    ASSUME NEW t \in Threads,
           \A v \in Values : v # arg[t].value => \A s \in Scores :
              v \in score_to_values'[s] <=> v \in score_to_values[s],
           arg[t].op \in {"zadd", "zrmv"},
           arg[t].op = "zadd" => ListedAt(arg[t].value, arg[t].score)',
           arg[t].op = "zrmv" => ListedAt(arg[t].value, Missing)',
           arg'[t] = arg[t]
    PROVE  Members' = Abstract!Effect(Members, arg[t])
<1>1. ASSUME NEW e \in Entries
      PROVE  e \in Members' <=> e \in Abstract!Effect(Members, arg[t])
  <2>1. e.value \in Values /\ e.score \in Scores
      BY DEF Entries
  <2>2. e \in Members' <=> e.value \in score_to_values'[e.score]
      BY DEF Members
  <2>3. e \in Abstract!Effect(Members, arg[t]) <=>
          \/ e.value # arg[t].value /\ e.value \in score_to_values[e.score]
          \/ arg[t].op = "zadd" /\ e.value = arg[t].value /\ e.score = arg[t].score
      BY DEF Members, Entries, Abstract!Effect, Abstract!Entries
  <2> QED
      BY <2>1, <2>2, <2>3, ScoresAssumption DEF ListedAt
<1>2. Members' \subseteq Entries /\ Abstract!Effect(Members, arg[t]) \subseteq Entries
    BY DEF Members, Entries, Abstract!Effect, Abstract!Entries
<1> QED
    BY <1>1, <1>2

\* Every step of a thread is a step of the atomic sorted set, or none of it.
LEMMA StepRefines ==
    ASSUME Serialized, IInv, NEW t \in Threads, Step(t)
    PROVE  [Abstract!Next]_(Abstract!vars)
<1> DEFINE phase == [u \in Threads |-> Phase(u)]
<1> USE DEF IInv, TypeInv, TypeOK, At, Goto, index, Phase
<1>1. CASE Call(t)
  <2>1. phase[t] = "idle" /\ phase' = [phase EXCEPT ![t] = "called"]
      BY <1>1 DEF Call
  <2>2. Abstract!Call(t)
      BY <1>1, <2>1 DEF Call, Abstract!Call, Calls, Abstract!Calls, Members
  <2> QED
      BY <2>2 DEF Abstract!Next
<1>2. CASE ZaddPut(t) \/ ZaddSetNew(t) \/ ZaddSetScore(t) \/ ZrmvDelete(t)
  <2>1. phase' = phase
      BY <1>2 DEF ZaddPut, ZaddSetNew, ZaddSetScore, ZrmvDelete
  <2>2. UNCHANGED <<created, Members, arg, ans>>
      BY <1>2 DEF ZaddPut, ZaddSetNew, ZaddSetScore, ZrmvDelete, Members
  <2> QED
      BY <2>1, <2>2 DEF Abstract!vars
<1>3. CASE ZaddGetOrInsert(t)
  <2>1. phase[t] = "called" /\ phase' = phase
      BY <1>3 DEF ZaddGetOrInsert
  <2>2. Abstract!Create(t)
      BY <1>3, <2>1 DEF ZaddGetOrInsert, Abstract!Create, CallInv, Members, ZaddSteps
  <2> QED
      BY <2>2 DEF Abstract!Next
<1> DEFINE Applies ==
             /\ phase[t] = "called"
             /\ phase' = [phase EXCEPT ![t] = "applied"]
             /\ arg[t].op = "zadd" => created
             /\ Members' = Abstract!Effect(Members, arg[t])
             /\ UNCHANGED <<created, arg, ans>>
<1>4. ASSUME Applies PROVE Abstract!Next
    BY <1>4 DEF Abstract!Apply, Abstract!Next
<1>5. CASE ZaddGetScore(t)
  <2> USE <1>5 DEF ZaddGetScore, WriterInv, CallInv, ZaddSteps
  <2>1. CASE value_to_score[arg[t].value] = arg[t].score
    <3>1. arg[t].score # Missing
        BY ScoresAssumption DEF Calls
    <3>2. phase[t] = "called" /\ phase' = [phase EXCEPT ![t] = "applied"]
        BY <2>1, <3>1
    <3>3. Members' = Abstract!Effect(Members, arg[t])
        BY <2>1, MembersEffect DEF ListedAt
    <3> QED
        BY <3>2, <3>3, <1>4
  <2>2. CASE value_to_score[arg[t].value] # arg[t].score
    <3>1. phase' = phase /\ UNCHANGED <<created, Members, arg, ans>>
        BY <2>2 DEF Members
    <3> QED
        BY <3>1 DEF Abstract!vars
  <2> QED
      BY <2>1, <2>2
<1>6. CASE ZaddMove(t)
  <2> USE <1>6 DEF ZaddMove, WriterInv, CallInv, ZaddSteps
  <2>1. arg[t].op = "zadd" /\ arg[t].value \in Values /\ arg[t].score \in Scores
      BY DEF Calls
  <2>2. phase[t] = "called" /\ phase' = [phase EXCEPT ![t] = "applied"]
      OBVIOUS
  <2>3. ListedAt(arg[t].value, arg[t].score)'
      BY <2>1 DEF ListedAt, Moved, Link, Unlink
  <2>4. Members' = Abstract!Effect(Members, arg[t])
      BY <2>1, <2>3, MembersEffect DEF Moved, Link, Unlink
  <2> QED
      BY <2>2, <2>4, <1>4
<1>7. CASE ZaddLink(t)
  <2> USE <1>7 DEF ZaddLink, WriterInv, CallInv, ZaddSteps
  <2>1. arg[t].op = "zadd" /\ arg[t].value \in Values /\ arg[t].score \in Scores
      BY DEF Calls
  <2>2. phase[t] = "called" /\ phase' = [phase EXCEPT ![t] = "applied"]
      OBVIOUS
  <2>3. ListedAt(arg[t].value, arg[t].score)'
      BY <2>1, ScoresAssumption DEF ListedAt, Link
  <2>4. Members' = Abstract!Effect(Members, arg[t])
      BY <2>1, <2>3, MembersEffect DEF Link
  <2> QED
      BY <2>2, <2>4, <1>4
<1>8. CASE ZrmvFind(t)
  <2> USE <1>8 DEF ZrmvFind, CallInv, ZrmvSteps
  <2>1. CASE created
    <3>1. phase' = phase /\ UNCHANGED <<created, Members, arg, ans>>
        BY <2>1 DEF Members
    <3> QED
        BY <3>1 DEF Abstract!vars
  <2>2. CASE ~created
    <3>1. phase[t] = "called" /\ phase' = [phase EXCEPT ![t] = "applied"]
        BY <2>2
    <3>2. Members' = Abstract!Effect(Members, arg[t])
      <4>1. arg[t].op = "zrmv" /\ arg'[t] = arg[t] /\ score_to_values' = score_to_values
          OBVIOUS
      <4>2. ListedAt(arg[t].value, Missing)'
          BY <2>2, <4>1, ScoresAssumption DEF ListedAt, CreatedInv
      <4> QED
          BY <4>1, <4>2, MembersEffect
    <3> QED
        BY <3>1, <3>2, <1>4
  <2> QED
      BY <2>1, <2>2
<1>9. CASE ZrmvTake(t)
  <2> USE <1>9 DEF ZrmvTake, WriterInv, CallInv, ZrmvSteps
  <2>1. CASE value_to_score[arg[t].value] = Missing
    <3>1. phase[t] = "called" /\ phase' = [phase EXCEPT ![t] = "applied"]
        BY <2>1
    <3>2. Members' = Abstract!Effect(Members, arg[t])
      <4>1. arg[t].op = "zrmv" /\ arg'[t] = arg[t] /\ score_to_values' = score_to_values
          OBVIOUS
      <4>2. ListedAt(arg[t].value, Missing)'
          BY <2>1, <4>1 DEF ListedAt
      <4> QED
          BY <4>1, <4>2, MembersEffect
    <3> QED
        BY <3>1, <3>2, <1>4
  <2>2. CASE value_to_score[arg[t].value] # Missing
    <3>1. phase' = phase /\ UNCHANGED <<created, Members, arg, ans>>
        BY <2>2 DEF Members
    <3> QED
        BY <3>1 DEF Abstract!vars
  <2> QED
      BY <2>1, <2>2
<1>10. CASE ZrmvUnlink(t)
  <2> USE <1>10 DEF ZrmvUnlink, WriterInv, CallInv, ZrmvSteps
  <2>1. phase[t] = "called" /\ phase' = [phase EXCEPT ![t] = "applied"]
      OBVIOUS
  <2>2. arg[t].op = "zrmv" /\ arg[t].value \in Values /\ old[t] \in Scores
      BY DEF Calls
  <2>3. ListedAt(arg[t].value, Missing)'
      BY <2>2, ScoresAssumption DEF ListedAt, Unlink
  <2>4. Members' = Abstract!Effect(Members, arg[t])
      BY <2>2, <2>3, MembersEffect DEF Unlink
  <2> QED
      BY <2>1, <2>4, <1>4
<1>11. CASE Zrange(t)
  <2>1. phase[t] = "idle" /\ phase' = [phase EXCEPT ![t] = "applied"]
      BY <1>11 DEF Zrange
  <2>2. Abstract!Read(t)
      BY <1>11, <2>1 DEF Zrange, Abstract!Read, RangeAnswer, Abstract!RangeAnswer, Members
  <2> QED
      BY <2>2 DEF Abstract!Next
<1>12. CASE Answer(t)
  <2>1. phase[t] = "applied" /\ phase' = [phase EXCEPT ![t] = "idle"]
      BY <1>12 DEF Answer
  <2>2. Abstract!Finish(t)
      BY <1>12, <2>1 DEF Answer, Abstract!Finish, NoCall, NoAnswer, Abstract!NoCall,
                         Abstract!NoAnswer, Members
  <2> QED
      BY <2>2 DEF Abstract!Next
<1> QED
    BY <1>1, <1>2, <1>3, <1>5, <1>6, <1>7, <1>8, <1>9, <1>10, <1>11, <1>12 DEF Step

\* With one write of a value at a time, the sorted set implements the atomic one.
THEOREM LinearizableCorrect == ASSUME Serialized PROVE Spec => Linearizable
<1>1. ASSUME Init PROVE Abstract!Init
  <2>1. Members = {}
      BY <1>1 DEF Init, Members, Entries
  <2>2. [t \in Threads |-> Phase(t)] = [t \in Threads |-> "idle"]
      BY <1>1 DEF Init, Phase
  <2> QED
      BY <1>1, <2>1, <2>2 DEF Init, Abstract!Init, NoCall, NoAnswer, Abstract!NoCall,
                              Abstract!NoAnswer
<1>2. ASSUME IInv, [Next]_vars PROVE [Abstract!Next]_(Abstract!vars)
  <2>1. CASE UNCHANGED vars
      BY <2>1 DEF vars, index, Abstract!vars, Members, Phase
  <2>2. CASE \E t \in Threads : Step(t)
      BY <1>2, <2>2, StepRefines
  <2> QED
      BY <1>2, <2>1, <2>2 DEF Next
<1> QED
    BY <1>1, <1>2, Invariance, PTL DEF Spec, Linearizable, Abstract!Spec
=============================================================================
