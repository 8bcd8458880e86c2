--------------------------- MODULE ShardedProofs ---------------------------
(***************************************************************************)
(* Proofs about ShardedStorage, for any number of cores, connections and   *)
(* keys, wherever the keys are at home.                                    *)
(***************************************************************************)
EXTENDS ShardedStorage, TLAPS

\* What a core, or a connection, keeps of every key.
Table(D, S) == [D -> [Keys -> S]]

Results == [status : {"none", "200", "400", "404"}, data : Data \cup {Missing},
            entries : SUBSET Entries]
MaybeData   == Data \cup {Missing}
MemberScore == [Members -> Scores \cup {Missing}]
ScoreSets   == [Scores -> SUBSET Members]

\* The two halves of TypeOK, what the cores keep and what the handlers do.
StoreType ==
    /\ kv_ \in Table(Cores, MaybeData)
    /\ zsets_ \in [Cores -> SUBSET Keys]
    /\ value_to_score_ \in Table(Cores, MemberScore)
    /\ score_to_values_ \in Table(Cores, ScoreSets)
    /\ ans \in Table(Conns, Results)

ConnType ==
    /\ pc \in [Conns -> {"idle", "called", "sent"}]
    /\ core \in [Conns -> Cores \cup {Missing}]
    /\ arg \in [Conns -> Requests \cup {NoRequest}]
    /\ \A msg \in msgs : /\ msg.conn \in Conns /\ pc[msg.conn] = "sent"
                         /\ msg.keys # {} /\ msg.keys \subseteq KeysOf(msg.conn, msg.to)

\* A core holds nothing of the keys of other cores.
AtHome == \A n \in Cores, k \in Keys :
            get_cpu[k] # n => kv_[n][k] = Missing /\ k \notin zsets_[n]

\* What a core holds of a key is a string or a sorted set.
OneKind == \A n \in Cores, k \in Keys : kv_[n][k] = Missing \/ k \notin zsets_[n]

StoreInv == AtHome /\ OneKind /\ ListedUnderScore

\* A connection has a request and a core unless it is idle.
CallInv == \A c \in Conns : /\ pc[c] = "idle" <=> arg[c] = NoRequest
                            /\ pc[c] # "idle" => core[c] \in Cores

\* No key of a request is in two messages.
Disjoint == \A m1, m2 \in msgs : m1.conn = m2.conn /\ m1 # m2 => m1.keys \cap m2.keys = {}

IInv == StoreType /\ ConnType /\ StoreInv /\ CallInv /\ Disjoint

-----------------------------------------------------------------------------
(* Requests, and the helpers on functions. *)

\* What the handlers read is what the methods of the storage expect.
LEMMA RequestType ==
    ASSUME NEW r \in Requests
    PROVE  /\ r.keys \subseteq Keys /\ r.keys # {}
           /\ r.op \in {"add", "batch"} => r.data \in Data
           /\ r.op = "zadd" => r.member \in Members /\ r.score \in Scores
           /\ r.op = "zrmv" => r.member \in Members
           /\ r # NoRequest
<1>1. CASE r \in Queries
  BY <1>1 DEF Queries, Request, Single, NoRequest
<1>2. CASE r \in Adds
  BY <1>2 DEF Adds, Request, Single, NoRequest
<1>3. CASE r \in Batches
  <2>1. PICK ks \in (SUBSET Keys) \ {{}}, x \in Data :
          r = Request("batch", ks, x, Missing, Missing, Missing)
    BY <1>3 DEF Batches
  <2>2. r.op = "batch" /\ r.keys = ks /\ r.data = x
    BY <2>1 DEF Request
  <2> QED
    BY <2>2 DEF Request, NoRequest
<1>4. CASE r \in Dels
  BY <1>4 DEF Dels, Request, Single, NoRequest
<1>5. CASE r \in Lists
  <2>1. PICK ks \in (SUBSET Keys) \ {{}} :
          r = Request("list", ks, Missing, Missing, Missing, Missing)
    BY <1>5 DEF Lists
  <2>2. r.op = "list" /\ r.keys = ks
    BY <2>1 DEF Request
  <2> QED
    BY <2>2 DEF Request, NoRequest
<1>6. CASE r \in Zadds
  BY <1>6 DEF Zadds, Request, Single, NoRequest
<1>7. CASE r \in Zranges
  BY <1>7 DEF Zranges, Request, Single, NoRequest
<1>8. CASE r \in Zrmvs
  BY <1>8 DEF Zrmvs, Request, Single, NoRequest
<1> QED
  BY <1>1, <1>2, <1>3, <1>4, <1>5, <1>6, <1>7, <1>8 DEF Requests

\* PutAt changes f[i] at the keys ks and nothing else.
LEMMA PutAtValue ==
    ASSUME NEW D, NEW S, NEW f \in Table(D, S), NEW i \in D, NEW ks, NEW x \in S
    PROVE  /\ PutAt(f, i, ks, x) \in Table(D, S)
           /\ \A j \in D, k \in Keys :
                PutAt(f, i, ks, x)[j][k] = IF j = i /\ k \in ks THEN x ELSE f[j][k]
<1>1. Put(f[i], ks, x) \in [Keys -> S]
  BY DEF Put, Table
<1>2. PutAt(f, i, ks, x) = [f EXCEPT ![i] = Put(f[i], ks, x)]
  BY DEF PutAt
<1>3. \A j \in D : PutAt(f, i, ks, x)[j] = IF j = i THEN Put(f[i], ks, x) ELSE f[j]
  BY <1>2 DEF Table
<1>4. \A k \in Keys : Put(f[i], ks, x)[k] = IF k \in ks THEN x ELSE f[i][k]
  BY DEF Put
<1>5. PutAt(f, i, ks, x) \in Table(D, S)
  BY <1>1, <1>2 DEF Table
<1> QED
  BY <1>3, <1>4, <1>5

\* Where the two indexes of a sorted set agree, zrmv takes the member out of
\* every set, and zadd out of all but the new one.
LEMMA Indexes ==
    ASSUME NEW scores \in [Members -> Scores \cup {Missing}],
           NEW values \in [Scores -> SUBSET Members],
           NEW m \in Members, NEW s \in Scores,
           \A v \in Members, t \in Scores : v \in values[t] => scores[v] = t
    PROVE  /\ Unlinked(scores, values, m) \in [Scores -> SUBSET Members]
           /\ \A t \in Scores : Unlinked(scores, values, m)[t] = values[t] \ {m}
           /\ Linked(scores, values, m, s) \in [Scores -> SUBSET Members]
           /\ \A t \in Scores : Linked(scores, values, m, s)[t] =
                (values[t] \ {m}) \cup IF t = s THEN {m} ELSE {}
<1>1. /\ Unlinked(scores, values, m) \in [Scores -> SUBSET Members]
      /\ \A t \in Scores : Unlinked(scores, values, m)[t] = values[t] \ {m}
  <2>1. CASE scores[m] = Missing
    BY <2>1, MissingAssumption DEF Unlinked
  <2>2. CASE scores[m] # Missing
    <3>1. Unlinked(scores, values, m) = [values EXCEPT ![scores[m]] = @ \ {m}]
      BY <2>2 DEF Unlinked
    <3> QED
      BY <2>2, <3>1
  <2> QED
    BY <2>1, <2>2
<1>2. Linked(scores, values, m, s) = [Unlinked(scores, values, m) EXCEPT ![s] = @ \cup {m}]
  BY DEF Linked
<1>3. /\ Linked(scores, values, m, s) \in [Scores -> SUBSET Members]
      /\ \A t \in Scores : Linked(scores, values, m, s)[t] =
           Unlinked(scores, values, m)[t] \cup IF t = s THEN {m} ELSE {}
  BY <1>1, <1>2
<1> QED
  BY <1>1, <1>3

-----------------------------------------------------------------------------
(* The methods of the storage.  The keys ks belong to core n and to a request *)
(* of c.                                                                    *)

LEMMA AnswerType ==
    ASSUME ans \in Table(Conns, Results), NEW c \in Conns, NEW ks, NEW a \in Results,
           Answers(c, ks, a)
    PROVE  ans' \in Table(Conns, Results)
BY PutAtValue DEF Answers

LEMMA Replies ==
    /\ \A x \in MaybeData, es \in SUBSET Entries : Result("200", x, es) \in Results
    /\ Result("400", Missing, {}) \in Results /\ Result("404", Missing, {}) \in Results
    /\ Missing \in MaybeData
BY DEF Result, Results, MaybeData

\* An add or a del replaces what the core has of the keys.
LEMMA Replace ==
    ASSUME StoreType, StoreInv, NEW c \in Conns, NEW n \in Cores, NEW ks \in SUBSET Keys,
           \A k \in ks : get_cpu[k] = n, NEW x \in MaybeData,
           kv_' = PutAt(kv_, n, ks, x),
           zsets_' = [zsets_ EXCEPT ![n] = @ \ ks],
           value_to_score_' = PutAt(value_to_score_, n, ks, NoScores),
           score_to_values_' = PutAt(score_to_values_, n, ks, NoMembers),
           Answers(c, ks, Result("200", Missing, {}))
    PROVE  /\ StoreType' /\ StoreInv'
           /\ \A k \in Keys :
                /\ kv_'[get_cpu[k]][k] = IF k \in ks THEN x ELSE kv_[get_cpu[k]][k]
                /\ k \in zsets_'[get_cpu[k]] <=> k \notin ks /\ k \in zsets_[get_cpu[k]]
                /\ score_to_values_'[get_cpu[k]][k] =
                     IF k \in ks THEN NoMembers ELSE score_to_values_[get_cpu[k]][k]
<1>1. NoScores \in MemberScore /\ NoMembers \in ScoreSets
  BY DEF NoScores, NoMembers, MemberScore, ScoreSets
<1>2. /\ kv_' \in Table(Cores, MaybeData)
      /\ \A i \in Cores, k \in Keys :
           kv_'[i][k] = IF i = n /\ k \in ks THEN x ELSE kv_[i][k]
  BY PutAtValue DEF StoreType
<1>3. /\ value_to_score_' \in Table(Cores, MemberScore)
      /\ \A i \in Cores, k \in Keys :
           value_to_score_'[i][k] = IF i = n /\ k \in ks THEN NoScores ELSE value_to_score_[i][k]
  BY <1>1, PutAtValue DEF StoreType
<1>4. /\ score_to_values_' \in Table(Cores, ScoreSets)
      /\ \A i \in Cores, k \in Keys :
           score_to_values_'[i][k] = IF i = n /\ k \in ks THEN NoMembers
                                     ELSE score_to_values_[i][k]
  BY <1>1, PutAtValue DEF StoreType
<1>5. StoreType'
  BY <1>2, <1>3, <1>4, Replies, AnswerType DEF StoreType
<1>6. AtHome' /\ OneKind'
  BY <1>2 DEF StoreInv, StoreType, AtHome, OneKind
<1>7. ListedUnderScore'
  <2> SUFFICES ASSUME NEW i \in Cores, NEW j \in Keys, NEW v \in Members, NEW t \in Scores,
                      v \in score_to_values_'[i][j][t]
               PROVE  j \in zsets_'[i] /\ value_to_score_'[i][j][v] = t
    BY DEF ListedUnderScore
  <2>1. ~(i = n /\ j \in ks)
    BY <1>4 DEF NoMembers
  <2>2. /\ score_to_values_'[i][j] = score_to_values_[i][j]
        /\ value_to_score_'[i][j] = value_to_score_[i][j]
    BY <1>3, <1>4, <2>1
  <2>3. j \in zsets_[i] /\ value_to_score_[i][j][v] = t
    BY <2>2 DEF StoreInv, ListedUnderScore
  <2> QED
    BY <2>1, <2>2, <2>3 DEF StoreType
<1>8. \A k \in Keys : get_cpu[k] \in Cores
  BY CoresAssumption
<1> QED
  BY <1>2, <1>4, <1>5, <1>6, <1>7, <1>8 DEF StoreInv, StoreType

\* What the sets of scores are after a member joins, or leaves, the sorted set k.
MemberAdded(k, n, m, s) ==
  \A i \in Keys, t \in Scores : score_to_values_'[get_cpu[i]][i][t] =
    IF i # k THEN score_to_values_[get_cpu[i]][i][t]
    ELSE (score_to_values_[n][k][t] \ {m}) \cup IF t = s THEN {m} ELSE {}

MemberRemoved(k, n, m) ==
  \A i \in Keys, t \in Scores : score_to_values_'[get_cpu[i]][i][t] =
    IF i # k THEN score_to_values_[get_cpu[i]][i][t]
    ELSE score_to_values_[n][k][t] \ {m}

\* A zadd puts the member into the set of its new score and no other.
LEMMA ZsetAddStep ==
    ASSUME StoreType, StoreInv, NEW c \in Conns, NEW n \in Cores, NEW k \in Keys,
           get_cpu[k] = n, arg[c] \in Requests, ZsetAdd(c, n, k)
    PROVE  /\ StoreType' /\ StoreInv'
           /\ MemberAdded(k, n, arg[c].member, arg[c].score)
<1> DEFINE m == arg[c].member
           s == arg[c].score
           scores == value_to_score_[n][k]
           values == score_to_values_[n][k]
<1>1. m \in Members /\ s \in Scores
  BY RequestType DEF ZsetAdd
<1>2. scores \in MemberScore /\ values \in ScoreSets
  BY DEF StoreType, Table
<1>3. /\ Linked(scores, values, m, s) \in ScoreSets
      /\ \A t \in Scores : Linked(scores, values, m, s)[t] =
           (values[t] \ {m}) \cup IF t = s THEN {m} ELSE {}
  <2>1. \A v \in Members, t \in Scores : v \in values[t] => scores[v] = t
    BY DEF StoreInv, ListedUnderScore
  <2> HIDE DEF m, s, scores, values
  <2> QED
    BY <1>1, <1>2, <2>1, Indexes DEF MemberScore, ScoreSets
<1>4. /\ [scores EXCEPT ![m] = s] \in MemberScore
      /\ \A v \in Members : [scores EXCEPT ![m] = s][v] = IF v = m THEN s ELSE scores[v]
  BY <1>1, <1>2 DEF MemberScore
<1>5. /\ score_to_values_' \in Table(Cores, ScoreSets)
      /\ \A i \in Cores, j \in Keys : score_to_values_'[i][j] =
           IF i = n /\ j = k THEN Linked(scores, values, m, s) ELSE score_to_values_[i][j]
  BY <1>3, PutAtValue DEF ZsetAdd, StoreType
<1>6. /\ value_to_score_' \in Table(Cores, MemberScore)
      /\ \A i \in Cores, j \in Keys : value_to_score_'[i][j] =
           IF i = n /\ j = k THEN [scores EXCEPT ![m] = s] ELSE value_to_score_[i][j]
  BY <1>4, PutAtValue DEF ZsetAdd, StoreType
<1>7. zsets_' = [zsets_ EXCEPT ![n] = @ \cup {k}] /\ kv_' = kv_ /\ kv_[n][k] = Missing
  BY DEF ZsetAdd
<1>8. StoreType'
  BY <1>5, <1>6, <1>7, Replies, AnswerType DEF StoreType, ZsetAdd
<1>9. AtHome' /\ OneKind'
  BY <1>7 DEF StoreInv, StoreType, AtHome, OneKind
<1>10. ListedUnderScore'
  <2> SUFFICES ASSUME NEW i \in Cores, NEW j \in Keys, NEW v \in Members, NEW t \in Scores,
                      v \in score_to_values_'[i][j][t]
               PROVE  j \in zsets_'[i] /\ value_to_score_'[i][j][v] = t
    BY DEF ListedUnderScore
  <2>1. CASE i = n /\ j = k
    <3>1. v \in (values[t] \ {m}) \cup IF t = s THEN {m} ELSE {}
      BY <1>3, <1>5, <2>1
    <3>2. value_to_score_'[i][j][v] = IF v = m THEN s ELSE scores[v]
      BY <1>4, <1>6, <2>1
    <3> QED
      BY <1>7, <2>1, <3>1, <3>2 DEF StoreInv, StoreType, ListedUnderScore
  <2>2. CASE ~(i = n /\ j = k)
    BY <1>5, <1>6, <1>7, <2>2 DEF StoreInv, StoreType, ListedUnderScore
  <2> QED
    BY <2>1, <2>2
<1>11. \A i \in Keys : get_cpu[i] \in Cores
  BY CoresAssumption
<1>12. ASSUME NEW i \in Keys, NEW t \in Scores
       PROVE  score_to_values_'[get_cpu[i]][i][t] =
                IF i # k THEN score_to_values_[get_cpu[i]][i][t]
                ELSE (values[t] \ {m}) \cup IF t = s THEN {m} ELSE {}
  <2>1. CASE i = k
    BY <1>3, <1>5, <2>1
  <2>2. CASE i # k
    BY <1>5, <1>11, <2>2
  <2> QED
    BY <2>1, <2>2
<1> QED
  BY <1>8, <1>9, <1>10, <1>12 DEF StoreInv, MemberAdded

\* A zrmv takes the member out of every set.
LEMMA ZsetRmvStep ==
    ASSUME StoreType, StoreInv, NEW c \in Conns, NEW n \in Cores, NEW k \in Keys,
           get_cpu[k] = n, arg[c] \in Requests, ZsetRmv(c, n, k)
    PROVE  /\ StoreType' /\ StoreInv'
           /\ MemberRemoved(k, n, arg[c].member)
<1> DEFINE m == arg[c].member
           scores == value_to_score_[n][k]
           values == score_to_values_[n][k]
<1>1. m \in Members
  BY RequestType DEF ZsetRmv
<1>2. scores \in MemberScore /\ values \in ScoreSets
  BY DEF StoreType, Table
<1>3. /\ kv_' = kv_ /\ zsets_' = zsets_ /\ value_to_score_' = value_to_score_
      /\ ans' \in Table(Conns, Results)
  BY Replies, AnswerType DEF ZsetRmv, StoreType
<1>4. \A i \in Keys : get_cpu[i] \in Cores
  BY CoresAssumption
<1>5. CASE k \notin zsets_[n]
  <2>1. score_to_values_' = score_to_values_
    BY <1>5 DEF ZsetRmv
  <2>2. \A t \in Scores : values[t] = {}
    <3>1. \A t \in Scores, v \in Members : v \notin values[t]
      BY <1>5 DEF StoreInv, ListedUnderScore
    <3> QED
      BY <1>2, <3>1 DEF ScoreSets
  <2>3. StoreType' /\ AtHome' /\ OneKind' /\ ListedUnderScore'
    BY <1>3, <2>1 DEF StoreInv, StoreType, AtHome, OneKind, ListedUnderScore
  <2> QED
    BY <2>1, <2>2, <2>3 DEF StoreInv, MemberRemoved
<1>6. CASE k \in zsets_[n]
  <2>1. /\ Unlinked(scores, values, m) \in ScoreSets
        /\ \A t \in Scores : Unlinked(scores, values, m)[t] = values[t] \ {m}
    <3>1. \A v \in Members, t \in Scores : v \in values[t] => scores[v] = t
      BY DEF StoreInv, ListedUnderScore
    <3> HIDE DEF m, scores, values
    <3>2. CASE Scores = {}
      BY <1>1, <1>2, <3>2, MissingAssumption DEF Unlinked, MemberScore, ScoreSets
    <3>3. CASE \E s \in Scores : TRUE
      BY <1>1, <1>2, <3>1, <3>3, Indexes DEF MemberScore, ScoreSets
    <3> QED
      BY <3>2, <3>3
  <2>2. /\ score_to_values_' \in Table(Cores, ScoreSets)
        /\ \A i \in Cores, j \in Keys : score_to_values_'[i][j] =
             IF i = n /\ j = k THEN Unlinked(scores, values, m) ELSE score_to_values_[i][j]
    BY <1>6, <2>1, PutAtValue DEF ZsetRmv, StoreType
  <2>3. StoreType' /\ AtHome' /\ OneKind'
    BY <1>3, <2>2 DEF StoreInv, StoreType, AtHome, OneKind
  <2>4. ListedUnderScore'
    BY <1>3, <2>1, <2>2 DEF StoreInv, ListedUnderScore
  <2>5. MemberRemoved(k, n, m)
    <3> HIDE DEF m, scores
    <3>1. \A i \in Keys : score_to_values_'[get_cpu[i]][i] =
            IF i = k THEN Unlinked(scores, values, m) ELSE score_to_values_[get_cpu[i]][i]
      BY <1>4, <2>2
    <3> QED
      BY <2>1, <3>1 DEF MemberRemoved
  <2> QED
    BY <2>3, <2>4, <2>5 DEF StoreInv
<1> QED
  BY <1>5, <1>6

\* A get, a refused zadd and a zrange answer and leave the store alone.
LEMMA LookStep ==
    ASSUME StoreType, NEW c \in Conns, NEW n \in Cores, NEW ks \in SUBSET Keys,
           GetValuesByKey(c, n, ks)
    PROVE  StoreType' /\ UNCHANGED shards
<1> DEFINE Found(k) == IF k \notin ks THEN ans[c][k]
                       ELSE IF kv_[n][k] = Missing THEN Result("404", Missing, {})
                       ELSE Result("200", kv_[n][k], {})
<1>1. ans' = [ans EXCEPT ![c] = [k \in Keys |-> Found(k)]] /\ UNCHANGED shards
  BY DEF GetValuesByKey
<1>2. \A k \in Keys : ans[c][k] \in Results /\ kv_[n][k] \in MaybeData
  BY DEF StoreType, Table
<1>3. \A k \in Keys : Found(k) \in Results
  BY <1>2, Replies
<1> HIDE DEF Found
<1>4. [k \in Keys |-> Found(k)] \in [Keys -> Results]
  BY <1>3
<1>5. ans' \in Table(Conns, Results)
  BY <1>1, <1>4 DEF StoreType, Table
<1> QED
  BY <1>1, <1>5 DEF StoreType, shards, index

LEMMA ReplyStep ==
    ASSUME StoreType, NEW c \in Conns, NEW n \in Cores, NEW k \in Keys,
           ZsetAddRefused(c, n, k) \/ ZsetZrange(c, n, k)
    PROVE  StoreType' /\ UNCHANGED shards
<1>1. RangeOf(n, k, arg[c].score, arg[c].max_score) \in SUBSET Entries
  BY DEF RangeOf
<1>2. UNCHANGED shards
  BY DEF ZsetAddRefused, ZsetZrange
<1>3. ASSUME ZsetAddRefused(c, n, k) PROVE ans' \in Table(Conns, Results)
  BY <1>3, Replies, AnswerType DEF ZsetAddRefused, StoreType
<1>4. ASSUME ZsetZrange(c, n, k) PROVE ans' \in Table(Conns, Results)
  <2> DEFINE a == IF k \in zsets_[n]
                  THEN Result("200", Missing, RangeOf(n, k, arg[c].score, arg[c].max_score))
                  ELSE Result("404", Missing, {})
  <2>1. a \in Results
    BY <1>1, Replies
  <2>2. Answers(c, {k}, a)
    BY <1>4 DEF ZsetZrange
  <2> HIDE DEF a
  <2> QED
    BY <2>1, <2>2, AnswerType DEF StoreType
<1>5. ans' \in Table(Conns, Results)
  BY <1>3, <1>4
<1> QED
  BY <1>2, <1>5 DEF StoreType, shards, index

\* What a core does for its keys keeps the types and the invariant of the store.
LEMMA PerformStep ==
    ASSUME StoreType, StoreInv, NEW c \in Conns, NEW n \in Cores, NEW ks \in SUBSET Keys,
           \A k \in ks : get_cpu[k] = n, arg[c] \in Requests, Perform(c, n, ks)
    PROVE  StoreType' /\ StoreInv'
<1>1. CASE GetValuesByKey(c, n, ks)
  BY <1>1, LookStep DEF StoreInv, AtHome, OneKind, ListedUnderScore, shards, index
<1>2. CASE AddKeyValue(c, n, ks)
  <2>1. arg[c].data \in MaybeData
    BY <1>2, RequestType DEF AddKeyValue, MaybeData
  <2> QED
    BY <1>2, <2>1, Replace DEF AddKeyValue
<1>3. CASE DelKey(c, n, ks)
  BY <1>3, Replies, Replace DEF DelKey
<1>4. ASSUME NEW k \in ks, ZsetAddRefused(c, n, k) \/ ZsetZrange(c, n, k)
      PROVE  StoreType' /\ StoreInv'
  BY <1>4, ReplyStep DEF StoreInv, AtHome, OneKind, ListedUnderScore, shards, index
<1>5. ASSUME NEW k \in ks, ZsetAdd(c, n, k)
      PROVE  StoreType' /\ StoreInv'
  BY <1>5, ZsetAddStep
<1>6. ASSUME NEW k \in ks, ZsetRmv(c, n, k)
      PROVE  StoreType' /\ StoreInv'
  BY <1>6, ZsetRmvStep
<1> QED
  BY <1>1, <1>2, <1>3, <1>4, <1>5, <1>6 DEF Perform

-----------------------------------------------------------------------------
(* The handlers and their messages. *)

LEMMA NoRequestNone == NoRequest \notin Requests
BY RequestType

\* The messages of a handler are for the keys that are not at home on its core,
\* each key in one of them.
LEMMA MessagesOf ==
    ASSUME NEW c \in Conns, arg[c] \in Requests
    PROVE  /\ \A msg \in Messages(c) :
                /\ msg.conn = c /\ msg.keys # {} /\ msg.keys \subseteq KeysOf(c, msg.to)
                /\ msg.to # core[c]
           /\ \A m1, m2 \in Messages(c) : m1 # m2 => m1.keys \cap m2.keys = {}
           /\ \A k \in arg[c].keys \ KeysOf(c, core[c]) :
                \E msg \in Messages(c) : k \in msg.keys
<1>1. arg[c].keys \subseteq Keys
  BY RequestType
<1>2. \A k \in arg[c].keys : get_cpu[k] \in Cores
  BY <1>1, CoresAssumption
<1>3. CASE arg[c].op = "list"
  <2>1. Messages(c) = {[conn |-> c, to |-> n, keys |-> KeysOf(c, n)] :
                          n \in {n \in Cores \ {core[c]} : KeysOf(c, n) # {}}}
    BY <1>3 DEF Messages
  <2>2. ASSUME NEW m1 \in Messages(c), NEW m2 \in Messages(c), m1 # m2
        PROVE  m1.keys \cap m2.keys = {}
    <3>1. PICK n1 \in Cores : m1 = [conn |-> c, to |-> n1, keys |-> KeysOf(c, n1)]
      BY <2>1
    <3>2. PICK n2 \in Cores : m2 = [conn |-> c, to |-> n2, keys |-> KeysOf(c, n2)]
      BY <2>1
    <3>3. n1 # n2
      BY <2>2, <3>1, <3>2
    <3> QED
      BY <3>1, <3>2, <3>3 DEF KeysOf
  <2>3. ASSUME NEW k \in arg[c].keys \ KeysOf(c, core[c])
        PROVE  \E msg \in Messages(c) : k \in msg.keys
    <3>1. get_cpu[k] \in Cores \ {core[c]} /\ k \in KeysOf(c, get_cpu[k])
      BY <1>2 DEF KeysOf
    <3>2. [conn |-> c, to |-> get_cpu[k], keys |-> KeysOf(c, get_cpu[k])] \in Messages(c)
      BY <2>1, <3>1
    <3> QED
      BY <3>1, <3>2
  <2>4. \A msg \in Messages(c) :
          /\ msg.conn = c /\ msg.keys # {} /\ msg.keys \subseteq KeysOf(c, msg.to)
          /\ msg.to # core[c]
    BY <2>1
  <2> QED
    BY <2>2, <2>3, <2>4
<1>4. CASE arg[c].op # "list"
  <2>1. Messages(c) = {[conn |-> c, to |-> get_cpu[k], keys |-> {k}] :
                          k \in {k \in arg[c].keys : get_cpu[k] # core[c]}}
    BY <1>4 DEF Messages
  <2>2. ASSUME NEW m1 \in Messages(c), NEW m2 \in Messages(c), m1 # m2
        PROVE  m1.keys \cap m2.keys = {}
    <3>1. PICK i \in arg[c].keys : m1 = [conn |-> c, to |-> get_cpu[i], keys |-> {i}]
      BY <2>1
    <3>2. PICK j \in arg[c].keys : m2 = [conn |-> c, to |-> get_cpu[j], keys |-> {j}]
      BY <2>1
    <3>3. i # j
      BY <2>2, <3>1, <3>2
    <3> QED
      BY <3>1, <3>2, <3>3
  <2>3. ASSUME NEW k \in arg[c].keys \ KeysOf(c, core[c])
        PROVE  \E msg \in Messages(c) : k \in msg.keys
    <3>1. [conn |-> c, to |-> get_cpu[k], keys |-> {k}] \in Messages(c)
      BY <2>1 DEF KeysOf
    <3> QED
      BY <3>1
  <2>4. \A msg \in Messages(c) :
          /\ msg.conn = c /\ msg.keys # {} /\ msg.keys \subseteq KeysOf(c, msg.to)
          /\ msg.to # core[c]
    BY <2>1 DEF KeysOf
  <2> QED
    BY <2>2, <2>3, <2>4
<1> QED
  BY <1>3, <1>4

\* A connection that waits, or has a message, has a request.
LEMMA Requested ==
    ASSUME ConnType, CallInv
    PROVE  /\ \A c \in Conns : pc[c] # "idle" => arg[c] \in Requests
           /\ \A msg \in msgs : /\ arg[msg.conn] \in Requests /\ msg.conn \in Conns
                                /\ msg.to \in Cores /\ msg.keys \in SUBSET Keys
                                /\ \A k \in msg.keys : get_cpu[k] = msg.to
<1>1. \A c \in Conns : pc[c] # "idle" => arg[c] \in Requests
  BY DEF ConnType, CallInv
<1>2. ASSUME NEW msg \in msgs
      PROVE  /\ arg[msg.conn] \in Requests /\ msg.conn \in Conns
             /\ msg.to \in Cores /\ msg.keys \in SUBSET Keys
             /\ \A k \in msg.keys : get_cpu[k] = msg.to
  <2>1. arg[msg.conn] \in Requests /\ msg.conn \in Conns
    BY <1>1 DEF ConnType
  <2>2. msg.keys # {} /\ msg.keys \subseteq KeysOf(msg.conn, msg.to)
    BY DEF ConnType
  <2>3. arg[msg.conn].keys \subseteq Keys
    BY <2>1, RequestType
  <2> QED
    BY <2>1, <2>2, <2>3, CoresAssumption DEF KeysOf
<1> QED
  BY <1>1, <1>2

LEMMA InitInv == Init => IInv
<1> SUFFICES ASSUME Init PROVE IInv
  OBVIOUS
<1>1. NoScores \in MemberScore /\ NoMembers \in ScoreSets
  BY DEF NoScores, NoMembers, MemberScore, ScoreSets
<1>2. NoAnswer \in Results /\ Missing \in MaybeData
  BY DEF NoAnswer, Result, Results, MaybeData
<1>3. StoreType
  BY <1>1, <1>2 DEF Init, StoreType, Table
<1>4. ConnType
  BY DEF Init, ConnType
<1>5. AtHome /\ OneKind
  BY DEF Init, AtHome, OneKind
<1>6. ListedUnderScore
  BY DEF Init, ListedUnderScore, NoMembers
<1>7. CallInv /\ Disjoint
  BY DEF Init, CallInv, Disjoint
<1> QED
  BY <1>3, <1>4, <1>5, <1>6, <1>7 DEF IInv, StoreInv

LEMMA CallStep ==
    ASSUME IInv, NEW c \in Conns, Call(c)
    PROVE  IInv'
<1>1. PICK r \in Requests, n \in Cores : /\ arg' = [arg EXCEPT ![c] = r]
                                         /\ core' = [core EXCEPT ![c] = n]
  BY DEF Call
<1>2. /\ pc[c] = "idle" /\ pc' = [pc EXCEPT ![c] = "called"]
      /\ UNCHANGED <<kv_, zsets_, value_to_score_, score_to_values_, msgs, ans>>
  BY DEF Call, shards, index
<1>3. \A msg \in msgs : msg.conn # c
  BY <1>2 DEF IInv, ConnType
<1>4. StoreType' /\ StoreInv' /\ Disjoint'
  BY <1>2 DEF IInv, StoreType, StoreInv, AtHome, OneKind, ListedUnderScore, Disjoint
<1>5. ConnType'
  BY <1>1, <1>2, <1>3 DEF IInv, ConnType, KeysOf
<1>6. CallInv'
  BY <1>1, <1>2, NoRequestNone DEF IInv, ConnType, CallInv
<1> QED
  BY <1>4, <1>5, <1>6 DEF IInv

LEMMA HandleStep ==
    ASSUME IInv, NEW c \in Conns, Handle(c)
    PROVE  IInv'
<1>1. /\ pc[c] = "called" /\ pc' = [pc EXCEPT ![c] = "sent"]
      /\ msgs' = msgs \cup Messages(c) /\ UNCHANGED <<core, arg>>
  BY DEF Handle
<1>2. arg[c] \in Requests /\ core[c] \in Cores
  BY <1>1, Requested DEF IInv, CallInv
<1>3. \A msg \in msgs : msg.conn # c
  BY <1>1 DEF IInv, ConnType
<1>4. KeysOf(c, core[c]) \in SUBSET Keys /\ \A k \in KeysOf(c, core[c]) : get_cpu[k] = core[c]
  BY <1>2, RequestType DEF KeysOf
<1>5. StoreType' /\ StoreInv'
  <2>1. CASE Perform(c, core[c], KeysOf(c, core[c]))
    BY <1>2, <1>4, <2>1, PerformStep DEF IInv
  <2>2. CASE UNCHANGED <<shards, ans>>
    BY <2>2 DEF IInv, StoreType, StoreInv, AtHome, OneKind, ListedUnderScore, shards, index
  <2> QED
    BY <2>1, <2>2 DEF Handle
<1>6. ConnType'
  BY <1>1, <1>2, MessagesOf DEF IInv, ConnType, KeysOf
<1>7. CallInv'
  BY <1>1 DEF IInv, ConnType, CallInv
<1>8. Disjoint'
  BY <1>1, <1>2, <1>3, MessagesOf DEF IInv, Disjoint
<1> QED
  BY <1>5, <1>6, <1>7, <1>8 DEF IInv

LEMMA ServeStep ==
    ASSUME IInv, NEW c \in Conns, Serve(c)
    PROVE  IInv'
<1>1. PICK msg \in msgs : /\ msg.conn = c /\ msgs' = msgs \ {msg}
                          /\ Perform(c, msg.to, msg.keys)
  BY DEF Serve
<1>2. UNCHANGED <<pc, core, arg>>
  BY DEF Serve
<1>3. StoreType' /\ StoreInv'
  BY <1>1, Requested, PerformStep DEF IInv
<1>4. ConnType'
  BY <1>1, <1>2 DEF IInv, ConnType, KeysOf
<1>5. CallInv' /\ Disjoint'
  BY <1>1, <1>2 DEF IInv, CallInv, Disjoint
<1> QED
  BY <1>3, <1>4, <1>5 DEF IInv

LEMMA AnswerStep ==
    ASSUME IInv, NEW c \in Conns, Answer(c)
    PROVE  IInv'
<1>1. /\ pc' = [pc EXCEPT ![c] = "idle"] /\ core' = [core EXCEPT ![c] = Missing]
      /\ arg' = [arg EXCEPT ![c] = NoRequest]
      /\ ans' = [ans EXCEPT ![c] = [k \in Keys |-> NoAnswer]]
      /\ \A msg \in msgs : msg.conn # c
      /\ UNCHANGED <<kv_, zsets_, value_to_score_, score_to_values_, msgs>>
  BY DEF Answer, shards, index
<1>2. NoAnswer \in Results
  BY DEF NoAnswer, Result, Results
<1>3. StoreType'
  BY <1>1, <1>2 DEF IInv, StoreType, Table
<1>4. StoreInv' /\ Disjoint'
  BY <1>1 DEF IInv, StoreInv, AtHome, OneKind, ListedUnderScore, Disjoint
<1>5. ConnType'
  BY <1>1 DEF IInv, ConnType, KeysOf
<1>6. CallInv'
  BY <1>1 DEF IInv, ConnType, CallInv
<1> QED
  BY <1>3, <1>4, <1>5, <1>6 DEF IInv

LEMMA Inductive == IInv /\ [Next]_vars => IInv'
<1> SUFFICES ASSUME IInv, [Next]_vars PROVE IInv'
  OBVIOUS
<1>1. CASE Next
  BY <1>1, CallStep, HandleStep, ServeStep, AnswerStep DEF Next
<1>2. CASE UNCHANGED vars
  BY <1>2 DEF vars, shards, index, IInv, StoreType, ConnType, StoreInv, AtHome, OneKind,
              ListedUnderScore, CallInv, Disjoint, KeysOf
<1> QED
  BY <1>1, <1>2

LEMMA Invariant == Spec => []IInv
BY InitInv, Inductive, PTL DEF Spec

-----------------------------------------------------------------------------
(* Every method has its effect on the abstract store. *)

LEMMA SameStore ==
    ASSUME UNCHANGED shards PROVE UNCHANGED <<Strings, Zkeys, Zsets>>
BY DEF shards, index, Strings, Zkeys, Zsets

LEMMA SameReplies ==
    /\ \A c, ks, a : Answers(c, ks, a) <=> Abstract!Answers(c, ks, a)
    /\ \A status, x, es : Abstract!Result(status, x, es) = Result(status, x, es)
BY DEF Answers, PutAt, Put, Abstract!Answers, Abstract!Put, Result, Abstract!Result

LEMMA LookEffect ==
    ASSUME StoreType, NEW c \in Conns, NEW n \in Cores, NEW ks \in SUBSET Keys,
           \A k \in ks : get_cpu[k] = n, GetValuesByKey(c, n, ks)
    PROVE  Abstract!Look(c, ks)
<1>1. arg[c].op \in {"query", "list"} /\ UNCHANGED shards
  BY DEF GetValuesByKey
<1>2. \A k \in ks : Strings[k] = kv_[n][k]
  BY DEF Strings
<1>3. [k \in Keys |-> IF k \notin ks THEN ans[c][k]
                      ELSE IF kv_[n][k] = Missing THEN Result("404", Missing, {})
                      ELSE Result("200", kv_[n][k], {})]
        = [k \in Keys |-> IF k \notin ks THEN ans[c][k]
                          ELSE IF Strings[k] = Missing THEN Abstract!NotFound
                          ELSE Abstract!Result("200", Strings[k], {})]
  BY <1>2, SameReplies DEF Abstract!NotFound
<1> QED
  BY <1>1, <1>3, SameStore DEF GetValuesByKey, Abstract!Look, Abstract!store

LEMMA ReplaceEffect ==
    ASSUME StoreType, StoreInv, NEW c \in Conns, NEW n \in Cores, NEW ks \in SUBSET Keys,
           \A k \in ks : get_cpu[k] = n, arg[c] \in Requests,
           AddKeyValue(c, n, ks) \/ DelKey(c, n, ks)
    PROVE  Abstract!Add(c, ks) \/ Abstract!Del(c, ks)
<1> DEFINE x == IF arg[c].op = "del" THEN Missing ELSE arg[c].data
<1>1. x \in MaybeData
  BY RequestType DEF AddKeyValue, DelKey, MaybeData
<1>2. /\ kv_' = PutAt(kv_, n, ks, x)
      /\ zsets_' = [zsets_ EXCEPT ![n] = @ \ ks]
      /\ value_to_score_' = PutAt(value_to_score_, n, ks, NoScores)
      /\ score_to_values_' = PutAt(score_to_values_, n, ks, NoMembers)
      /\ Answers(c, ks, Result("200", Missing, {}))
  BY DEF AddKeyValue, DelKey
<1> HIDE DEF x
<1>3. \A k \in Keys :
        /\ kv_'[get_cpu[k]][k] = IF k \in ks THEN x ELSE kv_[get_cpu[k]][k]
        /\ k \in zsets_'[get_cpu[k]] <=> k \notin ks /\ k \in zsets_[get_cpu[k]]
        /\ score_to_values_'[get_cpu[k]][k] =
             IF k \in ks THEN NoMembers ELSE score_to_values_[get_cpu[k]][k]
  BY <1>1, <1>2, Replace
<1>4. Strings' = Abstract!Put(Strings, ks, x)
  <2>1. \A k \in Keys : kv_'[get_cpu[k]][k] = IF k \in ks THEN x ELSE kv_[get_cpu[k]][k]
    BY <1>3
  <2> QED
    BY <2>1 DEF Strings, Abstract!Put
<1>5. Zkeys' = Zkeys \ ks
  BY <1>3 DEF Zkeys
<1>6. Zsets' = Abstract!Put(Zsets, ks, {})
  <2>1. ASSUME NEW k \in Keys
        PROVE  Zsets'[k] = IF k \in ks THEN {} ELSE Zsets[k]
    <3>1. CASE k \in ks
      BY <1>3, <3>1 DEF Zsets, NoMembers, Entries
    <3>2. CASE k \notin ks
      BY <1>3, <3>2 DEF Zsets
    <3> QED
      BY <3>1, <3>2
  <2> QED
    BY <2>1 DEF Zsets, Abstract!Put
<1>7. Abstract!Answers(c, ks, Abstract!Ok)
  BY <1>2, SameReplies DEF Abstract!Ok
<1> QED
  BY <1>4, <1>5, <1>6, <1>7 DEF x, Abstract!Add, Abstract!Del, AddKeyValue, DelKey

LEMMA ZaddEffect ==
    ASSUME StoreType, StoreInv, NEW c \in Conns, NEW n \in Cores, NEW k \in Keys,
           get_cpu[k] = n, arg[c] \in Requests, ZsetAdd(c, n, k)
    PROVE  Abstract!Zadd(c, k)
<1>1. arg[c].op = "zadd" /\ Strings[k] = Missing /\ kv_' = kv_
  BY DEF ZsetAdd, Strings
<1>2. Strings' = Strings
  BY <1>1 DEF Strings
<1>3. zsets_' = [zsets_ EXCEPT ![n] = @ \cup {k}]
  BY DEF ZsetAdd
<1>4. Zkeys' = Zkeys \cup {k}
  BY <1>3, CoresAssumption DEF StoreType, Zkeys
<1>5. [member |-> arg[c].member, score |-> arg[c].score] \in Entries
  BY <1>1, RequestType DEF Entries
<1>6. \A i \in Keys, t \in Scores : score_to_values_'[get_cpu[i]][i][t] =
        IF i # k THEN score_to_values_[get_cpu[i]][i][t]
        ELSE (score_to_values_[n][k][t] \ {arg[c].member})
               \cup IF t = arg[c].score THEN {arg[c].member} ELSE {}
  <2>1. MemberAdded(k, n, arg[c].member, arg[c].score)
    BY ZsetAddStep
  <2> QED
    BY <2>1 DEF MemberAdded
<1>7. Zsets' = Abstract!Put(Zsets, {k}, Abstract!Others(k, arg[c].member)
                      \cup {[member |-> arg[c].member, score |-> arg[c].score]})
  <2>1. ASSUME NEW i \in Keys, i # k
        PROVE  Zsets'[i] = Zsets[i]
    <3>1. \A e \in Entries : score_to_values_'[get_cpu[i]][i][e.score]
                               = score_to_values_[get_cpu[i]][i][e.score]
      BY <1>6, <2>1 DEF Entries
    <3> QED
      BY <3>1 DEF Zsets
  <2>2. Zsets'[k] = Abstract!Others(k, arg[c].member)
                      \cup {[member |-> arg[c].member, score |-> arg[c].score]}
    <3>1. \A t \in Scores : score_to_values_'[n][k][t] =
            (score_to_values_[n][k][t] \ {arg[c].member})
              \cup IF t = arg[c].score THEN {arg[c].member} ELSE {}
      BY <1>6
    <3>2. Zsets'[k] = {e \in Entries : e.member \in score_to_values_'[n][k][e.score]}
      BY DEF Zsets
    <3>3. Zsets[k] = {e \in Entries : e.member \in score_to_values_[n][k][e.score]}
      BY DEF Zsets
    <3>4. ASSUME NEW e \in Entries
          PROVE  e \in Zsets'[k] <=> \/ e \in Zsets[k] /\ e.member # arg[c].member
                                     \/ e = [member |-> arg[c].member, score |-> arg[c].score]
      BY <3>1, <3>2, <3>3 DEF Entries
    <3>5. Abstract!Others(k, arg[c].member) = {e \in Zsets[k] : e.member # arg[c].member}
      BY DEF Abstract!Others
    <3> HIDE DEF Entries
    <3> QED
      BY <1>5, <3>2, <3>3, <3>4, <3>5
  <2>3. Zsets' = [i \in Keys |-> Zsets'[i]]
    BY DEF Zsets
  <2> QED
    BY <2>1, <2>2, <2>3 DEF Abstract!Put
<1>8. Abstract!Answers(c, {k}, Abstract!Ok)
  BY SameReplies DEF ZsetAdd, Abstract!Ok
<1> QED
  BY <1>1, <1>2, <1>4, <1>7, <1>8 DEF Abstract!Zadd

LEMMA ZrmvEffect ==
    ASSUME StoreType, StoreInv, NEW c \in Conns, NEW n \in Cores, NEW k \in Keys,
           get_cpu[k] = n, arg[c] \in Requests, ZsetRmv(c, n, k)
    PROVE  Abstract!Zrmv(c, k)
<1>1. arg[c].op = "zrmv" /\ UNCHANGED <<Strings, Zkeys>>
  BY DEF ZsetRmv, Strings, Zkeys
<1>2. ASSUME NEW i \in Keys
      PROVE  Zsets'[i] = IF i = k THEN Abstract!Others(k, arg[c].member) ELSE Zsets[i]
  <2>1. \A e \in Entries : score_to_values_'[get_cpu[i]][i][e.score] =
          IF i # k THEN score_to_values_[get_cpu[i]][i][e.score]
          ELSE score_to_values_[n][k][e.score] \ {arg[c].member}
    <3>1. MemberRemoved(k, n, arg[c].member)
      BY ZsetRmvStep
    <3>2. \A e \in Entries : e.score \in Scores
      BY DEF Entries
    <3> QED
      BY <3>1, <3>2 DEF MemberRemoved
  <2> HIDE DEF Entries
  <2>2. CASE i = k
    BY <2>1, <2>2 DEF Zsets, Abstract!Others
  <2>3. CASE i # k
    BY <2>1, <2>3 DEF Zsets
  <2> QED
    BY <2>2, <2>3
<1>3. Zsets' = Abstract!Put(Zsets, {k}, Abstract!Others(k, arg[c].member))
  <2>1. Zsets' = [i \in Keys |-> Zsets'[i]]
    BY DEF Zsets
  <2> QED
    BY <1>2, <2>1 DEF Abstract!Put
<1>4. Abstract!Answers(c, {k}, Abstract!Ok)
  BY SameReplies DEF ZsetRmv, Abstract!Ok
<1> QED
  BY <1>1, <1>3, <1>4 DEF Abstract!Zrmv

LEMMA ReplyEffect ==
    ASSUME NEW c \in Conns, NEW n \in Cores, NEW k \in Keys, get_cpu[k] = n,
           ZsetAddRefused(c, n, k) \/ ZsetZrange(c, n, k)
    PROVE  Abstract!ZaddRefused(c, k) \/ Abstract!Zrange(c, k)
<1>1. UNCHANGED Abstract!store
  BY SameStore DEF ZsetAddRefused, ZsetZrange, Abstract!store
<1>2. ASSUME ZsetAddRefused(c, n, k) PROVE Abstract!ZaddRefused(c, k)
  <2>1. arg[c].op = "zadd" /\ Strings[k] # Missing
    BY <1>2 DEF ZsetAddRefused, Strings
  <2>2. Abstract!Answers(c, {k}, Abstract!BadRequest)
    BY <1>2, SameReplies DEF ZsetAddRefused, Abstract!BadRequest
  <2> QED
    BY <1>1, <2>1, <2>2 DEF Abstract!ZaddRefused
<1>3. ASSUME ZsetZrange(c, n, k) PROVE Abstract!Zrange(c, k)
  <2>1. k \in Zkeys <=> k \in zsets_[n]
    BY DEF Zkeys
  <2>2. RangeOf(n, k, arg[c].score, arg[c].max_score)
          = Abstract!Range(Zsets[k], arg[c].score, arg[c].max_score)
    BY DEF RangeOf, Zsets, Abstract!Range
  <2>3. Abstract!Answers(c, {k},
          IF k \in Zkeys
          THEN Abstract!Result("200", Missing, Abstract!Range(Zsets[k], arg[c].score, arg[c].max_score))
          ELSE Abstract!NotFound)
    BY <1>3, <2>1, <2>2, SameReplies DEF ZsetZrange, Abstract!NotFound
  <2> QED
    BY <1>1, <1>3, <2>3 DEF ZsetZrange, Abstract!Zrange
<1> QED
  BY <1>2, <1>3

LEMMA PerformEffect ==
    ASSUME StoreType, StoreInv, NEW c \in Conns, NEW n \in Cores, NEW ks \in SUBSET Keys,
           \A k \in ks : get_cpu[k] = n, arg[c] \in Requests, Perform(c, n, ks)
    PROVE  Abstract!Effect(c, ks)
BY LookEffect, ReplaceEffect, ZaddEffect, ZrmvEffect, ReplyEffect DEF Perform, Abstract!Effect

-----------------------------------------------------------------------------
(* Every step is a step of Cache, or a stutter: a handler with no key of its *)
(* own only sends messages.                                                *)

todo == [c \in Conns |-> Todo(c)]

\* The steps of c leave alone what other connections have still to look at.
LEMMA OtherTodo ==
    ASSUME NEW c \in Conns, NEW ks,
           \A d \in Conns \ {c} : /\ pc'[d] = pc[d] /\ arg'[d] = arg[d]
                                  /\ {msg \in msgs' : msg.conn = d} = {msg \in msgs : msg.conn = d},
           Todo(c)' = ks
    PROVE  todo' = [todo EXCEPT ![c] = ks]
<1>1. \A d \in Conns \ {c} : Todo(d)' = Todo(d)
  BY DEF Todo
<1> QED
  BY <1>1 DEF todo

LEMMA CallRefines ==
    ASSUME IInv, NEW c \in Conns, Call(c)
    PROVE  Abstract!Call(c)
<1>1. PICK r \in Requests : arg' = [arg EXCEPT ![c] = r]
  BY DEF Call
<1>2. /\ pc[c] = "idle" /\ pc' = [pc EXCEPT ![c] = "called"] /\ msgs' = msgs
      /\ UNCHANGED shards /\ ans' = ans
  BY DEF Call
<1>3. arg[c] = NoRequest
  BY <1>2 DEF IInv, CallInv
<1>4. Todo(c)' = r.keys
  BY <1>1, <1>2 DEF Todo, IInv, ConnType
<1>5. todo' = [todo EXCEPT ![c] = r.keys]
  BY <1>1, <1>2, <1>4, OtherTodo DEF IInv, ConnType
<1> QED
  BY <1>1, <1>2, <1>3, <1>5, SameStore DEF Abstract!Call, Abstract!store, todo

LEMMA HandleRefines ==
    ASSUME IInv, NEW c \in Conns, Handle(c)
    PROVE  Abstract!Apply(c) \/ UNCHANGED Abstract!vars
<1> DEFINE ks == KeysOf(c, core[c])
<1>1. /\ pc[c] = "called" /\ pc' = [pc EXCEPT ![c] = "sent"]
      /\ msgs' = msgs \cup Messages(c) /\ arg' = arg
  BY DEF Handle
<1>2. arg[c] \in Requests /\ core[c] \in Cores
  BY <1>1, Requested DEF IInv, CallInv
<1>3. \A msg \in msgs : msg.conn # c
  BY <1>1 DEF IInv, ConnType
<1>4. ks \in SUBSET Keys /\ ks \subseteq arg[c].keys /\ \A k \in ks : get_cpu[k] = core[c]
  BY <1>2, RequestType DEF KeysOf
<1>5. Todo(c) = arg[c].keys
  BY <1>1 DEF Todo
<1>6. Todo(c)' = arg[c].keys \ ks
  <2>1. \A msg \in Messages(c) : /\ msg.conn = c /\ msg.keys \subseteq KeysOf(c, msg.to)
                                 /\ msg.to # core[c]
    BY <1>2, MessagesOf
  <2>2. \A msg \in Messages(c) : msg.keys \subseteq arg[c].keys \ ks
    BY <2>1 DEF KeysOf
  <2>3. \A k \in arg[c].keys \ ks : \E msg \in Messages(c) : k \in msg.keys
    BY <1>2, MessagesOf
  <2>4. {msg \in msgs' : msg.conn = c} = Messages(c)
    BY <1>1, <1>3, <2>1
  <2>5. Todo(c)' = UNION {msg.keys : msg \in {msg \in msgs' : msg.conn = c}}
    BY <1>1 DEF Todo, IInv, ConnType
  <2> HIDE DEF ks
  <2>6. UNION {msg.keys : msg \in Messages(c)} = arg[c].keys \ ks
    BY <2>2, <2>3
  <2> QED
    BY <2>4, <2>5, <2>6
<1>7. todo' = [todo EXCEPT ![c] = arg[c].keys \ ks]
  <2>1. \A d \in Conns \ {c} : {msg \in msgs' : msg.conn = d} = {msg \in msgs : msg.conn = d}
    BY <1>1, <1>2, MessagesOf
  <2> QED
    BY <1>1, <1>6, <2>1, OtherTodo DEF IInv, ConnType
<1>8. CASE ks # {}
  <2>1. Abstract!Effect(c, ks)
    BY <1>2, <1>4, <1>8, PerformEffect DEF Handle, IInv
  <2>2. ks \in SUBSET todo[c] /\ todo' = [todo EXCEPT ![c] = @ \ ks]
    BY <1>4, <1>5, <1>7 DEF todo
  <2> QED
    BY <1>1, <1>8, <2>1, <2>2 DEF Abstract!Apply, todo
<1>9. CASE ks = {}
  <2>1. todo' = todo
    BY <1>5, <1>7, <1>9 DEF todo
  <2> QED
    BY <1>1, <1>9, <2>1, SameStore DEF Handle, Abstract!vars, Abstract!store, todo
<1> QED
  BY <1>8, <1>9

LEMMA ServeRefines ==
    ASSUME IInv, NEW c \in Conns, Serve(c)
    PROVE  Abstract!Apply(c)
<1>1. PICK msg \in msgs : /\ msg.conn = c /\ msgs' = msgs \ {msg}
                          /\ Perform(c, msg.to, msg.keys)
  BY DEF Serve
<1>2. UNCHANGED <<pc, arg>>
  BY DEF Serve
<1>3. msg.keys # {} /\ pc[c] = "sent"
  BY <1>1 DEF IInv, ConnType
<1>4. Abstract!Effect(c, msg.keys)
  BY <1>1, Requested, PerformEffect DEF IInv
<1>5. Todo(c) = UNION {m.keys : m \in {m \in msgs : m.conn = c}}
  BY <1>3 DEF Todo
<1>6. Todo(c)' = UNION {m.keys : m \in {m \in msgs' : m.conn = c}}
  BY <1>2, <1>3 DEF Todo
<1>7. Todo(c)' = Todo(c) \ msg.keys
  BY <1>1, <1>5, <1>6 DEF IInv, Disjoint
<1>8. todo' = [todo EXCEPT ![c] = Todo(c) \ msg.keys]
  BY <1>1, <1>2, <1>7, OtherTodo
<1>9. msg.keys \in SUBSET todo[c] /\ todo' = [todo EXCEPT ![c] = @ \ msg.keys]
  BY <1>1, <1>5, <1>8 DEF todo
<1> QED
  BY <1>2, <1>3, <1>4, <1>9 DEF Abstract!Apply, todo

LEMMA AnswerRefines ==
    ASSUME IInv, NEW c \in Conns, Answer(c)
    PROVE  Abstract!Answer(c)
<1>1. /\ pc[c] = "sent" /\ pc' = [pc EXCEPT ![c] = "idle"]
      /\ arg' = [arg EXCEPT ![c] = NoRequest]
      /\ ans' = [ans EXCEPT ![c] = [k \in Keys |-> NoAnswer]]
      /\ \A msg \in msgs : msg.conn # c
      /\ msgs' = msgs /\ UNCHANGED shards
  BY DEF Answer
<1>2. arg[c] # NoRequest
  BY <1>1 DEF IInv, CallInv
<1>3. Todo(c) = {}
  BY <1>1 DEF Todo
<1>4. Todo(c)' = {}
  BY <1>1 DEF Todo, IInv, ConnType
<1>5. todo' = [todo EXCEPT ![c] = {}]
  BY <1>1, <1>4, OtherTodo DEF IInv, ConnType
<1>6. todo[c] = {} /\ todo' = todo
  BY <1>3, <1>5 DEF todo
<1> QED
  BY <1>1, <1>2, <1>6, SameStore DEF Abstract!Answer, Abstract!store, todo

-----------------------------------------------------------------------------
(* The theorems. *)

\* Whatever clients ask in whatever order the cores run, the cores keep what they
\* should, and a message belongs to a request that waits for it.
THEOREM TypeCorrect == Spec => []TypeOK
<1>1. IInv => TypeOK
  BY DEF IInv, StoreType, ConnType, TypeOK, Table, Results, MaybeData, MemberScore, ScoreSets
<1> QED
  BY <1>1, Invariant, PTL

\* No key is both a string and a sorted set, on whatever cores: a key is only on its
\* own core (AtHome), and there it is only one of the two.
THEOREM KeyExclusiveCorrect == Spec => []KeyExclusive
<1>1. IInv => KeyExclusive
  BY DEF IInv, StoreInv, AtHome, OneKind, KeyExclusive
<1> QED
  BY <1>1, Invariant, PTL

\* What a zrange lists is listed under the score value_to_score_ has.
THEOREM ListedUnderScoreCorrect == Spec => []ListedUnderScore
<1>1. IInv => ListedUnderScore
  BY DEF IInv, StoreInv
<1> QED
  BY <1>1, Invariant, PTL

\* Every request takes effect on each of its keys at one instant, on the core of that
\* key, between its call and its answer: the sharded server implements the API.
THEOREM LinearizableCorrect == Spec => Linearizable
<1>1. Init => Abstract!Init
  <2> SUFFICES ASSUME Init PROVE Abstract!Init
    OBVIOUS
  <2>1. Strings = [k \in Keys |-> Missing]
    BY CoresAssumption DEF Init, Strings
  <2>2. Zkeys = {} /\ Zsets = [k \in Keys |-> {}]
    BY CoresAssumption DEF Init, Zkeys, Zsets, NoMembers, Entries
  <2>3. todo = [c \in Conns |-> {}]
    BY DEF Init, todo, Todo
  <2> QED
    BY <2>1, <2>2, <2>3 DEF Init, Abstract!Init, todo
<1>2. IInv /\ [Next]_vars => [Abstract!Next]_(Abstract!vars)
  <2> SUFFICES ASSUME IInv, [Next]_vars PROVE [Abstract!Next]_(Abstract!vars)
    OBVIOUS
  <2>1. CASE Next
    BY <2>1, CallRefines, HandleRefines, ServeRefines, AnswerRefines DEF Next, Abstract!Next
  <2>2. CASE UNCHANGED vars
    <3>1. UNCHANGED <<shards, arg, ans>> /\ todo' = todo
      BY <2>2 DEF vars, todo, Todo
    <3> QED
      BY <3>1, SameStore DEF Abstract!vars, Abstract!store, todo
  <2> QED
    BY <2>1, <2>2
<1> QED
  BY <1>1, <1>2, Invariant, PTL DEF Spec, Linearizable, Abstract!Spec
=============================================================================
