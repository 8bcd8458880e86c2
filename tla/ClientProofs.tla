---------------------------- MODULE ClientProofs ----------------------------
(***************************************************************************)
(* Proofs about Client, for any number of keys, pairs, tasks, permits and  *)
(* connections that break: the permits of both programs are accounted for, *)
(* the state keeps its types, no answer makes client.rs panic, and a run   *)
(* of it leaves nothing but the pairs of its batch test.  The first needs  *)
(* the connections only.  The others rest on what each phase of client.rs  *)
(* asks, on the answers its tasks have had (TInv), and on what the store   *)
(* holds of each key after that many steps (CInv).                         *)
(***************************************************************************)
EXTENDS Client, FiniteSetTheorems, FunctionTheorems, SequenceTheorems, TLAPS

\* The batches under way.
Sent == Asking(Batches) \ lost

\* A task of client.rs asks only while it holds a permit.  A permit of batch-forever
\* is free, or with a batch, or lost: three disjoint places.
HoldsInv  == /\ holds \subseteq Tasks
             /\ Cardinality(holds) <= Permits
             /\ Asking(Tasks) \subseteq holds
SlotsInv  == /\ lost \subseteq Batches
             /\ sema \in Nat
             /\ sema + Cardinality(Sent) + Cardinality(lost) = Slots
ArgInv    == arg = [c \in Conns |-> arg[c]]
IInv      == ArgInv /\ HoldsInv /\ SlotsInv

-----------------------------------------------------------------------------
(* The connections. *)

LEMMA ConnsFinite ==
    /\ IsFiniteSet(Tasks) /\ IsFiniteSet(Batches)
    /\ Tasks \cap Batches = {} /\ 0 \notin Batches
    /\ Tasks \subseteq Conns /\ Batches \subseteq Conns
<1>1. n \in Nat /\ Slots \in Nat
  BY BoundsAssumption
<1>2. IsFiniteSet(Tasks) /\ IsFiniteSet(Batches)
  BY <1>1, FS_Interval DEF Tasks, Batches
<1> QED
  BY <1>1, <1>2 DEF Tasks, Batches, Conns

LEMMA SubsetsFinite ==
    ASSUME lost \subseteq Batches, holds \subseteq Tasks
    PROVE  /\ IsFiniteSet(lost) /\ IsFiniteSet(Sent) /\ IsFiniteSet(holds)
           /\ Cardinality(lost) \in Nat /\ Cardinality(Sent) \in Nat
           /\ Cardinality(holds) \in Nat
<1>1. Sent \subseteq Batches
  BY DEF Sent, Asking
<1>2. IsFiniteSet(lost) /\ IsFiniteSet(Sent) /\ IsFiniteSet(holds)
  BY <1>1, ConnsFinite, FS_Subset
<1> QED
  BY <1>2, FS_CardinalityType

\* A connection that is called asks; one that is answered does not.
LEMMA CallAsks ==
    ASSUME ArgInv, NEW c \in Conns, NEW request, Call(c, request)
    PROVE  /\ ArgInv'
           /\ arg'[c] = request /\ arg[c] = NoRequest
           /\ \A d \in Conns \ {c} : arg'[d] = arg[d]
BY DEF ArgInv, Call

LEMMA AnswerEnds ==
    ASSUME ArgInv, NEW c \in Conns, Server!Answer(c)
    PROVE  /\ ArgInv'
           /\ arg'[c] = NoRequest /\ arg[c] # NoRequest
           /\ \A d \in Conns \ {c} : arg'[d] = arg[d]
BY DEF ArgInv, Server!Answer

-----------------------------------------------------------------------------
(* The steps. *)

\* What client.rs does leaves the batches alone, and conversely.
LEMMA SameSlots ==
    ASSUME SlotsInv, UNCHANGED <<sema, lost>>, \A g \in Batches : arg'[g] = arg[g]
    PROVE  SlotsInv'
<1>1. Sent' = Sent
  BY DEF Sent, Asking
<1> QED
  BY <1>1 DEF SlotsInv

LEMMA SameHolds ==
    ASSUME HoldsInv, UNCHANGED holds, \A t \in Tasks : arg'[t] = arg[t]
    PROVE  HoldsInv'
BY DEF HoldsInv, Asking

LEMMA InitInv == Init => IInv
<1> SUFFICES ASSUME Init PROVE IInv
  OBVIOUS
<1>1. \A c \in Conns : arg[c] = NoRequest
  BY DEF Init, Server!Init
<1>2. ArgInv
  BY DEF Init, Server!Init, ArgInv
<1>3. HoldsInv
  BY <1>1, ConnsFinite, FS_EmptySet, BoundsAssumption DEF Init, HoldsInv, Asking
<1>4. Sent = {}
  BY <1>1, ConnsFinite DEF Sent, Asking
<1>5. SlotsInv
  BY <1>4, FS_EmptySet, BoundsAssumption DEF Init, SlotsInv
<1> QED
  BY <1>2, <1>3, <1>5 DEF IInv

\* A permit is acquired only while there is one.
LEMMA AcquireInv ==
    ASSUME IInv, NEW t \in Tasks, Acquire(t)
    PROVE  IInv'
<1>1. UNCHANGED <<arg, sema, lost>>
  BY DEF Acquire, server
<1>2. Cardinality(holds') = Cardinality(holds) + 1
  BY SubsetsFinite, FS_AddElement DEF Acquire, IInv, HoldsInv, SlotsInv
<1>3. Cardinality(holds') <= Permits
  BY <1>2, SubsetsFinite, BoundsAssumption DEF Acquire, IInv, HoldsInv, SlotsInv
<1>4. HoldsInv'
  BY <1>1, <1>3 DEF Acquire, IInv, HoldsInv, Asking
<1> QED
  BY <1>1, <1>4, SameSlots DEF IInv, ArgInv

LEMMA AskInv ==
    ASSUME IInv, NEW t \in 0 .. n, Ask(t)
    PROVE  IInv'
<1>1. t \in Conns /\ t \notin Batches /\ (t \in Tasks => t \in holds)
  BY BoundsAssumption DEF Ask, Conns, Tasks, Batches
<1>2. PICK request : Call(t, request)
  BY DEF Ask
<1>3. /\ ArgInv' /\ UNCHANGED <<holds, sema, lost>>
      /\ \A d \in Conns \ {t} : arg'[d] = arg[d]
  BY <1>1, <1>2, CallAsks DEF IInv, Ask
<1>4. HoldsInv'
  BY <1>1, <1>3, ConnsFinite DEF IInv, HoldsInv, Asking
<1>5. SlotsInv'
  BY <1>1, <1>3, ConnsFinite, SameSlots DEF IInv
<1> QED
  BY <1>3, <1>4, <1>5 DEF IInv

\* A task drops its permit only when it has been answered.
LEMMA ReceiveInv ==
    ASSUME IInv, NEW t \in 0 .. n, Receive(t)
    PROVE  IInv'
<1>1. t \in Conns /\ t \notin Batches
  BY BoundsAssumption DEF Conns, Batches
<1>2. /\ ArgInv' /\ UNCHANGED <<sema, lost>>
      /\ arg'[t] = NoRequest
      /\ \A d \in Conns \ {t} : arg'[d] = arg[d]
  BY <1>1, AnswerEnds DEF IInv, Receive
<1>3. holds' = holds \ {t} \/ holds' = holds
  BY DEF Receive
<1>4. Cardinality(holds') <= Cardinality(holds)
  <2>1. IsFiniteSet(holds) /\ holds' \in SUBSET holds
    BY <1>3, SubsetsFinite DEF IInv, HoldsInv, SlotsInv
  <2> QED
    BY <2>1, FS_Subset
<1>5. holds' \subseteq Tasks /\ Asking(Tasks)' \subseteq holds'
  BY <1>2, <1>3, ConnsFinite DEF IInv, HoldsInv, Asking
<1>6. Cardinality(holds') \in Nat /\ Cardinality(holds) \in Nat
  <2>1. IsFiniteSet(holds) /\ IsFiniteSet(holds')
    BY <1>5, ConnsFinite, FS_Subset DEF IInv, HoldsInv
  <2> QED
    BY <2>1, FS_CardinalityType
<1>7. HoldsInv'
  BY <1>4, <1>5, <1>6, BoundsAssumption DEF IInv, HoldsInv
<1>8. SlotsInv'
  BY <1>1, <1>2, ConnsFinite, SameSlots DEF IInv
<1> QED
  BY <1>2, <1>7, <1>8 DEF IInv

\* A batch that is sent takes a permit ...
LEMMA SendBatchInv ==
    ASSUME IInv, SendBatch
    PROVE  IInv'
<1>1. PICK g \in Batches : Idle(g) /\ Call(g, Forever)
  BY DEF SendBatch
<1>2. /\ ArgInv' /\ UNCHANGED <<holds, lost>>
      /\ sema > 0 /\ sema' = sema - 1
      /\ arg'[g] = Forever /\ arg[g] = NoRequest
      /\ \A d \in Conns \ {g} : arg'[d] = arg[d]
  BY <1>1, ConnsFinite, CallAsks DEF IInv, SendBatch
<1>3. Forever # NoRequest
  BY RequestsAssumption DEF Requests
<1>4. Sent' = Sent \cup {g} /\ g \notin Sent
  BY <1>1, <1>2, <1>3, ConnsFinite DEF Sent, Asking, Idle
<1>5. Cardinality(Sent') = Cardinality(Sent) + 1
  BY <1>4, SubsetsFinite, FS_AddElement DEF IInv, HoldsInv, SlotsInv
<1>6. SlotsInv'
  BY <1>2, <1>5, SubsetsFinite, BoundsAssumption DEF IInv, HoldsInv, SlotsInv
<1>7. HoldsInv'
  BY <1>1, <1>2, ConnsFinite, SameHolds DEF IInv
<1> QED
  BY <1>2, <1>6, <1>7 DEF IInv

\* ... which it gives back when it ends ...
LEMMA BatchEndsInv ==
    ASSUME IInv, NEW g \in Batches, BatchEnds(g)
    PROVE  IInv'
<1>1. /\ ArgInv' /\ UNCHANGED <<holds, lost>>
      /\ g \notin lost /\ sema' = sema + 1
      /\ arg'[g] = NoRequest /\ arg[g] # NoRequest
      /\ \A d \in Conns \ {g} : arg'[d] = arg[d]
  BY ConnsFinite, AnswerEnds DEF IInv, BatchEnds
<1>2. Sent' = Sent \ {g} /\ g \in Sent
  BY <1>1, ConnsFinite DEF Sent, Asking
<1>3. Cardinality(Sent') = Cardinality(Sent) - 1
  BY <1>2, SubsetsFinite, FS_RemoveElement DEF IInv, HoldsInv, SlotsInv
<1>4. SlotsInv'
  BY <1>1, <1>3, SubsetsFinite, BoundsAssumption DEF IInv, HoldsInv, SlotsInv
<1>5. HoldsInv'
  BY <1>1, ConnsFinite, SameHolds DEF IInv
<1> QED
  BY <1>1, <1>4, <1>5 DEF IInv

\* ... or loses with its connection.
LEMMA BreakInv ==
    ASSUME IInv, NEW g \in Batches, Break(g)
    PROVE  IInv'
<1>1. /\ g \notin lost /\ lost' = lost \cup {g} /\ arg[g] # NoRequest
      /\ UNCHANGED <<arg, holds, sema>>
  BY DEF Break, server
<1>2. Sent' = Sent \ {g} /\ g \in Sent
  BY <1>1 DEF Sent, Asking
<1>3. /\ Cardinality(Sent') = Cardinality(Sent) - 1
      /\ Cardinality(lost') = Cardinality(lost) + 1
  BY <1>1, <1>2, SubsetsFinite, FS_AddElement, FS_RemoveElement DEF IInv, HoldsInv, SlotsInv
<1>4. SlotsInv'
  BY <1>1, <1>3, SubsetsFinite, BoundsAssumption DEF IInv, HoldsInv, SlotsInv
<1> QED
  BY <1>1, <1>4, SameHolds DEF IInv, ArgInv

LEMMA StepInv == IInv /\ [Next]_vars => IInv'
<1> SUFFICES ASSUME IInv, [Next]_vars PROVE IInv'
  OBVIOUS
<1>1. CASE UNCHANGED <<arg, holds, sema, lost>>
  BY <1>1, SameSlots, SameHolds DEF IInv, ArgInv
<1>2. CASE Work
  <2>1. CASE \E t \in Tasks : Acquire(t)
    BY <2>1, AcquireInv
  <2>2. CASE \E t \in 0 .. n : Ask(t)
    BY <2>2, AskInv
  <2>3. CASE \E t \in 0 .. n : Receive(t)
    BY <2>3, ReceiveInv
  <2>4. CASE Join
    BY <2>4, <1>1 DEF Join, server
  <2> QED
    BY <1>2, <2>1, <2>2, <2>3, <2>4 DEF Work
<1>3. CASE WorkServed \/ BatchesServed
  BY <1>3, <1>1 DEF WorkServed, BatchesServed, Serve, Server!Apply
<1>4. CASE SendBatch
  BY <1>4, SendBatchInv
<1>5. CASE BatchesEnd
  BY <1>5, BatchEndsInv DEF BatchesEnd
<1>6. CASE \E g \in Batches : Break(g)
  BY <1>6, BreakInv
<1>7. CASE UNCHANGED vars
  BY <1>7, <1>1 DEF vars, server
<1> QED
  BY <1>2, <1>3, <1>4, <1>5, <1>6, <1>7 DEF Next

-----------------------------------------------------------------------------

\* PermitsAccounted of Client holds for any number of tasks, permits and broken
\* connections: both programs take a permit before they send, and give back one per
\* answer (client.rs:324-332, batch-forever.rs:56-70).
THEOREM PermitsAccountedCorrect == Spec => []PermitsAccounted
<1>1. IInv => PermitsAccounted
  <2> SUFFICES ASSUME IInv PROVE PermitsAccounted
    OBVIOUS
  <2>1. Cardinality(Asking(Tasks)) <= Cardinality(holds)
    BY SubsetsFinite, FS_Subset DEF IInv, HoldsInv, SlotsInv
  <2>2. IsFiniteSet(Asking(Tasks))
    BY ConnsFinite, FS_Subset DEF Asking
  <2>3. Cardinality(Asking(Tasks)) \in Nat /\ Cardinality(holds) \in Nat
    BY <2>2, SubsetsFinite, FS_CardinalityType DEF IInv, HoldsInv, SlotsInv
  <2>4. Cardinality(Asking(Tasks)) <= Permits
    BY <2>1, <2>3, BoundsAssumption DEF IInv, HoldsInv
  <2> QED
    BY <2>4 DEF IInv, SlotsInv, Sent, PermitsAccounted
<1> QED
  BY <1>1, InitInv, StepInv, PTL DEF Spec

-----------------------------------------------------------------------------
(* The steps of the phases of client.rs. *)

LEMMA ProgramAt ==
    /\ Len(Program) = 10 /\ DOMAIN Program = 1 .. 10
    /\ Program[1] = Tests /\ Program[2] = BenchAdd /\ Program[3] = BenchQuery
    /\ Program[4] = BenchDel /\ Program[5] = BenchBatch /\ Program[6] = BenchList
    /\ Program[7] = BenchZadd /\ Program[8] = BenchZrange /\ Program[9] = BenchZrmv
    /\ Program[10] = Cleanup
<1> HIDE DEF Tests, BenchAdd, BenchQuery, BenchDel, BenchBatch, BenchList, BenchZadd,
             BenchZrange, BenchZrmv, Cleanup
<1> QED
  BY DEF Program

LEMMA ChunkOfTask ==
    ASSUME NEW j \in Tasks
    PROVE  /\ (j - 1) \div Chunk + 1 \in Chunks
           /\ BenchKey(j) \in ChunkKeys((j - 1) \div Chunk + 1)
<1>1. /\ n \in Nat /\ Chunk \in Nat /\ Chunk >= 1 /\ j \in Nat /\ j >= 1 /\ j <= n
  BY BoundsAssumption DEF Tasks
<1> DEFINE q == (j - 1) \div Chunk
           top == (n + Chunk - 1) \div Chunk
<1>2. q \in Nat /\ Chunk * q <= j - 1
  BY <1>1
<1>3. top \in Nat /\ n + Chunk - 1 < Chunk * (top + 1)
  BY <1>1
<1> HIDE DEF q, top
<1>4. Chunk * (q + 1) < Chunk * (top + 1)
  BY <1>1, <1>2, <1>3
<1>5. q + 1 < top + 1
  BY <1>1, <1>2, <1>3, <1>4
<1>6. q + 1 \in Chunks /\ q + 1 \in Nat /\ q + 1 - 1 = q
  BY <1>2, <1>3, <1>5 DEF Chunks, q, top
<1>7. (j - 1) \div Chunk = q
  BY DEF q
<1>9. j \in {x \in Tasks : (x - 1) \div Chunk = (q + 1) - 1}
  BY <1>1, <1>2, <1>7
<1>10. BenchKey(j) \in ChunkKeys(q + 1)
  BY <1>9 DEF ChunkKeys
<1> QED
  BY <1>6, <1>10 DEF q

LEMMA ChunksAreTasks == Chunks \subseteq Tasks
<1>1. /\ n \in Nat /\ Chunk \in Nat /\ Chunk >= 1 /\ n >= 1
  BY BoundsAssumption
<1> DEFINE top == (n + Chunk - 1) \div Chunk
<1>2. top \in Nat /\ Chunk * top <= n + Chunk - 1
  BY <1>1
<1> HIDE DEF top
<1>3. n <= Chunk * n
  BY <1>1
<1>4. top <= n
  <2> SUFFICES ASSUME top >= n + 1 PROVE FALSE
    BY <1>1, <1>2
  <2>1. Chunk * top >= Chunk * (n + 1)
    BY <1>1, <1>2
  <2>2. Chunk * (n + 1) = Chunk * n + Chunk
    BY <1>1
  <2> QED
    BY <1>1, <1>2, <1>3, <2>1, <2>2
<1> QED
  BY <1>1, <1>2, <1>4 DEF Chunks, Tasks, top

LEMMA Concat ==
    ASSUME NEW S, NEW s \in Seq(S), NEW t \in Seq(S)
    PROVE  /\ s \o t \in Seq(S)
           /\ Len(s \o t) = Len(s) + Len(t)
           /\ \A i \in 1 .. Len(s) : (s \o t)[i] = s[i]
           /\ \A i \in 1 .. Len(t) : (s \o t)[Len(s) + i] = t[i]
BY ConcatProperties

\* u is s, of length a, followed by t, of length b.
Joins(u, S, s, a, t, b) == /\ u \in Seq(S) /\ Len(u) = a + b
                           /\ \A i \in 1 .. a : u[i] = s[i]
                           /\ \A i \in 1 .. b : u[a + i] = t[i]

LEMMA ConcatJ ==
    ASSUME NEW S, NEW s \in Seq(S), NEW t \in Seq(S)
    PROVE  Joins(s \o t, S, s, Len(s), t, Len(t))
BY Concat DEF Joins

LEMMA ConcatJoins ==
    ASSUME NEW S, NEW s, s \in Seq(S), NEW t, t \in Seq(S),
           NEW a, Len(s) = a, NEW b, Len(t) = b
    PROVE  Joins(s \o t, S, s, a, t, b)
BY ConcatJ, Zenon

LEMMA IsSeq ==
    ASSUME NEW S, NEW k \in Nat, NEW f, DOMAIN f = 1 .. k, f = [i \in 1 .. k |-> f[i]],
           \A i \in 1 .. k : f[i] \in S
    PROVE  f \in Seq(S) /\ Len(f) = k
OBVIOUS

\* The steps of the tests, at their places.
TestStep(i, s) ==
    \/ i = 1 /\ s = add(Hello, "world")
    \/ i = 2 /\ s = query(Hello, 1, "world")
    \/ i = 3 /\ s = del(Hello)
    \/ i = 4 /\ s = query(Hello, 0, Any)
    \/ i = 5 /\ s = batch(Present, "value")
    \/ i = 6 /\ s = list(Present, Pairs, "value")
    \/ i = 7 /\ s = list(Present \cup Absent, Pairs, Any)
    \/ i = 8 /\ s = list(Absent, 0, Any)
    \/ i = 9 /\ s = list({TestKey(1)}, 1, Any)
    \/ \E m \in Members : i = 10 + m /\ s = zadd(TestZset, m \div 2, m)
    \/ i = Pairs + 10 /\ s = zrange(TestZset, 0, (Pairs - 1) \div 2, 1,
                                    {[member |-> m, score |-> m \div 2] : m \in Members})
    \/ \E m \in Members : i = Pairs + 11 + m /\ s = zadd(TestZset, m * 2, m)
    \/ i = 2 * Pairs + 11 /\ s = zrange(TestZset, 0, (Pairs - 1) * 2, 1,
                                        {[member |-> m, score |-> m * 2] : m \in Members})
    \/ i = 2 * Pairs + 12 /\ s = zrmv(TestZset, 0)
    \/ i \in {2 * Pairs + 13, 3 * Pairs + 13} /\ s = zrange(TestZset, 0, 0, 1, {})
    \/ \E m \in Members \ {0} : i = 2 * Pairs + 13 + m /\ s = zrmv(TestZset, m)
    \/ i = 3 * Pairs + 14 /\ s = del(TestZset)
    \/ i = 3 * Pairs + 15 /\ s = zrange(TestZset, 0, 0, 0, Any)

LEMMA TestSteps ==
    /\ DOMAIN Tests = {0} /\ Len(Tests[0]) = 3 * Pairs + 15
    /\ DOMAIN Tests[0] = 1 .. 3 * Pairs + 15
    /\ \A i \in 1 .. 3 * Pairs + 15 : TestStep(i, Tests[0][i])
<1> DEFINE A == << add(Hello, "world"), query(Hello, 1, "world"), del(Hello), query(Hello, 0, Any),
                   batch(Present, "value"), list(Present, Pairs, "value"),
                   list(Present \cup Absent, Pairs, Any), list(Absent, 0, Any),
                   list({TestKey(1)}, 1, Any) >>
           B == [i \in 1 .. Pairs |-> zadd(TestZset, (i - 1) \div 2, i - 1)]
           C == << zrange(TestZset, 0, (Pairs - 1) \div 2, 1,
                          {[member |-> m, score |-> m \div 2] : m \in Members}) >>
           D == [i \in 1 .. Pairs |-> zadd(TestZset, (i - 1) * 2, i - 1)]
           E == << zrange(TestZset, 0, (Pairs - 1) * 2, 1,
                          {[member |-> m, score |-> m * 2] : m \in Members}),
                   zrmv(TestZset, 0), zrange(TestZset, 0, 0, 1, {}) >>
           F == [i \in 1 .. Pairs - 1 |-> zrmv(TestZset, i)]
           G == << zrange(TestZset, 0, 0, 1, {}), del(TestZset), zrange(TestZset, 0, 0, 0, Any) >>
           S == {A[i] : i \in 1 .. 9} \cup {B[i] : i \in 1 .. Pairs} \cup {C[1]}
                  \cup {D[i] : i \in 1 .. Pairs} \cup {E[i] : i \in 1 .. 3}
                  \cup {F[i] : i \in 1 .. Pairs - 1} \cup {G[i] : i \in 1 .. 3}
<1>1. Pairs \in Nat /\ Pairs >= 1
  BY BoundsAssumption
<1>2. Tests = [t \in {0} |-> A \o B \o C \o D \o E \o F \o G]
  BY DEF Tests
<1> HIDE DEF S
<1>3. A \in Seq(S) /\ Len(A) = 9
  <2>1. /\ A[1] \in S /\ A[2] \in S /\ A[3] \in S /\ A[4] \in S /\ A[5] \in S
        /\ A[6] \in S /\ A[7] \in S /\ A[8] \in S /\ A[9] \in S
    BY DEF S
  <2> QED
    BY <2>1
<1>4. C \in Seq(S) /\ Len(C) = 1
  BY DEF S
<1>5. E \in Seq(S) /\ Len(E) = 3
  <2>1. E[1] \in S /\ E[2] \in S /\ E[3] \in S
    <3> HIDE DEF E
    <3> QED
      BY DEF S
  <2>2. Len(E) = 3 /\ DOMAIN E = 1 .. 3 /\ E = [i \in 1 .. 3 |-> E[i]]
    OBVIOUS
  <2> HIDE DEF E
  <2> QED
    BY <2>1, <2>2, IsSeq
<1>6. G \in Seq(S) /\ Len(G) = 3
  BY DEF S
<1>7. B \in Seq(S) /\ Len(B) = Pairs
  <2>1. DOMAIN B = 1 .. Pairs /\ B = [i \in 1 .. Pairs |-> B[i]]
    OBVIOUS
  <2> HIDE DEF B
  <2>2. \A i \in 1 .. Pairs : B[i] \in S
    BY DEF S
  <2> QED
    BY <1>1, <2>1, <2>2, IsSeq
<1>8. D \in Seq(S) /\ Len(D) = Pairs
  <2>1. DOMAIN D = 1 .. Pairs /\ D = [i \in 1 .. Pairs |-> D[i]]
    OBVIOUS
  <2> HIDE DEF D
  <2>2. \A i \in 1 .. Pairs : D[i] \in S
    BY DEF S
  <2> QED
    BY <1>1, <2>1, <2>2, IsSeq
<1>9. F \in Seq(S) /\ Len(F) = Pairs - 1
  BY <1>1 DEF S
<1> DEFINE T == A \o B \o C \o D \o E \o F \o G
<1>10. /\ T \in Seq(S) /\ Len(T) = 3 * Pairs + 15
       /\ \A i \in 1 .. 9 : T[i] = A[i]
       /\ \A i \in 1 .. Pairs : T[9 + i] = B[i]
       /\ T[Pairs + 10] = C[1]
       /\ \A i \in 1 .. Pairs : T[Pairs + 10 + i] = D[i]
       /\ \A i \in 1 .. 3 : T[2 * Pairs + 10 + i] = E[i]
       /\ \A i \in 1 .. Pairs - 1 : T[2 * Pairs + 13 + i] = F[i]
       /\ \A i \in 1 .. 3 : T[3 * Pairs + 12 + i] = G[i]
  <2> HIDE DEF A, B, C, D, E, F, G
  <2> DEFINE T1 == A \o B
             T2 == T1 \o C
             T3 == T2 \o D
             T4 == T3 \o E
             T5 == T4 \o F
  <2>1. T = T5 \o G
    OBVIOUS
  <2> HIDE DEF T1, T2, T3, T4, T5, T
  <2>2. /\ T1 \in Seq(S) /\ Len(T1) = Pairs + 9
        /\ \A i \in 1 .. 9 : T1[i] = A[i]
        /\ \A i \in 1 .. Pairs : T1[9 + i] = B[i]
    <3>1. Joins(T1, S, A, 9, B, Pairs)
      BY <1>1, <1>3, <1>7, ConcatJoins, Zenon DEF T1
    <3> QED
      BY <1>1, <3>1 DEF Joins
  <2>3. /\ T2 \in Seq(S) /\ Len(T2) = Pairs + 10
        /\ \A i \in 1 .. Pairs + 9 : T2[i] = T1[i]
        /\ T2[Pairs + 10] = C[1]
    <3>1. Joins(T2, S, T1, Pairs + 9, C, 1)
      BY <1>1, <1>4, <2>2, ConcatJoins, Zenon DEF T2
    <3> QED
      BY <1>1, <3>1 DEF Joins
  <2>4. /\ T3 \in Seq(S) /\ Len(T3) = 2 * Pairs + 10
        /\ \A i \in 1 .. Pairs + 10 : T3[i] = T2[i]
        /\ \A i \in 1 .. Pairs : T3[Pairs + 10 + i] = D[i]
    <3>1. Joins(T3, S, T2, Pairs + 10, D, Pairs)
      BY <1>1, <1>8, <2>3, ConcatJoins, Zenon DEF T3
    <3> QED
      BY <1>1, <3>1 DEF Joins
  <2>5. /\ T4 \in Seq(S) /\ Len(T4) = 2 * Pairs + 13
        /\ \A i \in 1 .. 2 * Pairs + 10 : T4[i] = T3[i]
        /\ \A i \in 1 .. 3 : T4[2 * Pairs + 10 + i] = E[i]
    <3>1. Joins(T4, S, T3, 2 * Pairs + 10, E, 3)
      BY <1>1, <1>5, <2>4, ConcatJoins, Zenon DEF T4
    <3> QED
      BY <1>1, <3>1 DEF Joins
  <2>6. /\ T5 \in Seq(S) /\ Len(T5) = 3 * Pairs + 12
        /\ \A i \in 1 .. 2 * Pairs + 13 : T5[i] = T4[i]
        /\ \A i \in 1 .. Pairs - 1 : T5[2 * Pairs + 13 + i] = F[i]
    <3>1. Joins(T5, S, T4, 2 * Pairs + 13, F, Pairs - 1)
      BY <1>1, <1>9, <2>5, ConcatJoins, Zenon DEF T5
    <3> QED
      BY <1>1, <3>1 DEF Joins
  <2>7. /\ T \in Seq(S) /\ Len(T) = 3 * Pairs + 15
        /\ \A i \in 1 .. 3 * Pairs + 12 : T[i] = T5[i]
        /\ \A i \in 1 .. 3 : T[3 * Pairs + 12 + i] = G[i]
    <3>1. Joins(T, S, T5, 3 * Pairs + 12, G, 3)
      BY <1>1, <1>6, <2>1, <2>6, ConcatJoins, Zenon
    <3> QED
      BY <1>1, <3>1 DEF Joins
  <2>8. \A i \in 1 .. 2 * Pairs + 13 : T[i] = T4[i]
    BY <1>1, <2>6, <2>7
  <2>9. \A i \in 1 .. 2 * Pairs + 10 : T[i] = T3[i]
    BY <1>1, <2>5, <2>8
  <2>10. \A i \in 1 .. Pairs + 10 : T[i] = T2[i]
    BY <1>1, <2>4, <2>9
  <2>11. \A i \in 1 .. Pairs + 9 : T[i] = T1[i]
    BY <1>1, <2>3, <2>10
  <2>12. /\ \A i \in 1 .. 9 : T[i] = A[i]
         /\ \A i \in 1 .. Pairs : T[9 + i] = B[i]
    <3>1. \A i \in 1 .. Pairs : 9 + i \in 1 .. Pairs + 9
      BY <1>1
    <3>2. \A i \in 1 .. 9 : i \in 1 .. Pairs + 9
      BY <1>1
    <3> QED
      BY <2>2, <2>11, <3>1, <3>2
  <2>13. /\ T[Pairs + 10] = C[1]
         /\ \A i \in 1 .. Pairs : T[Pairs + 10 + i] = D[i]
    BY <1>1, <2>3, <2>4, <2>9, <2>10
  <2>14. /\ \A i \in 1 .. 3 : T[2 * Pairs + 10 + i] = E[i]
         /\ \A i \in 1 .. Pairs - 1 : T[2 * Pairs + 13 + i] = F[i]
    BY <1>1, <2>5, <2>6, <2>7, <2>8
  <2> QED
    BY <2>7, <2>12, <2>13, <2>14
<1>11. Tests = [t \in {0} |-> T]
  BY <1>2
<1> HIDE DEF T
<1>12. DOMAIN Tests = {0} /\ Tests[0] = T
  BY <1>11
<1>13. DOMAIN T = 1 .. 3 * Pairs + 15
  BY <1>1, <1>10
<1>14. ASSUME NEW i \in 1 .. 3 * Pairs + 15
       PROVE  TestStep(i, T[i])
  <2> HIDE DEF S
  <2>1. CASE i \in 1 .. 9
    <3>1. T[i] = A[i]
      BY <1>10, <2>1
    <3> QED
      BY <2>1, <3>1 DEF TestStep
  <2>2. CASE i \in 10 .. Pairs + 9
    <3>1. i - 9 \in 1 .. Pairs /\ i - 10 \in Members /\ i = 9 + (i - 9) /\ i = 10 + (i - 10)
      BY <1>1, <2>2 DEF Members
    <3>2. T[i] = B[i - 9]
      <4> HIDE DEF A, B, C, D, E, F, G
      <4>1. \A x \in 1 .. Pairs : T[9 + x] = B[x]
        BY <1>10
      <4> QED
        BY <3>1, <4>1
    <3>3. B[i - 9] = zadd(TestZset, (i - 10) \div 2, i - 10)
      BY <3>1
    <3> HIDE DEF B
    <3> QED
      BY <3>1, <3>2, <3>3 DEF TestStep
  <2>3. CASE i = Pairs + 10
    BY <1>10, <2>3 DEF TestStep
  <2>4. CASE i \in Pairs + 11 .. 2 * Pairs + 10
    <3>1. /\ i - (Pairs + 10) \in 1 .. Pairs /\ i - (Pairs + 11) \in Members
          /\ i = Pairs + 10 + (i - (Pairs + 10)) /\ i = Pairs + 11 + (i - (Pairs + 11))
      BY <1>1, <2>4 DEF Members
    <3>2. T[i] = D[i - (Pairs + 10)]
      <4> HIDE DEF A, B, C, D, E, F, G
      <4>1. \A x \in 1 .. Pairs : T[Pairs + 10 + x] = D[x]
        BY <1>10
      <4> QED
        BY <3>1, <4>1
    <3>3. D[i - (Pairs + 10)] = zadd(TestZset, (i - (Pairs + 11)) * 2, i - (Pairs + 11))
      BY <1>1, <3>1
    <3> HIDE DEF D
    <3> QED
      BY <3>1, <3>2, <3>3 DEF TestStep
  <2>5. CASE i \in 2 * Pairs + 11 .. 2 * Pairs + 13
    <3>1. /\ T[2 * Pairs + 11] = E[1] /\ T[2 * Pairs + 12] = E[2]
          /\ T[2 * Pairs + 13] = E[3]
      <4>1. /\ T[2 * Pairs + 10 + 1] = E[1] /\ T[2 * Pairs + 10 + 2] = E[2]
            /\ T[2 * Pairs + 10 + 3] = E[3]
        <5> HIDE DEF E
        <5> QED
          BY <1>10
      <4>2. /\ 2 * Pairs + 10 + 1 = 2 * Pairs + 11 /\ 2 * Pairs + 10 + 2 = 2 * Pairs + 12
            /\ 2 * Pairs + 10 + 3 = 2 * Pairs + 13
        BY <1>1
      <4> HIDE DEF E
      <4> QED
        BY <4>1, <4>2
    <3>2. i \in {2 * Pairs + 11, 2 * Pairs + 12, 2 * Pairs + 13}
      BY <1>1, <2>5
    <3> QED
      BY <3>1, <3>2 DEF TestStep
  <2>6. CASE i \in 2 * Pairs + 14 .. 3 * Pairs + 12
    <3>1. /\ i - (2 * Pairs + 13) \in 1 .. Pairs - 1
          /\ i - (2 * Pairs + 13) \in Members \ {0}
          /\ i = 2 * Pairs + 13 + (i - (2 * Pairs + 13))
      BY <1>1, <2>6 DEF Members
    <3>2. T[i] = F[i - (2 * Pairs + 13)]
      <4> HIDE DEF A, B, C, D, E, F, G
      <4>1. \A x \in 1 .. Pairs - 1 : T[2 * Pairs + 13 + x] = F[x]
        BY <1>10
      <4> QED
        BY <3>1, <4>1
    <3>3. F[i - (2 * Pairs + 13)] = zrmv(TestZset, i - (2 * Pairs + 13))
      BY <3>1
    <3> HIDE DEF F
    <3> QED
      BY <3>1, <3>2, <3>3 DEF TestStep
  <2>7. CASE i \in 3 * Pairs + 13 .. 3 * Pairs + 15
    <3>1. /\ T[3 * Pairs + 13] = G[1] /\ T[3 * Pairs + 14] = G[2]
          /\ T[3 * Pairs + 15] = G[3]
      <4>1. /\ T[3 * Pairs + 12 + 1] = G[1] /\ T[3 * Pairs + 12 + 2] = G[2]
            /\ T[3 * Pairs + 12 + 3] = G[3]
        <5> HIDE DEF G
        <5> QED
          BY <1>10
      <4>2. /\ 3 * Pairs + 12 + 1 = 3 * Pairs + 13 /\ 3 * Pairs + 12 + 2 = 3 * Pairs + 14
            /\ 3 * Pairs + 12 + 3 = 3 * Pairs + 15
        BY <1>1
      <4> HIDE DEF G
      <4> QED
        BY <4>1, <4>2
    <3>2. i \in {3 * Pairs + 13, 3 * Pairs + 14, 3 * Pairs + 15}
      BY <1>1, <2>7
    <3> QED
      BY <3>1, <3>2 DEF TestStep
  <2> QED
    BY <1>1, <2>1, <2>2, <2>3, <2>4, <2>5, <2>6, <2>7
<1> QED
  BY <1>10, <1>12, <1>13, <1>14

\* The steps of each phase.
ProgramStep(p, t, i, s) ==
    \/ p = 0 /\ t = 0 /\ i \in 1 .. 3 * Pairs + 15 /\ TestStep(i, s)
    \/ p = 1 /\ t \in Tasks /\ i = 1 /\ s = add(BenchKey(t), "a")
    \/ p = 2 /\ t \in Tasks /\ i = 1 /\ s = query(BenchKey(t), 1, Any)
    \/ p = 3 /\ t \in Tasks /\ i = 1 /\ s = del(BenchKey(t))
    \/ p = 4 /\ t \in Chunks /\ i = 1 /\ s = batch(ChunkKeys(t), "a")
    \/ p = 5 /\ t = 0 /\ i \in Chunks /\ s = list(ChunkKeys(i), Cardinality(ChunkKeys(i)), Any)
    \/ p = 6 /\ t \in Tasks /\ i = 1 /\ s = zadd(BenchZset(t), t, t)
    \/ p = 7 /\ t \in Tasks /\ i = 1 /\ s = zrange(BenchZset(t), t, t, 1, Any)
    \/ p = 8 /\ t \in Tasks /\ i = 1 /\ s = zrmv(BenchZset(t), t)
    \/ p = 9 /\ t \in Tasks /\ i = 1 /\ s = del(BenchKey(t))
    \/ p = 9 /\ t \in Tasks /\ i = 2 /\ s = del(BenchZset(t))

\* The tasks of phase p, and how many steps each has.
Spawned(p) == IF p \in {0, 5} THEN {0} ELSE IF p = 4 THEN Chunks ELSE Tasks
Steps(p) == IF p = 0 THEN 3 * Pairs + 15
            ELSE IF p = 5 THEN (n + Chunk - 1) \div Chunk
            ELSE IF p = 9 THEN 2 ELSE 1

LEMMA ProgramSteps ==
    ASSUME NEW p \in 0 .. 9
    PROVE  /\ DOMAIN Program[p + 1] = Spawned(p) /\ Steps(p) \in Nat
           /\ \A t \in Spawned(p) :
                /\ Len(Program[p + 1][t]) = Steps(p)
                /\ DOMAIN Program[p + 1][t] = 1 .. Steps(p)
                /\ \A i \in 1 .. Steps(p) : ProgramStep(p, t, i, Program[p + 1][t][i])
<1>1. CASE p = 0
  <2>1. Pairs \in Nat
    BY BoundsAssumption
  <2> QED
    BY <1>1, <2>1, ProgramAt, TestSteps DEF Spawned, Steps, ProgramStep
<1>2. CASE p = 5
  <2> DEFINE top == (n + Chunk - 1) \div Chunk
  <2>1. top \in Nat
    BY BoundsAssumption
  <2>2. Chunks = 1 .. top
    BY DEF Chunks
  <2> HIDE DEF top
  <2>3. /\ DOMAIN BenchList = {0} /\ DOMAIN BenchList[0] = 1 .. top /\ Len(BenchList[0]) = top
        /\ \A i \in 1 .. top :
             BenchList[0][i] = list(ChunkKeys(i), Cardinality(ChunkKeys(i)), Any)
    BY <2>1, <2>2 DEF BenchList
  <2>4. Program[p + 1] = BenchList /\ Spawned(p) = {0} /\ Steps(p) = top
    BY <1>2, ProgramAt DEF Spawned, Steps, top
  <2> QED
    BY <1>2, <2>1, <2>2, <2>3, <2>4 DEF ProgramStep
<1>3. CASE p \in {1, 2, 3}
  <2>1. CASE p = 1
    BY <2>1, ProgramAt DEF Spawned, Steps, ProgramStep, BenchAdd
  <2>2. CASE p = 2
    BY <2>2, ProgramAt DEF Spawned, Steps, ProgramStep, BenchQuery
  <2>3. CASE p = 3
    BY <2>3, ProgramAt DEF Spawned, Steps, ProgramStep, BenchDel
  <2> QED
    BY <1>3, <2>1, <2>2, <2>3
<1>4. CASE p = 4
  BY <1>4, ProgramAt DEF Spawned, Steps, ProgramStep, BenchBatch
<1>5. CASE p \in {6, 7, 8}
  <2>1. CASE p = 6
    BY <2>1, ProgramAt DEF Spawned, Steps, ProgramStep, BenchZadd
  <2>2. CASE p = 7
    BY <2>2, ProgramAt DEF Spawned, Steps, ProgramStep, BenchZrange
  <2>3. CASE p = 8
    BY <2>3, ProgramAt DEF Spawned, Steps, ProgramStep, BenchZrmv
  <2> QED
    BY <1>5, <2>1, <2>2, <2>3
<1>6. CASE p = 9
  BY <1>6, ProgramAt DEF Spawned, Steps, ProgramStep, Cleanup
<1> QED
  BY <1>1, <1>2, <1>3, <1>4, <1>5, <1>6

LEMMA SpawnedTasks ==
    ASSUME NEW p
    PROVE  Spawned(p) \subseteq 0 .. n
<1>1. Tasks \subseteq 0 .. n /\ 0 \in 0 .. n
  BY BoundsAssumption DEF Tasks
<1>2. Chunks \subseteq 0 .. n
  BY <1>1, ChunksAreTasks
<1> QED
  BY <1>1, <1>2 DEF Spawned

\* A step is a request the programs send.
LEMMA StepAsked ==
    ASSUME NEW p \in 0 .. 9, NEW t \in Spawned(p), NEW i \in 1 .. Steps(p)
    PROVE  Program[p + 1][t][i].ask \in Requests
<1>1. t \in DOMAIN Program[p + 1] /\ i \in DOMAIN Program[p + 1][t]
  BY ProgramSteps
<1>2. Program[p + 1][t][i].ask \in Asked(Program[p + 1])
  BY <1>1 DEF Asked
<1>3. p + 1 \in DOMAIN Program
  BY ProgramAt
<1> QED
  BY <1>2, <1>3 DEF Requests

\* The keys of a step.
LEMMA StepKeys ==
    ASSUME NEW p \in 0 .. 9, NEW t, NEW i, NEW s, ProgramStep(p, t, i, s)
    PROVE  s.ask.keys \subseteq Keys
<1>1. /\ \A j \in Tasks : BenchKey(j) \in Keys /\ BenchZset(j) \in Keys
      /\ \A c : ChunkKeys(c) \subseteq Keys
  BY DEF Keys, Bench, ChunkKeys
<1>2. /\ Hello \in Keys /\ TestZset \in Keys
      /\ Present \subseteq Keys /\ Absent \subseteq Keys /\ TestKey(1) \in Keys
  BY BoundsAssumption DEF Keys, Present
<1> QED
  BY <1>1, <1>2 DEF ProgramStep, TestStep, Step, Request, add, del, batch, zadd, zrmv, query, list, zrange

-----------------------------------------------------------------------------
(* What the tasks have asked and been answered. *)

Stage == phase % Len(Program)

\* The answers a task has had, and the states of the connections.
PhaseInv ==
    /\ phase \in 0 .. Runs * Len(Program)
    /\ at \in [0 .. n -> Nat]
    /\ \A t \in 0 .. n : at[t] <= IF t \in Spawned(Stage) THEN Steps(Stage) ELSE 0

ConnInv == /\ todo = [c \in Conns |-> todo[c]] /\ ans = [c \in Conns |-> ans[c]]
           /\ \A c \in Conns : arg[c] = NoRequest => todo[c] = {}

\* A task of client.rs asks for its next step only.
AskedInv == \A t \in 0 .. n : arg[t] # NoRequest =>
    /\ phase < Runs * Len(Program)
    /\ t \in Spawned(Stage) /\ at[t] < Steps(Stage)
    /\ arg[t] = Expected(t).ask
    /\ todo[t] \subseteq arg[t].keys

BatchInv == \A g \in Batches : /\ arg[g] \in {NoRequest, Forever}
                               /\ todo[g] \subseteq Forever.keys

TInv == PhaseInv /\ ConnInv /\ AskedInv /\ BatchInv

LEMMA Mod10 == \A i \in Nat : i % 10 \in 0 .. 9
OBVIOUS

\* The tasks at work and the step each is at.
LEMMA StageType ==
    ASSUME phase \in Nat
    PROVE  /\ Stage \in 0 .. 9 /\ Now = Program[Stage + 1]
           /\ DOMAIN Now = Spawned(Stage)
           /\ \A t \in Spawned(Stage) : Len(Now[t]) = Steps(Stage)
           /\ Steps(Stage) \in Nat
<1>1. Stage \in 0 .. 9 /\ Now = Program[Stage + 1]
  BY ProgramAt DEF Stage, Now
<1> QED
  BY <1>1, ProgramSteps

LEMMA PhaseType ==
    ASSUME PhaseInv
    PROVE  phase \in Nat /\ Runs * Len(Program) \in Nat
BY BoundsAssumption, ProgramAt DEF PhaseInv

LEMMA ExpectedStep ==
    ASSUME PhaseInv, NEW t \in Spawned(Stage), at[t] < Steps(Stage)
    PROVE  /\ ProgramStep(Stage, t, at[t] + 1, Expected(t))
           /\ Expected(t).ask \in Requests
           /\ Expected(t).ask.keys \subseteq Keys
<1>1. phase \in Nat /\ t \in 0 .. n /\ at[t] \in Nat
  BY PhaseType, SpawnedTasks DEF PhaseInv
<1>2. Stage \in 0 .. 9 /\ Steps(Stage) \in Nat
  BY <1>1, StageType
<1>3. at[t] + 1 \in 1 .. Steps(Stage)
  BY <1>1, <1>2
<1>4. Expected(t) = Program[Stage + 1][t][at[t] + 1]
  BY <1>1, StageType DEF Expected
<1>5. ProgramStep(Stage, t, at[t] + 1, Expected(t))
  BY <1>2, <1>3, <1>4, ProgramSteps
<1>6. Expected(t).ask \in Requests
  BY <1>2, <1>3, <1>4, StepAsked
<1> QED
  BY <1>2, <1>5, <1>6, StepKeys

LEMMA Connections ==
    /\ 0 .. n \subseteq Conns /\ Batches \subseteq Conns /\ Conns = (0 .. n) \cup Batches
    /\ (0 .. n) \cap Batches = {}
BY BoundsAssumption DEF Conns, Batches

LEMMA InitTInv == Init => TInv
<1> SUFFICES ASSUME Init PROVE TInv
  OBVIOUS
<1>1. \A c \in Conns : arg[c] = NoRequest /\ todo[c] = {}
  BY DEF Init, Server!Init
<1>2. phase = 0 /\ phase \in Nat /\ Runs * Len(Program) \in Nat
  BY BoundsAssumption, ProgramAt DEF Init
<1>3. PhaseInv
  BY <1>2, StageType DEF Init, PhaseInv
<1>4. ConnInv
  BY <1>1 DEF Init, Server!Init, ConnInv
<1> QED
  BY <1>1, <1>3, <1>4, Connections DEF TInv, AskedInv, BatchInv

\* A step that moves only the connection c.
LEMMA OtherConns ==
    ASSUME TInv, UNCHANGED <<phase, at>>, NEW c \in Conns,
           \A d \in Conns \ {c} : arg'[d] = arg[d] /\ todo'[d] = todo[d]
    PROVE  /\ PhaseInv'
           /\ \A t \in (0 .. n) \ {c} : arg'[t] # NoRequest =>
                /\ phase' < Runs * Len(Program)
                /\ t \in Spawned(Stage)' /\ at'[t] < Steps(Stage)'
                /\ arg'[t] = Expected(t)'.ask
                /\ todo'[t] \subseteq arg'[t].keys
           /\ \A g \in Batches \ {c} : /\ arg'[g] \in {NoRequest, Forever}
                                       /\ todo'[g] \subseteq Forever.keys
<1>1. Stage' = Stage
  BY DEF Stage
<1>2. Now' = Now
  BY DEF Now
<1>3. PhaseInv'
  BY <1>1 DEF TInv, PhaseInv
<1>4. \A t \in 0 .. n : Expected(t)' = Expected(t)
  BY <1>2 DEF Expected
<1> QED
  BY <1>1, <1>3, <1>4, Connections DEF TInv, AskedInv, BatchInv

LEMMA CallTInv ==
    ASSUME TInv, IInv, NEW t \in 0 .. n, Ask(t)
    PROVE  TInv'
<1>1. /\ Running /\ t \in DOMAIN Now /\ ~Ended(t) /\ Call(t, Expected(t).ask)
      /\ UNCHANGED <<phase, at>>
  BY DEF Ask
<1>2. phase \in Nat /\ PhaseInv
  BY PhaseType DEF TInv
<1>3. t \in Spawned(Stage) /\ at[t] # Steps(Stage)
  BY <1>1, <1>2, StageType DEF Ended
<1>4. at[t] < Steps(Stage)
  BY <1>2, <1>3, StageType DEF PhaseInv
<1>5. t \in Conns
  BY Connections
<1>6. /\ arg'[t] = Expected(t).ask /\ todo'[t] = Expected(t).ask.keys
      /\ \A d \in Conns \ {t} : arg'[d] = arg[d] /\ todo'[d] = todo[d]
      /\ todo' = [c \in Conns |-> todo'[c]] /\ UNCHANGED ans
  BY <1>1, <1>5 DEF Call, IInv, ArgInv, TInv, ConnInv
<1>7. Expected(t).ask # NoRequest
  BY <1>2, <1>3, <1>4, ExpectedStep, RequestsAssumption
<1>8. ConnInv'
  BY <1>6, <1>7 DEF TInv, ConnInv
<1>9. Stage' = Stage /\ Expected(t)' = Expected(t) /\ phase' < Runs * Len(Program)
  BY <1>1 DEF Stage, Expected, Now, Running
<1>10. AskedInv'
  BY <1>1, <1>3, <1>4, <1>5, <1>6, <1>9, OtherConns DEF AskedInv
<1>11. t \notin Batches
  BY Connections
<1> QED
  BY <1>1, <1>5, <1>6, <1>8, <1>10, <1>11, OtherConns DEF TInv, BatchInv

LEMMA SendTInv ==
    ASSUME TInv, IInv, SendBatch
    PROVE  TInv'
<1>1. PICK g \in Batches : Call(g, Forever)
  BY DEF SendBatch
<1>2. g \in Conns /\ g \notin 0 .. n /\ UNCHANGED <<phase, at>>
  BY Connections DEF SendBatch
<1>3. /\ arg'[g] = Forever /\ todo'[g] = Forever.keys
      /\ \A d \in Conns \ {g} : arg'[d] = arg[d] /\ todo'[d] = todo[d]
      /\ todo' = [c \in Conns |-> todo'[c]] /\ UNCHANGED ans
  BY <1>1, <1>2 DEF Call, IInv, ArgInv, TInv, ConnInv
<1>4. Forever # NoRequest
  BY RequestsAssumption DEF Requests
<1>5. ConnInv'
  BY <1>3, <1>4 DEF TInv, ConnInv
<1>6. AskedInv'
  BY <1>2, <1>3, OtherConns DEF AskedInv
<1>7. BatchInv'
  BY <1>2, <1>3, OtherConns DEF BatchInv
<1> QED
  BY <1>2, <1>3, <1>5, <1>6, <1>7, OtherConns DEF TInv

\* An answer ends a request.
LEMMA AnswerConn ==
    ASSUME TInv, IInv, NEW c \in Conns, Server!Answer(c)
    PROVE  /\ arg[c] # NoRequest /\ arg'[c] = NoRequest /\ todo[c] = {}
           /\ \A d \in Conns \ {c} : arg'[d] = arg[d] /\ ans'[d] = ans[d]
           /\ UNCHANGED <<strings, zkeys, zsets, todo>>
           /\ ConnInv'
BY DEF Server!Answer, Server!store, IInv, ArgInv, TInv, ConnInv

LEMMA ReceiveTInv ==
    ASSUME TInv, IInv, NEW t \in 0 .. n, Receive(t)
    PROVE  TInv'
<1>1. t \in Conns /\ t \notin Batches
  BY Connections
<1>2. Server!Answer(t) /\ at' = [at EXCEPT ![t] = @ + 1] /\ UNCHANGED phase
  BY DEF Receive
<1>3. /\ arg[t] # NoRequest /\ arg'[t] = NoRequest /\ UNCHANGED todo
      /\ \A d \in Conns \ {t} : arg'[d] = arg[d]
      /\ ConnInv'
  BY <1>1, <1>2, AnswerConn
<1>4. /\ t \in Spawned(Stage) /\ at[t] < Steps(Stage) /\ phase \in Nat /\ at \in [0 .. n -> Nat]
  BY <1>3, PhaseType DEF TInv, AskedInv, PhaseInv
<1>5. at'[t] = at[t] + 1 /\ at' \in [0 .. n -> Nat] /\ \A d \in (0 .. n) \ {t} : at'[d] = at[d]
  BY <1>2, <1>4
<1>6. Stage' = Stage /\ Now' = Now
  BY <1>2 DEF Stage, Now
<1>7. PhaseInv'
  BY <1>2, <1>4, <1>5, <1>6, StageType DEF TInv, PhaseInv
<1>8. AskedInv'
  <2> SUFFICES ASSUME NEW d \in 0 .. n, arg'[d] # NoRequest
               PROVE  /\ phase' < Runs * Len(Program)
                      /\ d \in Spawned(Stage)' /\ at'[d] < Steps(Stage)'
                      /\ arg'[d] = Expected(d)'.ask
                      /\ todo'[d] \subseteq arg'[d].keys
    BY DEF AskedInv
  <2>1. d # t /\ d \in Conns
    BY <1>3, Connections
  <2>2. Expected(d)' = Expected(d)
    BY <1>5, <1>6, <2>1 DEF Expected
  <2> QED
    BY <1>2, <1>3, <1>5, <1>6, <2>1, <2>2 DEF TInv, AskedInv
<1>9. BatchInv'
  BY <1>1, <1>3, Connections DEF TInv, BatchInv
<1> QED
  BY <1>3, <1>7, <1>8, <1>9 DEF TInv

LEMMA BatchEndsTInv ==
    ASSUME TInv, IInv, NEW g \in Batches, BatchEnds(g)
    PROVE  TInv'
<1>1. g \in Conns /\ g \notin 0 .. n /\ Server!Answer(g) /\ UNCHANGED <<phase, at>>
  BY Connections DEF BatchEnds
<1>2. /\ arg'[g] = NoRequest /\ UNCHANGED todo
      /\ \A d \in Conns \ {g} : arg'[d] = arg[d]
      /\ ConnInv'
  BY <1>1, AnswerConn
<1>3. AskedInv'
  BY <1>1, <1>2, OtherConns DEF AskedInv
<1>4. BatchInv'
  BY <1>1, <1>2, OtherConns DEF TInv, BatchInv
<1> QED
  BY <1>1, <1>2, <1>3, <1>4, OtherConns DEF TInv

\* When every task of a phase has ended, none asks.
LEMMA JoinIdle ==
    ASSUME TInv, Join
    PROVE  /\ \A t \in 0 .. n : arg[t] = NoRequest /\ todo[t] = {}
           /\ \A t \in Spawned(Stage) : at[t] = Steps(Stage)
<1>1. phase \in Nat
  BY PhaseType DEF TInv
<1>2. \A t \in Spawned(Stage) : at[t] = Steps(Stage)
  BY <1>1, StageType DEF Join, Ended
<1>3. \A t \in 0 .. n : arg[t] = NoRequest
  <2> SUFFICES ASSUME NEW t \in 0 .. n, arg[t] # NoRequest PROVE FALSE
    OBVIOUS
  <2>1. t \in Spawned(Stage) /\ at[t] < Steps(Stage)
    BY DEF TInv, AskedInv
  <2> QED
    BY <1>1, <1>2, <2>1, StageType
<1> QED
  BY <1>2, <1>3, Connections DEF TInv, ConnInv

LEMMA JoinTInv ==
    ASSUME TInv, Join
    PROVE  TInv'
<1>1. /\ phase' = phase + 1 /\ at' = [t \in 0 .. n |-> 0]
      /\ UNCHANGED <<arg, todo, ans>>
      /\ phase < Runs * Len(Program)
  BY DEF Join, Running, server
<1>2. phase \in Nat /\ Runs * Len(Program) \in Nat
  BY PhaseType DEF TInv
<1>3. phase' \in Nat /\ phase' \in 0 .. Runs * Len(Program)
  BY <1>1, <1>2
<1>4. Steps(Stage)' \in Nat
  <2>1. phase' % 10 \in 0 .. 9
    BY <1>3, Mod10, Zenon
  <2>2. Stage' = phase' % Len(Program)
    BY DEF Stage
  <2>3. Stage' \in 0 .. 9
    BY <2>1, <2>2, ProgramAt
  <2> QED
    BY <2>3, ProgramSteps
<1>5. PhaseInv'
  BY <1>1, <1>3, <1>4 DEF PhaseInv
<1>6. ConnInv' /\ BatchInv'
  BY <1>1 DEF TInv, ConnInv, BatchInv
<1>7. AskedInv'
  BY <1>1, JoinIdle DEF AskedInv
<1> QED
  BY <1>5, <1>6, <1>7 DEF TInv

LEMMA ServeTInv ==
    ASSUME TInv, IInv, NEW c \in Conns, Serve(c)
    PROVE  TInv'
<1>1. PICK ks \in SUBSET todo[c] : todo' = [todo EXCEPT ![c] = @ \ ks] /\ Server!Effect(c, ks)
  BY DEF Serve, Server!Apply
<1>2. UNCHANGED <<arg, phase, at>>
  BY DEF Serve, Server!Apply
<1>3. ans' = [d \in Conns |-> ans'[d]]
  BY <1>1 DEF TInv, ConnInv, Server!Effect, Server!Look, Server!Add, Server!Del, Server!ZaddRefused,
              Server!Zadd, Server!Zrmv, Server!Zrange, Server!Answers
<1>4. \A d \in Conns : todo'[d] \subseteq todo[d]
  BY <1>1 DEF TInv, ConnInv
<1>5. todo' = [d \in Conns |-> todo'[d]]
  BY <1>1 DEF TInv, ConnInv
<1>6. ConnInv'
  BY <1>2, <1>3, <1>4, <1>5 DEF TInv, ConnInv
<1>7. Stage' = Stage /\ Now' = Now
  BY <1>2 DEF Stage, Now
<1>8. \A t \in 0 .. n : Expected(t)' = Expected(t)
  BY <1>2, <1>7 DEF Expected
<1>9. PhaseInv'
  BY <1>2, <1>7 DEF TInv, PhaseInv
<1>10. AskedInv'
  BY <1>2, <1>4, <1>7, <1>8, Connections DEF TInv, AskedInv
<1>11. BatchInv'
  BY <1>2, <1>4, Connections DEF TInv, BatchInv
<1> QED
  BY <1>6, <1>9, <1>10, <1>11 DEF TInv

LEMMA SameTInv ==
    ASSUME TInv, UNCHANGED <<arg, todo, ans, phase, at>>
    PROVE  TInv'
<1>1. Stage' = Stage /\ Now' = Now
  BY DEF Stage, Now
<1>2. \A t \in 0 .. n : Expected(t)' = Expected(t)
  BY <1>1 DEF Expected
<1> QED
  BY <1>1, <1>2 DEF TInv, PhaseInv, ConnInv, AskedInv, BatchInv

LEMMA StepTInv == TInv /\ IInv /\ [Next]_vars => TInv'
<1> SUFFICES ASSUME TInv, IInv, [Next]_vars PROVE TInv'
  OBVIOUS
<1>1. CASE Work
  <2>1. CASE \E t \in Tasks : Acquire(t)
    BY <2>1, SameTInv DEF Acquire, server
  <2>2. CASE \E t \in 0 .. n : Ask(t)
    BY <2>2, CallTInv
  <2>3. CASE \E t \in 0 .. n : Receive(t)
    BY <2>3, ReceiveTInv
  <2>4. CASE Join
    BY <2>4, JoinTInv
  <2> QED
    BY <1>1, <2>1, <2>2, <2>3, <2>4 DEF Work
<1>2. CASE WorkServed \/ BatchesServed
  BY <1>2, Connections, ServeTInv DEF WorkServed, BatchesServed
<1>3. CASE SendBatch
  BY <1>3, SendTInv
<1>4. CASE BatchesEnd
  BY <1>4, BatchEndsTInv DEF BatchesEnd
<1>5. CASE \E g \in Batches : Break(g)
  BY <1>5, SameTInv DEF Break, server
<1>6. CASE UNCHANGED vars
  BY <1>6, SameTInv DEF vars, server
<1> QED
  BY <1>1, <1>2, <1>3, <1>4, <1>5, <1>6 DEF Next

\* What a client asks is one of the requests, of keys of the store.
LEMMA ArgType ==
    ASSUME TInv, NEW c \in Conns
    PROVE  /\ arg[c] \in Requests \cup {NoRequest}
           /\ todo[c] \subseteq Keys
<1>1. CASE c \in Batches
  <2>1. Forever \in Requests /\ Forever.keys = ChunkKeys(1)
    BY DEF Requests, Forever, batch, Step, Request
  <2>2. ChunkKeys(1) \subseteq Keys
    BY DEF Keys, Bench, ChunkKeys
  <2> QED
    BY <1>1, <2>1, <2>2 DEF TInv, BatchInv
<1>2. CASE c \in 0 .. n /\ arg[c] = NoRequest
  BY <1>2 DEF TInv, ConnInv
<1>3. CASE c \in 0 .. n /\ arg[c] # NoRequest
  BY <1>3, ExpectedStep DEF TInv, AskedInv
<1> QED
  BY <1>1, <1>2, <1>3, Connections

\* The semaphores, tasks and requests of both programs keep their types: no
\* semaphore ever has more permits than it was made with, and no task is
\* answered more often than it asks, for any number of keys, pairs and permits
\* (client.rs:324-336, batch-forever.rs:56-70).
THEOREM TypeCorrect == Spec => []TypeOK
<1>1. IInv /\ TInv /\ panicked \in BOOLEAN => TypeOK
  <2> SUFFICES ASSUME IInv, TInv, panicked \in BOOLEAN PROVE TypeOK
    OBVIOUS
  <2>1. phase \in 0 .. Runs * Len(Program) /\ at \in [0 .. n -> Nat]
    BY DEF TInv, PhaseInv
  <2>2. \A t \in 0 .. n : at[t] <= IF t \in DOMAIN Now THEN Len(Now[t]) ELSE 0
    BY PhaseType, StageType DEF TInv, PhaseInv
  <2>3. sema \in 0 .. Slots
    BY SubsetsFinite, BoundsAssumption DEF IInv, HoldsInv, SlotsInv
  <2> QED
    BY <2>1, <2>2, <2>3, ArgType DEF IInv, HoldsInv, SlotsInv, TypeOK
<1>2. Init => panicked \in BOOLEAN
  BY DEF Init
<1>3. panicked \in BOOLEAN /\ [Next]_vars => (panicked \in BOOLEAN)'
  BY DEF Next, Work, WorkServed, BatchesServed, BatchesEnd, Acquire, Ask, Receive, Join, Serve,
         SendBatch, BatchEnds, Break, vars
<1> QED
  BY <1>1, <1>2, <1>3, InitInv, StepInv, InitTInv, StepTInv, PTL DEF Spec

-----------------------------------------------------------------------------
(* What a step may do to a key. *)

\* How many steps of task t have taken effect on key k.
Prog(t, k) == IF arg[t] # NoRequest /\ k \in arg[t].keys \ todo[t] THEN at[t] + 1 ELSE at[t]

\* A step leaves key k alone, or request r of connection c takes effect on it.
SameKey(k) == /\ strings'[k] = strings[k]
              /\ k \in zkeys' <=> k \in zkeys
              /\ zsets'[k] = zsets[k]
Emptied(k) == k \notin zkeys' /\ zsets'[k] = {}
Takes(c, k, r) ==
    \/ /\ r.op \in {"query", "list"} /\ SameKey(k)
       /\ ans'[c][k] = IF strings[k] = Missing THEN Server!NotFound
                       ELSE Server!Result("200", strings[k], {})
    \/ /\ r.op \in {"add", "batch"} /\ strings'[k] = r.data /\ Emptied(k)
       /\ ans'[c][k] = Server!Ok
    \/ r.op = "del" /\ strings'[k] = Missing /\ Emptied(k) /\ ans'[c][k] = Server!Ok
    \/ r.op = "zadd" /\ strings[k] # Missing /\ SameKey(k)
    \/ /\ r.op = "zadd" /\ strings[k] = Missing /\ strings'[k] = strings[k] /\ k \in zkeys'
       /\ zsets'[k] = {e \in zsets[k] : e.member # r.member}
                        \cup {[member |-> r.member, score |-> r.score]}
       /\ ans'[c][k] = Server!Ok
    \/ /\ r.op = "zrmv" /\ strings'[k] = strings[k] /\ (k \in zkeys' <=> k \in zkeys)
       /\ zsets'[k] = {e \in zsets[k] : e.member # r.member}
       /\ ans'[c][k] = Server!Ok
    \/ /\ r.op = "zrange" /\ SameKey(k)
       /\ ans'[c][k] = IF k \in zkeys
                       THEN Server!Result("200", Missing, Server!Range(zsets[k], r.score, r.max_score))
                       ELSE Server!NotFound

LEMMA EffectTakes ==
    ASSUME ConnInv, NEW c \in Conns, NEW r, arg[c] = r, NEW ks, ks \subseteq Keys,
           r.op \in {"zadd", "zrmv", "zrange"} => \E k : ks \subseteq {k},
           Server!Effect(c, ks)
    PROVE  /\ \A k \in ks : Takes(c, k, r)
           /\ \A k \in Keys \ ks : SameKey(k) /\ ans'[c][k] = ans[c][k]
           /\ \A d \in Conns \ {c} : ans'[d] = ans[d]
<1>1. ans = [d \in Conns |-> ans[d]]
  BY DEF ConnInv
<1>2. CASE Server!Look(c, ks)
  BY <1>1, <1>2 DEF Server!Look, Server!store, Takes, SameKey
<1>3. CASE Server!Add(c, ks)
  BY <1>1, <1>3 DEF Server!Add, Server!Answers, Server!Put, Takes, SameKey, Emptied
<1>4. CASE Server!Del(c, ks)
  BY <1>1, <1>4 DEF Server!Del, Server!Answers, Server!Put, Takes, SameKey, Emptied
<1>5. ASSUME NEW k \in ks, \/ Server!ZaddRefused(c, k) \/ Server!Zadd(c, k)
                           \/ Server!Zrmv(c, k) \/ Server!Zrange(c, k)
      PROVE  /\ Takes(c, k, r) /\ ks = {k}
             /\ \A l \in Keys \ {k} : SameKey(l) /\ ans'[c][l] = ans[c][l]
             /\ \A d \in Conns \ {c} : ans'[d] = ans[d]
  <2>0. k \in Keys
    OBVIOUS
  <2>1. CASE Server!ZaddRefused(c, k)
    BY <1>1, <2>0, <2>1 DEF Server!ZaddRefused, Server!Answers, Server!Put, Server!store, Takes, SameKey
  <2>2. CASE Server!Zadd(c, k)
    <3>1. Takes(c, k, r)
      BY <1>1, <2>0, <2>2 DEF Server!Zadd, Server!Answers, Server!Put, Server!Others, Takes
    <3> QED
      BY <1>1, <2>0, <2>2, <3>1 DEF Server!Zadd, Server!Answers, Server!Put, SameKey
  <2>3. CASE Server!Zrmv(c, k)
    <3>1. Takes(c, k, r)
      BY <1>1, <2>0, <2>3 DEF Server!Zrmv, Server!Answers, Server!Put, Server!Others, Takes
    <3> QED
      BY <1>1, <2>0, <2>3, <3>1 DEF Server!Zrmv, Server!Answers, Server!Put, SameKey
  <2>4. CASE Server!Zrange(c, k)
    BY <1>1, <2>0, <2>4 DEF Server!Zrange, Server!Answers, Server!Put, Server!store, Takes, SameKey
  <2> QED
    BY <1>5, <2>1, <2>2, <2>3, <2>4
<1> QED
  BY <1>2, <1>3, <1>4, <1>5 DEF Server!Effect

\* The request of a step on a sorted set has one key.
LEMMA SingleKey ==
    ASSUME NEW p, NEW t, NEW i, NEW s, ProgramStep(p, t, i, s),
           s.ask.op \in {"zadd", "zrmv", "zrange"}
    PROVE  \E k : s.ask.keys = {k}
<1>1. /\ \A k, lo, m : zadd(k, lo, m).ask.keys = {k}
      /\ \A k, m : zrmv(k, m).ask.keys = {k}
      /\ \A k, lo, hi, f, es : zrange(k, lo, hi, f, es).ask.keys = {k}
  BY DEF Step, Request, zadd, zrmv, zrange
<1>2. /\ \A k, x : add(k, x).ask.op = "add"
      /\ \A k, x : batch(k, x).ask.op = "batch"
      /\ \A k : del(k).ask.op = "del"
      /\ \A k, f, x : query(k, f, x).ask.op = "query"
      /\ \A k, f, x : list(k, f, x).ask.op = "list"
  BY DEF Step, Request, add, del, batch, query, list
<1>3. CASE p = 0 /\ TestStep(i, s)
  BY <1>1, <1>2, <1>3 DEF TestStep
<1>4. /\ s = zadd(BenchZset(t), t, t) => s.ask.keys = {BenchZset(t)}
      /\ s = zrange(BenchZset(t), t, t, 1, Any) => s.ask.keys = {BenchZset(t)}
      /\ s = zrmv(BenchZset(t), t) => s.ask.keys = {BenchZset(t)}
  BY <1>1
<1>5. CASE \/ s = add(BenchKey(t), "a") \/ s = query(BenchKey(t), 1, Any)
          \/ s = del(BenchKey(t)) \/ s = del(BenchZset(t))
  BY <1>2, <1>5
<1>6. CASE \/ s = batch(ChunkKeys(t), "a")
          \/ s = list(ChunkKeys(i), Cardinality(ChunkKeys(i)), Any)
  BY <1>2, <1>6
<1> QED
  BY <1>3, <1>4, <1>5, <1>6 DEF ProgramStep

\* What a step other than Join may do to a key whose steps are those of task t.
Forced(k) == k \in Forever.keys /\ strings'[k] = "a" /\ Emptied(k)
Moves(t, k) ==
    \/ SameKey(k) /\ Prog(t, k)' = Prog(t, k)
    \/ /\ SameKey(k) /\ Prog(t, k)' = Prog(t, k) + 1
       /\ \E s : ProgramStep(Stage, t, Prog(t, k) + 1, s) /\ k \notin s.ask.keys
    \/ /\ Prog(t, k)' = Prog(t, k) + 1
       /\ \E s : /\ ProgramStep(Stage, t, Prog(t, k) + 1, s)
                 /\ k \in s.ask.keys /\ Takes(t, k, s.ask)
    \/ Forced(k) /\ Prog(t, k)' = Prog(t, k)

Belongs(k, t) == \A u, i, s : ProgramStep(Stage, u, i, s) /\ k \in s.ask.keys => u = t

LEMMA ServeTask ==
    ASSUME TInv, IInv, NEW c \in 0 .. n, Serve(c)
    PROVE  \E ks \in SUBSET todo[c] :
             /\ arg[c] # NoRequest /\ ks \subseteq Keys /\ ks \subseteq arg[c].keys
             /\ UNCHANGED <<arg, phase, at>>
             /\ todo'[c] = todo[c] \ ks
             /\ \A d \in Conns \ {c} : todo'[d] = todo[d] /\ ans'[d] = ans[d]
             /\ ProgramStep(Stage, c, at[c] + 1, Expected(c)) /\ arg[c] = Expected(c).ask
             /\ \A k \in ks : Takes(c, k, arg[c])
             /\ \A k \in Keys \ ks : SameKey(k) /\ ans'[c][k] = ans[c][k]
<1>0. c \in Conns /\ ConnInv
  BY Connections DEF TInv
<1>1. PICK ks \in SUBSET todo[c] : /\ ks # {} /\ todo' = [todo EXCEPT ![c] = @ \ ks]
                                   /\ Server!Effect(c, ks)
  BY DEF Serve, Server!Apply
<1>2. UNCHANGED <<arg, phase, at>>
  BY DEF Serve, Server!Apply
<1>3. arg[c] # NoRequest
  BY <1>0, <1>1 DEF ConnInv
<1>4. /\ ProgramStep(Stage, c, at[c] + 1, Expected(c)) /\ arg[c] = Expected(c).ask
      /\ todo[c] \subseteq arg[c].keys /\ arg[c].keys \subseteq Keys
  BY <1>3, ExpectedStep DEF TInv, AskedInv
<1>5. arg[c].op \in {"zadd", "zrmv", "zrange"} => \E k : ks \subseteq {k}
  BY <1>1, <1>4, SingleKey
<1>6. /\ \A k \in ks : Takes(c, k, arg[c])
      /\ \A k \in Keys \ ks : SameKey(k) /\ ans'[c][k] = ans[c][k]
      /\ \A d \in Conns \ {c} : ans'[d] = ans[d]
  BY <1>0, <1>1, <1>4, <1>5, EffectTakes
<1>7. /\ todo'[c] = todo[c] \ ks
      /\ \A d \in Conns \ {c} : todo'[d] = todo[d]
  BY <1>0, <1>1 DEF ConnInv
<1> QED
  BY <1>1, <1>2, <1>3, <1>4, <1>6, <1>7

LEMMA ServeBatch ==
    ASSUME TInv, IInv, NEW g \in Batches, Serve(g)
    PROVE  /\ UNCHANGED <<arg, phase, at>>
           /\ \A k \in Keys : SameKey(k) \/ Forced(k)
           /\ \A t \in 0 .. n : todo'[t] = todo[t] /\ ans'[t] = ans[t]
<1>0. g \in Conns /\ g \notin 0 .. n /\ ConnInv /\ 0 .. n \subseteq Conns
  BY Connections DEF TInv
<1>1. PICK ks \in SUBSET todo[g] : /\ ks # {} /\ todo' = [todo EXCEPT ![g] = @ \ ks]
                                   /\ Server!Effect(g, ks)
  BY DEF Serve, Server!Apply
<1>2. UNCHANGED <<arg, phase, at>>
  BY DEF Serve, Server!Apply
<1>3. arg[g] = Forever /\ ks \subseteq Forever.keys
  BY <1>0, <1>1 DEF ConnInv, TInv, BatchInv
<1>4. Forever.op = "batch" /\ Forever.data = "a" /\ Forever.keys \subseteq Keys
  BY DEF Forever, batch, Step, Request, Keys, Bench, ChunkKeys
<1>5. /\ \A k \in ks : Takes(g, k, Forever)
      /\ \A k \in Keys \ ks : SameKey(k) /\ ans'[g][k] = ans[g][k]
      /\ \A d \in Conns \ {g} : ans'[d] = ans[d]
  BY <1>0, <1>1, <1>3, <1>4, EffectTakes
<1>6. \A k \in ks : Forced(k)
  BY <1>3, <1>4, <1>5 DEF Takes, Forced
<1>7. \A d \in Conns \ {g} : todo'[d] = todo[d]
  BY <1>0, <1>1 DEF ConnInv
<1> QED
  BY <1>0, <1>2, <1>5, <1>6, <1>7

LEMMA SameProg ==
    ASSUME NEW t, UNCHANGED <<arg, todo, at>>
    PROVE  \A k : Prog(t, k)' = Prog(t, k)
BY DEF Prog

LEMMA AskMoves ==
    ASSUME TInv, IInv, NEW u \in 0 .. n, Ask(u), NEW t \in 0 .. n, NEW k
    PROVE  SameKey(k) /\ Prog(t, k)' = Prog(t, k) /\ UNCHANGED phase
<1>1. /\ Call(u, Expected(u).ask) /\ UNCHANGED <<phase, at>>
      /\ u \in Conns /\ t \in Conns
  BY Connections DEF Ask
<1>2. SameKey(k)
  BY <1>1 DEF Call, SameKey
<1>3. /\ arg[u] = NoRequest /\ arg'[u] = Expected(u).ask /\ todo'[u] = Expected(u).ask.keys
      /\ \A d \in Conns \ {u} : arg'[d] = arg[d] /\ todo'[d] = todo[d]
  BY <1>1 DEF Call, TInv, ConnInv, IInv, ArgInv
<1> QED
  BY <1>1, <1>2, <1>3 DEF Prog

LEMMA SendMoves ==
    ASSUME TInv, IInv, SendBatch, NEW t \in 0 .. n, NEW k
    PROVE  SameKey(k) /\ Prog(t, k)' = Prog(t, k) /\ UNCHANGED phase
<1>1. PICK g \in Batches : Call(g, Forever)
  BY DEF SendBatch
<1>2. /\ UNCHANGED <<phase, at>> /\ g # t /\ g \in Conns /\ t \in Conns
  BY Connections DEF SendBatch
<1>3. SameKey(k)
  BY <1>1 DEF Call, SameKey
<1>4. arg'[t] = arg[t] /\ todo'[t] = todo[t]
  BY <1>1, <1>2 DEF Call, TInv, ConnInv, IInv, ArgInv
<1> QED
  BY <1>2, <1>3, <1>4 DEF Prog

LEMMA EndMoves ==
    ASSUME TInv, IInv, NEW g \in Batches, BatchEnds(g), NEW t \in 0 .. n, NEW k
    PROVE  SameKey(k) /\ Prog(t, k)' = Prog(t, k) /\ UNCHANGED phase
<1>1. /\ Server!Answer(g) /\ UNCHANGED <<phase, at>> /\ g # t /\ g \in Conns /\ t \in Conns
  BY Connections DEF BatchEnds
<1>2. /\ arg'[t] = arg[t] /\ UNCHANGED <<strings, zkeys, zsets, todo>>
  BY <1>1, AnswerConn
<1> QED
  BY <1>1, <1>2 DEF Prog, SameKey

\* An answer is that to the next step of its task.
LEMMA ReceiveStep ==
    ASSUME TInv, IInv, NEW u \in 0 .. n, Receive(u)
    PROVE  /\ arg[u] # NoRequest /\ arg'[u] = NoRequest /\ todo[u] = {} /\ at[u] \in Nat
           /\ arg[u] = Expected(u).ask
           /\ ProgramStep(Stage, u, at[u] + 1, Expected(u))
           /\ at'[u] = at[u] + 1 /\ UNCHANGED <<phase, strings, zkeys, zsets, todo>>
           /\ \A d \in (0 .. n) \ {u} : arg'[d] = arg[d] /\ at'[d] = at[d] /\ ans'[d] = ans[d]
<1>1. u \in Conns /\ 0 .. n \subseteq Conns /\ Server!Answer(u) /\ UNCHANGED phase
  BY Connections DEF Receive
<1>2. /\ arg[u] # NoRequest /\ arg'[u] = NoRequest /\ todo[u] = {}
      /\ \A d \in Conns \ {u} : arg'[d] = arg[d] /\ ans'[d] = ans[d]
      /\ UNCHANGED <<strings, zkeys, zsets, todo>>
  BY <1>1, AnswerConn
<1>3. ProgramStep(Stage, u, at[u] + 1, Expected(u)) /\ arg[u] = Expected(u).ask
  BY <1>2, ExpectedStep DEF TInv, AskedInv
<1>4. at \in [0 .. n -> Nat] /\ at' = [at EXCEPT ![u] = @ + 1]
  BY DEF Receive, TInv, PhaseInv
<1> QED
  BY <1>1, <1>2, <1>3, <1>4

LEMMA ReceiveMoves ==
    ASSUME TInv, IInv, NEW u \in 0 .. n, Receive(u), NEW t \in 0 .. n, NEW k
    PROVE  Moves(t, k) /\ UNCHANGED phase
<1>1. SameKey(k) /\ UNCHANGED phase
  BY ReceiveStep DEF SameKey
<1>2. CASE t # u
  <2>1. Prog(t, k)' = Prog(t, k)
    BY <1>2, ReceiveStep DEF Prog
  <2> QED
    BY <1>1, <2>1 DEF Moves
<1>3. CASE t = u /\ k \in arg[u].keys
  <2>1. Prog(t, k)' = Prog(t, k)
    BY <1>3, ReceiveStep DEF Prog
  <2> QED
    BY <1>1, <2>1 DEF Moves
<1>4. CASE t = u /\ k \notin arg[u].keys
  <2>1. Prog(t, k) = at[u] /\ Prog(t, k)' = at[u] + 1
    BY <1>4, ReceiveStep DEF Prog
  <2>2. ProgramStep(Stage, t, at[u] + 1, Expected(u)) /\ k \notin Expected(u).ask.keys
    BY <1>4, ReceiveStep
  <2> QED
    BY <1>1, <2>1, <2>2 DEF Moves
<1> QED
  BY <1>1, <1>2, <1>3, <1>4

LEMMA TaskMoves ==
    ASSUME TInv, IInv, NEW u \in 0 .. n, Serve(u), NEW t \in 0 .. n, NEW k \in Keys, Belongs(k, t)
    PROVE  Moves(t, k) /\ UNCHANGED phase
<1>1. PICK ks \in SUBSET todo[u] :
             /\ arg[u] # NoRequest /\ ks \subseteq Keys /\ ks \subseteq arg[u].keys
             /\ UNCHANGED <<arg, phase, at>>
             /\ todo'[u] = todo[u] \ ks
             /\ \A d \in Conns \ {u} : todo'[d] = todo[d] /\ ans'[d] = ans[d]
             /\ ProgramStep(Stage, u, at[u] + 1, Expected(u)) /\ arg[u] = Expected(u).ask
             /\ \A l \in ks : Takes(u, l, arg[u])
             /\ \A l \in Keys \ ks : SameKey(l) /\ ans'[u][l] = ans[u][l]
  BY ServeTask
<1>2. t \in Conns
  BY Connections
<1>3. CASE k \in ks
  <2>1. u = t
    BY <1>1, <1>3 DEF Belongs
  <2>2. Prog(t, k) = at[t] /\ Prog(t, k)' = at[t] + 1
    BY <1>1, <1>3, <2>1 DEF Prog
  <2> QED
    BY <1>1, <1>3, <2>1, <2>2 DEF Moves
<1>4. CASE k \notin ks
  <2>1. Prog(t, k)' = Prog(t, k)
    BY <1>1, <1>2, <1>4 DEF Prog
  <2> QED
    BY <1>1, <1>4, <2>1 DEF Moves
<1> QED
  BY <1>1, <1>3, <1>4

LEMMA BatchMoves ==
    ASSUME TInv, IInv, NEW g \in Batches, Serve(g), NEW t \in 0 .. n, NEW k \in Keys
    PROVE  Moves(t, k) /\ UNCHANGED phase
<1>1. Prog(t, k)' = Prog(t, k)
  BY ServeBatch DEF Prog
<1> QED
  BY <1>1, ServeBatch DEF Moves

LEMMA StepMoves ==
    ASSUME TInv, IInv, [Next]_vars, UNCHANGED phase,
           NEW t \in 0 .. n, NEW k \in Keys, Belongs(k, t)
    PROVE  Moves(t, k) /\ Stage' = Stage
<1>0. Stage' = Stage /\ phase + 1 # phase
  BY PhaseType DEF Stage, TInv
<1>1. CASE Work
  <2>1. CASE \E u \in Tasks : Acquire(u)
    BY <1>0, <2>1, SameProg DEF Acquire, server, Moves, SameKey
  <2>2. CASE \E u \in 0 .. n : Ask(u)
    BY <1>0, <2>2, AskMoves DEF Moves
  <2>3. CASE \E u \in 0 .. n : Receive(u)
    BY <1>0, <2>3, ReceiveMoves
  <2>4. CASE Join
    BY <1>0, <2>4 DEF Join
  <2> QED
    BY <1>1, <2>1, <2>2, <2>3, <2>4 DEF Work
<1>2. CASE WorkServed
  BY <1>0, <1>2, TaskMoves DEF WorkServed
<1>3. CASE BatchesServed
  BY <1>0, <1>3, BatchMoves DEF BatchesServed
<1>4. CASE SendBatch
  BY <1>0, <1>4, SendMoves DEF Moves
<1>5. CASE BatchesEnd
  BY <1>0, <1>5, EndMoves DEF BatchesEnd, Moves
<1>6. CASE \E g \in Batches : Break(g)
  BY <1>0, <1>6, SameProg DEF Break, server, Moves, SameKey
<1>7. CASE UNCHANGED vars
  BY <1>0, <1>7, SameProg DEF vars, server, Moves, SameKey
<1> QED
  BY <1>1, <1>2, <1>3, <1>4, <1>5, <1>6, <1>7 DEF Next

\* Join leaves the store alone; its tasks had finished, and those of the next phase begin.
LEMMA JoinMoves ==
    ASSUME TInv, IInv, Join
    PROVE  /\ UNCHANGED <<strings, zkeys, zsets>>
           /\ Stage \in 0 .. 9 /\ Stage' = IF Stage = 9 THEN 0 ELSE Stage + 1
           /\ \A t \in Spawned(Stage) : \A k : Prog(t, k) = Steps(Stage)
           /\ \A t \in 0 .. n : \A k : Prog(t, k)' = 0
<1>1. /\ UNCHANGED <<strings, zkeys, zsets, arg>> /\ phase' = phase + 1
      /\ at' = [t \in 0 .. n |-> 0]
  BY DEF Join, server
<1>2. phase \in Nat
  BY PhaseType DEF TInv
<1>3. Stage = phase % 10 /\ Stage' = phase' % 10
  BY ProgramAt DEF Stage
<1>4. Stage \in 0 .. 9 /\ Stage' = IF Stage = 9 THEN 0 ELSE Stage + 1
  BY <1>1, <1>2, <1>3
<1>5. \A t \in Spawned(Stage) : \A k : Prog(t, k) = Steps(Stage)
  BY JoinIdle, SpawnedTasks DEF Prog
<1>6. \A t \in 0 .. n : \A k : Prog(t, k)' = 0
  BY <1>1, JoinIdle DEF Prog
<1> QED
  BY <1>1, <1>4, <1>5, <1>6

-----------------------------------------------------------------------------
(* Which steps touch which keys. *)

\* The kinds of keys are different.
LEMMA Kinds ==
    /\ \A i, j : TestKey(i) # BenchKey(j)
    /\ \A i, j : TestKey(i) # BenchZset(j)
    /\ \A i, j : BenchKey(i) # BenchZset(j)
    /\ \A i : Hello # TestKey(i) /\ TestZset # TestKey(i)
    /\ \A i : Hello # BenchKey(i) /\ TestZset # BenchKey(i)
    /\ \A i : Hello # BenchZset(i) /\ TestZset # BenchZset(i)
    /\ Hello # TestZset
    /\ \A i, j : TestKey(i) = TestKey(j) => i = j
    /\ \A i, j : BenchKey(i) = BenchKey(j) => i = j
    /\ \A i, j : BenchZset(i) = BenchZset(j) => i = j
BY DEF TestKey, BenchKey, BenchZset, Hello, TestZset

LEMMA KindsOf ==
    /\ Hello \notin Present \cup Absent /\ TestZset \notin Present \cup Absent
    /\ \A j : BenchKey(j) \notin Present \cup Absent /\ BenchZset(j) \notin Present \cup Absent
    /\ TestKey(1) \in Present /\ Present \cap Absent = {}
    /\ \A c : /\ Hello \notin ChunkKeys(c) /\ TestZset \notin ChunkKeys(c)
              /\ \A j : TestKey(j) \notin ChunkKeys(c) /\ BenchZset(j) \notin ChunkKeys(c)
<1> USE Kinds
<1>1. /\ Hello \notin Present \cup Absent /\ TestZset \notin Present \cup Absent
      /\ \A j : BenchKey(j) \notin Present \cup Absent /\ BenchZset(j) \notin Present \cup Absent
  BY DEF Present, Absent
<1>2. TestKey(1) \in Present /\ Present \cap Absent = {}
  BY BoundsAssumption DEF Present, Absent
<1>3. \A c : /\ Hello \notin ChunkKeys(c) /\ TestZset \notin ChunkKeys(c)
             /\ \A j : TestKey(j) \notin ChunkKeys(c) /\ BenchZset(j) \notin ChunkKeys(c)
  BY DEF ChunkKeys
<1> QED
  BY <1>1, <1>2, <1>3

ChunkOf(j) == (j - 1) \div Chunk + 1

LEMMA ChunkOfKey ==
    ASSUME NEW j \in Tasks
    PROVE  /\ ChunkOf(j) \in Chunks /\ ChunkOf(j) \in 1 .. n
           /\ \A c \in Chunks : BenchKey(j) \in ChunkKeys(c) <=> c = ChunkOf(j)
<1>1. ChunkOf(j) \in Chunks /\ BenchKey(j) \in ChunkKeys(ChunkOf(j))
  BY ChunkOfTask DEF ChunkOf
<1>2. ASSUME NEW c \in Chunks, BenchKey(j) \in ChunkKeys(c)
      PROVE  c = ChunkOf(j)
  <2>1. (j - 1) \div Chunk = c - 1
    BY <1>2, Kinds DEF ChunkKeys
  <2>2. c \in Nat /\ (j - 1) \div Chunk \in Int
    BY <2>1 DEF Chunks
  <2> QED
    BY <2>1, <2>2 DEF ChunkOf
<1> QED
  BY <1>1, <1>2, ChunksAreTasks DEF Tasks

\* What the requests ask.
LEMMA Requested ==
    /\ \A k, x : add(k, x).ask.op = "add" /\ add(k, x).ask.keys = {k} /\ add(k, x).ask.data = x
    /\ \A k : del(k).ask.op = "del" /\ del(k).ask.keys = {k}
    /\ \A k, x : batch(k, x).ask.op = "batch" /\ batch(k, x).ask.keys = k /\ batch(k, x).ask.data = x
    /\ \A k, a, m : /\ zadd(k, a, m).ask.op = "zadd" /\ zadd(k, a, m).ask.keys = {k}
                    /\ zadd(k, a, m).ask.score = a /\ zadd(k, a, m).ask.member = m
    /\ \A k, m : /\ zrmv(k, m).ask.op = "zrmv" /\ zrmv(k, m).ask.keys = {k}
                 /\ zrmv(k, m).ask.member = m
    /\ \A k, f, x : query(k, f, x).ask.op = "query" /\ query(k, f, x).ask.keys = {k}
    /\ \A k, f, x : list(k, f, x).ask.op = "list" /\ list(k, f, x).ask.keys = k
    /\ \A k, a, b, f, es :
         /\ zrange(k, a, b, f, es).ask.op = "zrange" /\ zrange(k, a, b, f, es).ask.keys = {k}
         /\ zrange(k, a, b, f, es).ask.score = a /\ zrange(k, a, b, f, es).ask.max_score = b
BY DEF Step, Request, add, del, batch, zadd, zrmv, query, list, zrange

LEMMA TestKeys ==
    ASSUME NEW i \in 1 .. 3 * Pairs + 15, NEW s, TestStep(i, s)
    PROVE  /\ i <= 4 => s.ask.keys = {Hello}
           /\ i \in {5, 6} => s.ask.keys = Present
           /\ i = 7 => s.ask.keys = Present \cup Absent
           /\ i = 8 => s.ask.keys = Absent
           /\ i = 9 => s.ask.keys = {TestKey(1)}
           /\ i >= 10 => s.ask.keys = {TestZset}
<1>1. Pairs \in Nat /\ Pairs >= 1 /\ i \in Nat /\ \A m \in Members : m \in Nat
  BY BoundsAssumption DEF Members
<1>2. CASE i <= 9
  BY <1>1, <1>2, Requested DEF TestStep
<1>3. CASE i >= 10
  BY <1>1, <1>3, Requested DEF TestStep
<1> QED
  BY <1>1, <1>2, <1>3

LEMMA PhaseKeys ==
    ASSUME NEW p, NEW t, NEW i, NEW s, ProgramStep(p, t, i, s)
    PROVE  /\ p \in 0 .. 9
           /\ p = 0 => t = 0 /\ i \in 1 .. 3 * Pairs + 15 /\ TestStep(i, s)
           /\ p \in {1, 2, 3} => t \in Tasks /\ i = 1 /\ s.ask.keys = {BenchKey(t)}
           /\ p = 4 => t \in Chunks /\ i = 1 /\ s.ask.keys = ChunkKeys(t)
           /\ p = 5 => t = 0 /\ i \in Chunks /\ s.ask.keys = ChunkKeys(i)
           /\ p \in {6, 7, 8} => t \in Tasks /\ i = 1 /\ s.ask.keys = {BenchZset(t)}
           /\ p = 9 => /\ t \in Tasks /\ i \in {1, 2}
                       /\ s.ask.keys = {IF i = 1 THEN BenchKey(t) ELSE BenchZset(t)}
<1>1. CASE p = 0
  BY <1>1 DEF ProgramStep
<1>2. CASE p \in 1 .. 9
  BY <1>2, Requested DEF ProgramStep
<1> QED
  BY <1>1, <1>2 DEF ProgramStep

LEMMA TouchHello ==
    ASSUME NEW p, NEW t, NEW i, NEW s, ProgramStep(p, t, i, s)
    PROVE  Hello \in s.ask.keys <=> p = 0 /\ i <= 4
<1>1. CASE p = 0
  BY <1>1, PhaseKeys, TestKeys, Kinds, KindsOf, BoundsAssumption
<1>2. CASE p # 0
  BY <1>2, PhaseKeys, Kinds, KindsOf
<1> QED
  BY <1>1, <1>2

LEMMA TouchPresent ==
    ASSUME NEW p, NEW t, NEW i, NEW s, ProgramStep(p, t, i, s), NEW k \in Present
    PROVE  /\ k \in s.ask.keys => p = 0 /\ i \in {5, 6, 7, 9}
           /\ p = 0 /\ i \in {5, 6, 7} => k \in s.ask.keys
<1>0. PICK j : k = TestKey(j)
  BY DEF Present
<1>1. CASE p = 0
  BY <1>0, <1>1, PhaseKeys, TestKeys, Kinds, KindsOf, BoundsAssumption
<1>2. CASE p # 0
  BY <1>0, <1>2, PhaseKeys, Kinds, KindsOf
<1> QED
  BY <1>1, <1>2

LEMMA TouchAbsent ==
    ASSUME NEW p, NEW t, NEW i, NEW s, ProgramStep(p, t, i, s), NEW k \in Absent
    PROVE  k \in s.ask.keys => p = 0 /\ i \in {7, 8}
<1>0. PICK j : k = TestKey(j)
  BY DEF Absent
<1>1. CASE p = 0
  BY <1>0, <1>1, PhaseKeys, TestKeys, Kinds, KindsOf, BoundsAssumption
<1>2. CASE p # 0
  BY <1>0, <1>2, PhaseKeys, Kinds, KindsOf
<1> QED
  BY <1>1, <1>2

LEMMA TouchTestZset ==
    ASSUME NEW p, NEW t, NEW i, NEW s, ProgramStep(p, t, i, s)
    PROVE  TestZset \in s.ask.keys <=> p = 0 /\ i >= 10
<1>1. CASE p = 0
  BY <1>1, PhaseKeys, TestKeys, Kinds, KindsOf, BoundsAssumption
<1>2. CASE p # 0
  BY <1>2, PhaseKeys, Kinds, KindsOf
<1> QED
  BY <1>1, <1>2

LEMMA TouchBench ==
    ASSUME NEW p, NEW t, NEW i, NEW s, ProgramStep(p, t, i, s), NEW j \in Tasks
    PROVE  BenchKey(j) \in s.ask.keys <=>
             \/ p \in {1, 2, 3, 9} /\ t = j /\ i = 1
             \/ p = 4 /\ t = ChunkOf(j)
             \/ p = 5 /\ i = ChunkOf(j)
<1>1. CASE p = 0
  BY <1>1, PhaseKeys, TestKeys, Kinds, KindsOf, BoundsAssumption
<1>2. CASE p \in {4, 5}
  BY <1>2, PhaseKeys, ChunkOfKey
<1>3. CASE p \in {1, 2, 3, 6, 7, 8, 9}
  BY <1>3, PhaseKeys, Kinds
<1> QED
  BY <1>1, <1>2, <1>3, PhaseKeys

LEMMA TouchBenchZset ==
    ASSUME NEW p, NEW t, NEW i, NEW s, ProgramStep(p, t, i, s), NEW j \in Tasks
    PROVE  BenchZset(j) \in s.ask.keys <=>
             \/ p \in {6, 7, 8} /\ t = j
             \/ p = 9 /\ t = j /\ i = 2
<1>1. CASE p = 0
  BY <1>1, PhaseKeys, TestKeys, Kinds, KindsOf, BoundsAssumption
<1>2. CASE p \in {4, 5}
  BY <1>2, PhaseKeys, KindsOf
<1>3. CASE p \in {1, 2, 3, 6, 7, 8, 9}
  BY <1>3, PhaseKeys, Kinds
<1> QED
  BY <1>1, <1>2, <1>3, PhaseKeys

-----------------------------------------------------------------------------
(* What the store holds: the strings ... *)

\* What the store holds, of each kind of keys: as far as the phase and the steps
\* that have taken effect on the key tell.
HelloInv == strings[Hello] = IF Stage = 0 /\ Prog(0, Hello) \in {1, 2} THEN "world" ELSE Missing
PresentInv == \A k \in Present : /\ strings[k] \in {Missing, "value"}
                                 /\ Stage = 0 /\ Prog(0, k) >= 5 => strings[k] = "value"
BenchIs(j, k) ==
    /\ Stage = 0 => strings[k] = Missing \/ k \in Forever.keys
    /\ Stage = 1 /\ Prog(j, k) >= 1 => strings[k] # Missing
    /\ Stage = 4 /\ Prog(ChunkOf(j), k) >= 1 => strings[k] # Missing
    /\ Stage \in {2, 5} => strings[k] # Missing
    /\ Stage = 9 /\ Prog(j, k) >= 1 => strings[k] = Missing \/ k \in Forever.keys
BenchInv == \A j \in Tasks : BenchIs(j, BenchKey(j))
NoStringInv == \A k \in Keys \ (Present \cup Bench \cup {Hello}) : strings[k] = Missing

LEMMA ProgType ==
    ASSUME TInv, NEW t \in 0 .. n, NEW k
    PROVE  Prog(t, k) \in Nat
BY DEF Prog, TInv, PhaseInv

\* The steps of the tests on strings.
LEMMA TestAt ==
    ASSUME NEW i \in 1 .. 3 * Pairs + 15, NEW s, TestStep(i, s)
    PROVE  /\ i = 1 => s = add(Hello, "world")
           /\ i = 2 => s = query(Hello, 1, "world")
           /\ i = 3 => s = del(Hello)
           /\ i = 4 => s = query(Hello, 0, Any)
           /\ i = 5 => s = batch(Present, "value")
           /\ i = 6 => s = list(Present, Pairs, "value")
           /\ i = 7 => s = list(Present \cup Absent, Pairs, Any)
           /\ i = 8 => s = list(Absent, 0, Any)
           /\ i = 9 => s = list({TestKey(1)}, 1, Any)
<1>1. Pairs \in Nat /\ Pairs >= 1 /\ i \in Nat /\ \A m \in Members : m \in Nat
  BY BoundsAssumption DEF Members
<1> QED
  BY <1>1 DEF TestStep

LEMMA ForeverKeys ==
    /\ Forever.keys = ChunkKeys(1) /\ Forever.keys \subseteq Bench
    /\ Hello \notin Forever.keys /\ TestZset \notin Forever.keys
    /\ Present \cap Forever.keys = {} /\ Absent \cap Forever.keys = {}
    /\ \A j : BenchZset(j) \notin Forever.keys
<1>1. Forever.keys = ChunkKeys(1)
  BY DEF Forever, batch, Step, Request
<1> QED
  BY <1>1, KindsOf DEF ChunkKeys, Bench, Present, Absent

LEMMA HelloStep ==
    ASSUME TInv, TInv', IInv, HelloInv, [Next]_vars, UNCHANGED phase
    PROVE  HelloInv'
<1>1. 0 \in 0 .. n /\ Hello \in Keys
  BY BoundsAssumption DEF Keys
<1>2. Belongs(Hello, 0)
  BY TouchHello, PhaseKeys DEF Belongs
<1>3. Moves(0, Hello) /\ Stage' = Stage
  BY <1>1, <1>2, StepMoves
<1>4. Prog(0, Hello) \in Nat
  BY <1>1, ProgType
<1>5. CASE SameKey(Hello) /\ Prog(0, Hello)' = Prog(0, Hello)
  BY <1>3, <1>5 DEF HelloInv, SameKey
<1>6. CASE /\ SameKey(Hello) /\ Prog(0, Hello)' = Prog(0, Hello) + 1
           /\ \E s : ProgramStep(Stage, 0, Prog(0, Hello) + 1, s) /\ Hello \notin s.ask.keys
  <2>1. ~(Stage = 0 /\ Prog(0, Hello) + 1 <= 4)
    BY <1>6, TouchHello
  <2> QED
    BY <1>3, <1>4, <1>6, <2>1 DEF HelloInv, SameKey
<1>7. ASSUME NEW s, Prog(0, Hello)' = Prog(0, Hello) + 1,
             ProgramStep(Stage, 0, Prog(0, Hello) + 1, s), Hello \in s.ask.keys,
             Takes(0, Hello, s.ask)
      PROVE  HelloInv'
  <2>1. Stage = 0 /\ Prog(0, Hello) + 1 \in 1 .. 4 /\ TestStep(Prog(0, Hello) + 1, s)
    BY <1>4, <1>7, TouchHello, PhaseKeys
  <2>2. Prog(0, Hello) + 1 \in 1 .. 3 * Pairs + 15
    BY <1>7, <2>1, PhaseKeys
  <2>3. \/ Prog(0, Hello) = 0 /\ s = add(Hello, "world")
        \/ Prog(0, Hello) = 1 /\ s = query(Hello, 1, "world")
        \/ Prog(0, Hello) = 2 /\ s = del(Hello)
        \/ Prog(0, Hello) = 3 /\ s = query(Hello, 0, Any)
    BY <1>4, <2>1, <2>2, TestAt
  <2>4. CASE Prog(0, Hello) = 0 /\ s = add(Hello, "world")
    BY <1>3, <1>7, <2>1, <2>4, Requested DEF HelloInv, Takes
  <2>5. CASE Prog(0, Hello) = 1 /\ s = query(Hello, 1, "world")
    BY <1>3, <1>7, <2>1, <2>5, Requested DEF HelloInv, Takes, SameKey
  <2>6. CASE Prog(0, Hello) = 2 /\ s = del(Hello)
    BY <1>3, <1>7, <2>1, <2>6, Requested DEF HelloInv, Takes
  <2>7. CASE Prog(0, Hello) = 3 /\ s = query(Hello, 0, Any)
    BY <1>3, <1>7, <2>1, <2>7, Requested DEF HelloInv, Takes, SameKey
  <2> QED
    BY <2>3, <2>4, <2>5, <2>6, <2>7
<1>8. ~Forced(Hello)
  BY ForeverKeys DEF Forced
<1> QED
  BY <1>3, <1>5, <1>6, <1>7, <1>8 DEF Moves

LEMMA HelloJoin ==
    ASSUME TInv, IInv, HelloInv, Join
    PROVE  HelloInv'
<1>1. 0 \in 0 .. n /\ Pairs \in Nat
  BY BoundsAssumption
<1>2. Stage = 0 => Prog(0, Hello) = 3 * Pairs + 15
  BY JoinMoves DEF Spawned, Steps
<1>3. strings[Hello] = Missing
  BY <1>1, <1>2 DEF HelloInv
<1> QED
  BY <1>1, <1>3, JoinMoves DEF HelloInv

LEMMA PresentStep ==
    ASSUME TInv, TInv', IInv, PresentInv, [Next]_vars, UNCHANGED phase
    PROVE  PresentInv'
<1> SUFFICES ASSUME NEW k \in Present
             PROVE  /\ strings'[k] \in {Missing, "value"}
                    /\ Stage' = 0 /\ Prog(0, k)' >= 5 => strings'[k] = "value"
  BY DEF PresentInv
<1>1. 0 \in 0 .. n /\ k \in Keys
  BY BoundsAssumption DEF Keys
<1>2. Belongs(k, 0)
  BY TouchPresent, PhaseKeys DEF Belongs
<1>3. Moves(0, k) /\ Stage' = Stage
  BY <1>1, <1>2, StepMoves
<1>4. Prog(0, k) \in Nat
  BY <1>1, ProgType
<1>5. CASE SameKey(k) /\ Prog(0, k)' = Prog(0, k)
  BY <1>3, <1>5 DEF PresentInv, SameKey
<1>6. CASE /\ SameKey(k) /\ Prog(0, k)' = Prog(0, k) + 1
           /\ \E s : ProgramStep(Stage, 0, Prog(0, k) + 1, s) /\ k \notin s.ask.keys
  <2>1. ~(Stage = 0 /\ Prog(0, k) + 1 = 5)
    BY <1>6, TouchPresent
  <2> QED
    BY <1>3, <1>4, <1>6, <2>1 DEF PresentInv, SameKey
<1>7. ASSUME NEW s, Prog(0, k)' = Prog(0, k) + 1,
             ProgramStep(Stage, 0, Prog(0, k) + 1, s), k \in s.ask.keys, Takes(0, k, s.ask)
      PROVE  /\ strings'[k] \in {Missing, "value"}
             /\ Stage' = 0 /\ Prog(0, k)' >= 5 => strings'[k] = "value"
  <2>1. /\ Stage = 0 /\ Prog(0, k) + 1 \in {5, 6, 7, 9} /\ TestStep(Prog(0, k) + 1, s)
        /\ Prog(0, k) + 1 \in 1 .. 3 * Pairs + 15
    BY <1>4, <1>7, TouchPresent, PhaseKeys
  <2>2. CASE s = batch(Present, "value")
    BY <1>7, <2>2, Requested DEF Takes
  <2>3. CASE Prog(0, k) >= 5 /\ s.ask.op = "list"
    BY <1>3, <1>7, <2>1, <2>3 DEF PresentInv, Takes, SameKey
  <2> QED
    BY <1>4, <2>1, <2>2, <2>3, TestAt, Requested
<1>8. ~Forced(k)
  BY ForeverKeys DEF Forced
<1> QED
  BY <1>3, <1>5, <1>6, <1>7, <1>8 DEF Moves

LEMMA PresentJoin ==
    ASSUME TInv, IInv, PresentInv, Join
    PROVE  PresentInv'
<1>1. 0 \in 0 .. n
  BY BoundsAssumption
<1> QED
  BY <1>1, JoinMoves DEF PresentInv

\* No step adds a string anywhere else.
LEMMA NoStringStep ==
    ASSUME TInv, TInv', IInv, NoStringInv, [Next]_vars, UNCHANGED phase
    PROVE  NoStringInv'
<1> SUFFICES ASSUME NEW k \in Keys \ (Present \cup Bench \cup {Hello})
             PROVE  strings'[k] = Missing
  BY DEF NoStringInv
<1>0. strings[k] = Missing
  BY DEF NoStringInv
<1>1. ASSUME NEW t \in 0 .. n, Belongs(k, t),
             \A i, s : ProgramStep(Stage, t, i, s) /\ k \in s.ask.keys
                         => s.ask.op \in {"list", "del", "zadd", "zrmv", "zrange"}
      PROVE  strings'[k] = Missing
  <2>1. Moves(t, k)
    BY <1>1, StepMoves
  <2>2. CASE SameKey(k)
    BY <1>0, <2>2 DEF SameKey
  <2>3. ASSUME NEW s, ProgramStep(Stage, t, Prog(t, k) + 1, s), k \in s.ask.keys, Takes(t, k, s.ask)
        PROVE  strings'[k] = Missing
    <3>1. s.ask.op \in {"list", "del", "zadd", "zrmv", "zrange"}
      BY <1>1, <2>3
    <3> QED
      BY <1>0, <2>3, <3>1 DEF Takes, SameKey
  <2>4. ~Forced(k)
    BY ForeverKeys DEF Forced
  <2> QED
    BY <2>1, <2>2, <2>3, <2>4 DEF Moves
<1>2. CASE k \in Absent
  <2>1. Belongs(k, 0)
    BY <1>2, TouchAbsent, PhaseKeys DEF Belongs
  <2>2. ASSUME NEW i, NEW s, ProgramStep(Stage, 0, i, s), k \in s.ask.keys
        PROVE  s.ask.op = "list"
    BY <1>2, <2>2, TouchAbsent, PhaseKeys, TestAt, Requested
  <2> QED
    BY <1>1, <2>1, <2>2, BoundsAssumption
<1>3. CASE k = TestZset
  <2>1. Belongs(k, 0)
    BY <1>3, TouchTestZset, PhaseKeys DEF Belongs
  <2>2. ASSUME NEW i, NEW s, ProgramStep(Stage, 0, i, s), k \in s.ask.keys
        PROVE  s.ask.op \in {"list", "del", "zadd", "zrmv", "zrange"}
    <3>1. TestStep(i, s) /\ i >= 10 /\ i \in Nat
      BY <1>3, <2>2, TouchTestZset, PhaseKeys, BoundsAssumption
    <3> QED
      BY <3>1, Requested DEF TestStep
  <2> QED
    BY <1>1, <2>1, <2>2, BoundsAssumption
<1>4. ASSUME NEW j \in Tasks, k = BenchZset(j)
      PROVE  strings'[k] = Missing
  <2>1. Belongs(k, j)
    BY <1>4, TouchBenchZset DEF Belongs
  <2>2. ASSUME NEW i, NEW s, ProgramStep(Stage, j, i, s), k \in s.ask.keys
        PROVE  s.ask.op \in {"list", "del", "zadd", "zrmv", "zrange"}
    <3>1. Stage \in {6, 7, 8} \/ (Stage = 9 /\ i = 2)
      BY <1>4, <2>2, TouchBenchZset
    <3> QED
      BY <2>2, <3>1, Requested DEF ProgramStep
  <2>3. j \in 0 .. n
    BY BoundsAssumption DEF Tasks
  <2> QED
    BY <1>1, <2>1, <2>2, <2>3
<1> QED
  BY <1>2, <1>3, <1>4 DEF Keys

LEMMA NoStringJoin ==
    ASSUME TInv, IInv, NoStringInv, Join
    PROVE  NoStringInv'
BY JoinMoves DEF NoStringInv

-----------------------------------------------------------------------------
(* ... the keys of the benchmark, and which keys hold sorted sets ... *)

BenchZsetIs(j, k) ==
    /\ Stage = 0 => k \notin zkeys
    /\ Stage = 6 /\ Prog(j, k) >= 1 => k \in zkeys
    /\ Stage = 7 => k \in zkeys
    /\ Stage = 9 /\ Prog(j, k) >= 2 => k \notin zkeys
BenchZsetInv == \A j \in Tasks : BenchZsetIs(j, BenchZset(j))
ZkeysInv == zkeys \subseteq {TestZset} \cup {BenchZset(j) : j \in Tasks}

LEMMA BenchOps ==
    ASSUME NEW p, NEW t, NEW i, NEW s, ProgramStep(p, t, i, s), NEW j \in Tasks,
           BenchKey(j) \in s.ask.keys
    PROVE  /\ p = 1 => s.ask.op = "add" /\ s.ask.data = "a"
           /\ p \in {2, 5} => s.ask.op \in {"query", "list"}
           /\ p \in {3, 9} => s.ask.op = "del"
           /\ p = 4 => s.ask.op = "batch" /\ s.ask.data = "a"
           /\ p \in {1, 2, 3, 4, 5, 9}
<1>1. p \in {1, 2, 3, 4, 5, 9} /\ (p = 9 => i = 1)
  BY TouchBench
<1> QED
  BY <1>1, Requested DEF ProgramStep

LEMMA BenchZsetOps ==
    ASSUME NEW p, NEW t, NEW i, NEW s, ProgramStep(p, t, i, s), NEW j \in Tasks,
           BenchZset(j) \in s.ask.keys
    PROVE  /\ p = 6 => s.ask.op = "zadd"
           /\ p = 7 => s.ask.op = "zrange"
           /\ p = 8 => s.ask.op = "zrmv"
           /\ p = 9 => s.ask.op = "del"
           /\ p \in {6, 7, 8, 9}
<1>1. p \in {6, 7, 8, 9} /\ (p = 9 => i = 2)
  BY TouchBenchZset
<1> QED
  BY <1>1, Requested DEF ProgramStep

LEMMA BenchMoves ==
    ASSUME TInv, TInv', IInv, [Next]_vars, UNCHANGED phase, NEW j \in Tasks, NEW t \in 0 .. n,
           NEW k, k = BenchKey(j), Belongs(k, t), BenchIs(j, k),
           Stage \notin {4, 5} => t = j, Stage = 4 => t = ChunkOf(j)
    PROVE  BenchIs(j, k)'
<1>0. k \in Keys /\ k \in Bench
  BY DEF Keys, Bench
<1>1. Moves(t, k) /\ Stage' = Stage /\ Prog(t, k) \in Nat
  BY <1>0, StepMoves, ProgType
<1>2. BenchIs(j, k)
  OBVIOUS
<1>3. \A p, i, s : ProgramStep(p, t, i, s) /\ k \in s.ask.keys =>
           /\ p = 1 => s.ask.op = "add" /\ s.ask.data = "a"
           /\ p \in {2, 5} => s.ask.op \in {"query", "list"}
           /\ p \in {3, 9} => s.ask.op = "del"
           /\ p = 4 => s.ask.op = "batch" /\ s.ask.data = "a"
           /\ p \in {1, 2, 3, 4, 5, 9}
  BY BenchOps
<1>4. \A p, s : ProgramStep(p, t, 1, s) /\ k \notin s.ask.keys =>
           ~(p \in {1, 9} /\ t = j) /\ ~(p = 4 /\ t = ChunkOf(j))
  BY TouchBench
<1>5. CASE SameKey(k) /\ Prog(t, k)' = Prog(t, k)
  BY <1>1, <1>2, <1>5 DEF BenchIs, SameKey
<1>6. CASE /\ SameKey(k) /\ Prog(t, k)' = Prog(t, k) + 1
           /\ \E s : ProgramStep(Stage, t, Prog(t, k) + 1, s) /\ k \notin s.ask.keys
  <2>1. Prog(t, k) = 0 => Stage \notin {1, 4, 9}
    BY <1>4, <1>6
  <2> QED
    BY <1>1, <1>2, <1>6, <2>1 DEF BenchIs, SameKey
<1>7. ASSUME NEW s, Prog(t, k)' = Prog(t, k) + 1,
             ProgramStep(Stage, t, Prog(t, k) + 1, s), k \in s.ask.keys, Takes(t, k, s.ask)
      PROVE  BenchIs(j, k)'
  <2>1. CASE Stage \in {1, 4}
    <3>1. strings'[k] = "a"
      BY <1>3, <1>7, <2>1 DEF Takes
    <3> QED
      BY <1>1, <2>1, <3>1, MissingAssumption DEF BenchIs
  <2>2. CASE Stage \in {2, 5}
    <3>1. strings'[k] = strings[k]
      BY <1>3, <1>7, <2>2 DEF Takes, SameKey
    <3> QED
      BY <1>1, <1>2, <2>2, <3>1 DEF BenchIs
  <2>3. CASE Stage \in {3, 9}
    <3>1. strings'[k] = Missing
      BY <1>3, <1>7, <2>3 DEF Takes
    <3> QED
      BY <1>1, <2>3, <3>1 DEF BenchIs
  <2> QED
    BY <1>3, <1>7, <2>1, <2>2, <2>3
<1>8. CASE Forced(k) /\ Prog(t, k)' = Prog(t, k)
  BY <1>1, <1>8, MissingAssumption DEF Forced, BenchIs
<1> QED
  BY <1>1, <1>5, <1>6, <1>7, <1>8 DEF Moves

LEMMA BenchStep ==
    ASSUME TInv, TInv', IInv, BenchInv, [Next]_vars, UNCHANGED phase
    PROVE  BenchInv'
<1> SUFFICES ASSUME NEW j \in Tasks PROVE BenchIs(j, BenchKey(j))'
  BY DEF BenchInv
<1>1. BenchIs(j, BenchKey(j))
  BY DEF BenchInv
<1>2. j \in 0 .. n /\ 0 \in 0 .. n /\ ChunkOf(j) \in 0 .. n
  BY ChunkOfKey, BoundsAssumption DEF Tasks
<1>3. CASE Stage = 4
  <2>1. Belongs(BenchKey(j), ChunkOf(j))
    BY <1>3, TouchBench DEF Belongs
  <2> QED
    BY <1>1, <1>2, <1>3, <2>1, BenchMoves
<1>4. CASE Stage = 5
  <2>1. Belongs(BenchKey(j), 0)
    BY <1>4, TouchBench, PhaseKeys DEF Belongs
  <2> QED
    BY <1>1, <1>2, <1>4, <2>1, BenchMoves
<1>5. CASE Stage \notin {4, 5}
  <2>1. Belongs(BenchKey(j), j)
    BY <1>5, TouchBench DEF Belongs
  <2> QED
    BY <1>1, <1>2, <1>5, <2>1, BenchMoves
<1> QED
  BY <1>3, <1>4, <1>5

LEMMA BenchJoin ==
    ASSUME TInv, IInv, BenchInv, Join
    PROVE  BenchInv'
<1> SUFFICES ASSUME NEW j \in Tasks PROVE BenchIs(j, BenchKey(j))'
  BY DEF BenchInv
<1>1. BenchIs(j, BenchKey(j))
  BY DEF BenchInv
<1>2. j \in 0 .. n /\ ChunkOf(j) \in 0 .. n /\ ChunkOf(j) \in Chunks
  BY ChunkOfKey, BoundsAssumption DEF Tasks
<1>3. Prog(j, BenchKey(j))' = 0 /\ Prog(ChunkOf(j), BenchKey(j))' = 0
  BY <1>2, JoinMoves
<1>4. Stage = 1 => Prog(j, BenchKey(j)) = 1
  <2>1. Stage = 1 => j \in Spawned(Stage) /\ Steps(Stage) = 1
    BY DEF Spawned, Steps
  <2> QED
    BY <2>1, JoinMoves
<1>5. Stage = 4 => Prog(ChunkOf(j), BenchKey(j)) = 1
  BY <1>2, JoinMoves DEF Spawned, Steps
<1>6. Stage = 9 => Prog(j, BenchKey(j)) = 2
  <2>1. Stage = 9 => j \in Spawned(Stage) /\ Steps(Stage) = 2
    BY DEF Spawned, Steps
  <2> QED
    BY <2>1, JoinMoves
<1> QED
  BY <1>1, <1>3, <1>4, <1>5, <1>6, JoinMoves DEF BenchIs

LEMMA BenchZsetStep ==
    ASSUME TInv, TInv', IInv, BenchZsetInv, NoStringInv, [Next]_vars, UNCHANGED phase
    PROVE  BenchZsetInv'
<1> SUFFICES ASSUME NEW j \in Tasks, NEW k, k = BenchZset(j) PROVE BenchZsetIs(j, k)'
  BY DEF BenchZsetInv
<1>0. k \in Keys /\ j \in 0 .. n
  BY BoundsAssumption DEF Keys, Tasks
<1>1. Belongs(k, j)
  BY TouchBenchZset DEF Belongs
<1>2. Moves(j, k) /\ Stage' = Stage /\ Prog(j, k) \in Nat
  BY <1>0, <1>1, StepMoves, ProgType
<1>3. BenchZsetIs(j, k)
  BY DEF BenchZsetInv
<1>4. strings[k] = Missing
  BY <1>0, Kinds, KindsOf DEF NoStringInv, Bench
<1>5. \A p, i, s : ProgramStep(p, j, i, s) /\ k \in s.ask.keys =>
           /\ p = 6 => s.ask.op = "zadd"
           /\ p = 7 => s.ask.op = "zrange"
           /\ p = 8 => s.ask.op = "zrmv"
           /\ p = 9 => s.ask.op = "del"
           /\ p \in {6, 7, 8, 9}
  BY BenchZsetOps
<1>6. /\ \A s : ProgramStep(6, j, 1, s) => k \in s.ask.keys
      /\ \A s : ProgramStep(9, j, 2, s) => k \in s.ask.keys
  BY TouchBenchZset
<1>7. ~Forced(k)
  BY ForeverKeys DEF Forced
<1>8. CASE SameKey(k) /\ Prog(j, k)' = Prog(j, k)
  BY <1>2, <1>3, <1>8 DEF BenchZsetIs, SameKey
<1>9. CASE /\ SameKey(k) /\ Prog(j, k)' = Prog(j, k) + 1
           /\ \E s : ProgramStep(Stage, j, Prog(j, k) + 1, s) /\ k \notin s.ask.keys
  <2>1. ~(Stage = 6 /\ Prog(j, k) = 0) /\ ~(Stage = 9 /\ Prog(j, k) = 1)
    BY <1>6, <1>9
  <2> QED
    BY <1>2, <1>3, <1>9, <2>1 DEF BenchZsetIs, SameKey
<1>10. ASSUME NEW s, Prog(j, k)' = Prog(j, k) + 1,
              ProgramStep(Stage, j, Prog(j, k) + 1, s), k \in s.ask.keys, Takes(j, k, s.ask)
       PROVE  BenchZsetIs(j, k)'
  <2>1. CASE Stage = 6
    <3>1. k \in zkeys'
      BY <1>4, <1>5, <1>10, <2>1 DEF Takes
    <3> QED
      BY <1>2, <2>1, <3>1 DEF BenchZsetIs
  <2>2. CASE Stage = 7
    <3>1. k \in zkeys'
      BY <1>3, <1>5, <1>10, <2>2 DEF Takes, SameKey, BenchZsetIs
    <3> QED
      BY <1>2, <2>2, <3>1 DEF BenchZsetIs
  <2>3. CASE Stage = 8
    BY <1>2, <2>3 DEF BenchZsetIs
  <2>4. CASE Stage = 9
    <3>1. k \notin zkeys'
      BY <1>5, <1>10, <2>4 DEF Takes, Emptied
    <3> QED
      BY <1>2, <2>4, <3>1 DEF BenchZsetIs
  <2> QED
    BY <1>5, <1>10, <2>1, <2>2, <2>3, <2>4
<1> QED
  BY <1>2, <1>7, <1>8, <1>9, <1>10 DEF Moves

LEMMA BenchZsetJoin ==
    ASSUME TInv, IInv, BenchZsetInv, Join
    PROVE  BenchZsetInv'
<1> SUFFICES ASSUME NEW j \in Tasks PROVE BenchZsetIs(j, BenchZset(j))'
  BY DEF BenchZsetInv
<1>1. BenchZsetIs(j, BenchZset(j)) /\ j \in 0 .. n
  BY BoundsAssumption DEF BenchZsetInv, Tasks
<1>2. Prog(j, BenchZset(j))' = 0
  BY <1>1, JoinMoves
<1>3. /\ Stage = 6 => Prog(j, BenchZset(j)) = 1
      /\ Stage = 9 => Prog(j, BenchZset(j)) = 2
  <2>1. Stage \in {6, 9} => j \in Spawned(Stage) /\ Steps(Stage) = IF Stage = 6 THEN 1 ELSE 2
    BY DEF Spawned, Steps
  <2> QED
    BY <2>1, JoinMoves
<1> QED
  BY <1>1, <1>2, <1>3, JoinMoves DEF BenchZsetIs

\* Only zadd makes a sorted set, and it is asked of the keys for sorted sets only.
LEMMA ZaddKeys ==
    ASSUME NEW p, NEW t, NEW i, NEW s, ProgramStep(p, t, i, s), s.ask.op = "zadd"
    PROVE  s.ask.keys \subseteq {TestZset} \cup {BenchZset(j) : j \in Tasks}
<1>1. CASE p = 0
  <2>1. TestStep(i, s) /\ i \in 1 .. 3 * Pairs + 15
    BY <1>1, PhaseKeys
  <2>2. i >= 10
    BY <1>1, <2>1, TestAt, Requested, BoundsAssumption
  <2> QED
    BY <2>1, <2>2, TestKeys, BoundsAssumption
<1>2. CASE p = 6
  BY <1>2, PhaseKeys
<1>3. CASE p \notin {0, 6}
  BY <1>3, Requested DEF ProgramStep
<1> QED
  BY <1>1, <1>2, <1>3

LEMMA ZkeysServed ==
    ASSUME NEW c, NEW ks, NEW r, arg[c] = r, Server!Effect(c, ks), ZkeysInv,
           r.op = "zadd" => ks \subseteq {TestZset} \cup {BenchZset(j) : j \in Tasks}
    PROVE  ZkeysInv'
<1>1. zkeys' \subseteq zkeys \/ (r.op = "zadd" /\ zkeys' \subseteq zkeys \cup ks)
  BY DEF Server!Effect, Server!Look, Server!Add, Server!Del, Server!ZaddRefused, Server!Zadd,
         Server!Zrmv, Server!Zrange, Server!store
<1> QED
  BY <1>1 DEF ZkeysInv

LEMMA ZkeysStep ==
    ASSUME TInv, IInv, ZkeysInv, [Next]_vars
    PROVE  ZkeysInv'
<1>1. CASE UNCHANGED zkeys
  BY <1>1 DEF ZkeysInv
<1>2. ASSUME NEW u \in 0 .. n, Serve(u) PROVE ZkeysInv'
  <2>1. PICK ks \in SUBSET todo[u] : ks # {} /\ Server!Effect(u, ks)
    BY <1>2 DEF Serve, Server!Apply
  <2>2. u \in Conns
    BY Connections
  <2>3. arg[u] # NoRequest
    BY <2>1, <2>2 DEF TInv, ConnInv
  <2>4. /\ ProgramStep(Stage, u, at[u] + 1, Expected(u)) /\ arg[u] = Expected(u).ask
        /\ ks \subseteq arg[u].keys
    BY <2>1, <2>3, ExpectedStep DEF TInv, AskedInv
  <2>5. arg[u].op = "zadd" => ks \subseteq {TestZset} \cup {BenchZset(j) : j \in Tasks}
    BY <2>4, ZaddKeys
  <2> QED
    BY <2>1, <2>5, ZkeysServed
<1>3. ASSUME NEW g \in Batches, Serve(g) PROVE ZkeysInv'
  <2>1. PICK ks \in SUBSET todo[g] : ks # {} /\ Server!Effect(g, ks)
    BY <1>3 DEF Serve, Server!Apply
  <2>2. g \in Conns
    BY Connections
  <2>3. arg[g] = Forever
    BY <2>1, <2>2 DEF TInv, ConnInv, BatchInv
  <2>4. Forever.op = "batch"
    BY Requested DEF Forever
  <2> QED
    BY <2>1, <2>3, <2>4, ZkeysServed
<1>4. ASSUME NEW c \in Conns, Server!Answer(c) PROVE UNCHANGED zkeys
  BY <1>4, AnswerConn
<1>5. CASE Work
  BY <1>1, <1>4, <1>5, Connections DEF Work, Acquire, Ask, Call, Receive, Join, server
<1>6. CASE SendBatch \/ BatchesEnd \/ (\E g \in Batches : Break(g)) \/ UNCHANGED vars
  BY <1>1, <1>4, <1>6, Connections DEF SendBatch, Call, BatchesEnd, BatchEnds, Break, vars, server
<1> QED
  BY <1>2, <1>3, <1>5, <1>6 DEF Next, WorkServed, BatchesServed

-----------------------------------------------------------------------------
(* ... and the sorted set of the tests. *)

\* The sorted set of the tests after i steps: member m has been added with its half as
\* score, then with its double, and is removed at the end.
Linked(m, i)  == 10 + m <= i /\ i < IF m = 0 THEN 2 * Pairs + 12 ELSE 2 * Pairs + 13 + m
ScoreAt(m, i) == IF Pairs + 11 + m <= i THEN m * 2 ELSE m \div 2
EntryAt(m, i) == [member |-> m, score |-> ScoreAt(m, i)]
ZsetAt(i)     == {EntryAt(m, i) : m \in {x \in Members : Linked(x, i)}}
TestZsetInv ==
    /\ TestZset \in zkeys
         <=> Stage = 0 /\ Prog(0, TestZset) >= 10 /\ Prog(0, TestZset) < 3 * Pairs + 14
    /\ \A i \in Nat : Stage = 0 /\ Prog(0, TestZset) = i => zsets[TestZset] = ZsetAt(i)
    /\ Stage # 0 => zsets[TestZset] = {}

AsBefore(m, i, j) == /\ Linked(m, j) <=> Linked(m, i)
                     /\ Linked(m, i) => ScoreAt(m, j) = ScoreAt(m, i)

LEMMA ZStay ==
    ASSUME NEW i, NEW j, \A m \in Members : AsBefore(m, i, j)
    PROVE  ZsetAt(j) = ZsetAt(i)
BY DEF AsBefore, ZsetAt, EntryAt

LEMMA ZAdd ==
    ASSUME NEW i, NEW j, NEW x \in Members, Linked(x, j),
           \A m \in Members \ {x} : AsBefore(m, i, j)
    PROVE  ZsetAt(j) = {e \in ZsetAt(i) : e.member # x} \cup {[member |-> x, score |-> ScoreAt(x, j)]}
<1>1. ASSUME NEW e \in ZsetAt(j)
      PROVE  e \in {f \in ZsetAt(i) : f.member # x} \cup {[member |-> x, score |-> ScoreAt(x, j)]}
  BY DEF AsBefore, ZsetAt, EntryAt
<1>2. ASSUME NEW e \in ZsetAt(i), e.member # x
      PROVE  e \in ZsetAt(j)
  BY <1>2 DEF AsBefore, ZsetAt, EntryAt
<1>3. [member |-> x, score |-> ScoreAt(x, j)] \in ZsetAt(j)
  BY DEF ZsetAt, EntryAt
<1> QED
  BY <1>1, <1>2, <1>3

LEMMA ZRmv ==
    ASSUME NEW i, NEW j, NEW x \in Members, ~Linked(x, j),
           \A m \in Members \ {x} : AsBefore(m, i, j)
    PROVE  ZsetAt(j) = {e \in ZsetAt(i) : e.member # x}
<1>1. ASSUME NEW e \in ZsetAt(j)
      PROVE  e \in ZsetAt(i) /\ e.member # x
  BY DEF AsBefore, ZsetAt, EntryAt
<1>2. ASSUME NEW e \in ZsetAt(i), e.member # x
      PROVE  e \in ZsetAt(j)
  BY <1>2 DEF AsBefore, ZsetAt, EntryAt
<1> QED
  BY <1>1, <1>2

LEMMA ZEmpty ==
    ASSUME NEW i \in Nat, i < 10 \/ i >= 3 * Pairs + 13
    PROVE  ZsetAt(i) = {}
<1>1. Pairs \in Nat /\ Pairs >= 1
  BY BoundsAssumption
<1>2. ASSUME NEW m \in Members PROVE ~Linked(m, i)
  BY <1>1 DEF Linked, Members
<1> QED
  BY <1>2 DEF ZsetAt

\* What a step does to the sorted set of the tests, when it holds what it should.
Links(i, s) == /\ s.ask.op = "zadd" /\ i < 3 * Pairs + 14
               /\ ZsetAt(i) = {e \in ZsetAt(i - 1) : e.member # s.ask.member}
                                \cup {[member |-> s.ask.member, score |-> s.ask.score]}
Unlinks(i, s) == /\ s.ask.op = "zrmv" /\ i > 10 /\ i < 3 * Pairs + 14
                 /\ ZsetAt(i) = {e \in ZsetAt(i - 1) : e.member # s.ask.member}
Looks(i, s) == /\ s.ask.op = "zrange" /\ ZsetAt(i) = ZsetAt(i - 1)
               /\ (i > 10 /\ i < 3 * Pairs + 14) \/ i = 3 * Pairs + 15
Deletes(i, s) == s.ask.op = "del" /\ i = 3 * Pairs + 14

LEMMA ZsetSteps ==
    ASSUME NEW i \in 10 .. 3 * Pairs + 15, NEW s, TestStep(i, s)
    PROVE  Links(i, s) \/ Unlinks(i, s) \/ Looks(i, s) \/ Deletes(i, s)
<1>1. Pairs \in Nat /\ Pairs >= 1 /\ i \in Nat /\ i - 1 \in Nat /\ i >= 10
  BY BoundsAssumption
<1>2. ASSUME NEW x \in Members, i = 10 + x, s = zadd(TestZset, x \div 2, x)
      PROVE  Links(i, s)
  <2>1. x \in Nat /\ x < Pairs
    BY <1>1 DEF Members
  <2>2. Linked(x, i) /\ ScoreAt(x, i) = x \div 2
    BY <1>1, <1>2, <2>1 DEF Linked, ScoreAt
  <2>3. \A m \in Members \ {x} : AsBefore(m, i - 1, i)
    BY <1>1, <1>2, <2>1 DEF Members, Linked, ScoreAt, AsBefore
  <2>4. s.ask.op = "zadd" /\ s.ask.member = x /\ s.ask.score = x \div 2
    BY <1>2, Requested
  <2> QED
    BY <1>1, <1>2, <2>1, <2>2, <2>3, <2>4, ZAdd DEF Links
<1>3. ASSUME NEW x \in Members, i = Pairs + 11 + x, s = zadd(TestZset, x * 2, x)
      PROVE  Links(i, s)
  <2>1. x \in Nat /\ x < Pairs
    BY <1>1 DEF Members
  <2>2. Linked(x, i) /\ ScoreAt(x, i) = x * 2
    BY <1>1, <1>3, <2>1 DEF Linked, ScoreAt
  <2>3. \A m \in Members \ {x} : AsBefore(m, i - 1, i)
    BY <1>1, <1>3, <2>1 DEF Members, Linked, ScoreAt, AsBefore
  <2>4. s.ask.op = "zadd" /\ s.ask.member = x /\ s.ask.score = x * 2
    BY <1>3, Requested
  <2> QED
    BY <1>1, <1>3, <2>1, <2>2, <2>3, <2>4, ZAdd DEF Links
<1>4. ASSUME i = 2 * Pairs + 12, s = zrmv(TestZset, 0)
      PROVE  Unlinks(i, s)
  <2>1. 0 \in Members /\ ~Linked(0, i)
    BY <1>1, <1>4 DEF Members, Linked
  <2>2. \A m \in Members \ {0} : AsBefore(m, i - 1, i)
    BY <1>1, <1>4 DEF Members, Linked, ScoreAt, AsBefore
  <2>3. s.ask.op = "zrmv" /\ s.ask.member = 0
    BY <1>4, Requested
  <2> QED
    BY <1>1, <1>4, <2>1, <2>2, <2>3, ZRmv DEF Unlinks
<1>5. ASSUME NEW x \in Members \ {0}, i = 2 * Pairs + 13 + x, s = zrmv(TestZset, x)
      PROVE  Unlinks(i, s)
  <2>1. x \in Nat /\ x < Pairs /\ x > 0 /\ ~Linked(x, i)
    BY <1>1, <1>5 DEF Members, Linked
  <2>2. \A m \in Members \ {x} : AsBefore(m, i - 1, i)
    BY <1>1, <1>5, <2>1 DEF Members, Linked, ScoreAt, AsBefore
  <2>3. s.ask.op = "zrmv" /\ s.ask.member = x
    BY <1>5, Requested
  <2> QED
    BY <1>1, <1>5, <2>1, <2>2, <2>3, ZRmv DEF Unlinks
<1>6. ASSUME i \in {Pairs + 10, 2 * Pairs + 11, 2 * Pairs + 13, 3 * Pairs + 13, 3 * Pairs + 15},
             s.ask.op = "zrange"
      PROVE  Looks(i, s)
  <2>1. i \in {Pairs + 10, 2 * Pairs + 11, 2 * Pairs + 13} => \A m \in Members : AsBefore(m, i - 1, i)
    BY <1>1, <1>6 DEF Members, Linked, ScoreAt, AsBefore
  <2>2. i = 3 * Pairs + 13 => \A m \in Members : AsBefore(m, i - 1, i)
    BY <1>1, <1>6 DEF Members, Linked, ScoreAt, AsBefore
  <2>3. i = 3 * Pairs + 15 => ZsetAt(i) = {} /\ ZsetAt(i - 1) = {}
    BY <1>1, ZEmpty
  <2> QED
    BY <1>1, <1>6, <2>1, <2>2, <2>3, ZStay DEF Looks
<1>7. i = 3 * Pairs + 14 /\ s = del(TestZset) => Deletes(i, s)
  BY Requested DEF Deletes
<1>8. \/ \E x \in Members : i = 10 + x /\ s = zadd(TestZset, x \div 2, x)
      \/ \E x \in Members : i = Pairs + 11 + x /\ s = zadd(TestZset, x * 2, x)
      \/ i = 2 * Pairs + 12 /\ s = zrmv(TestZset, 0)
      \/ \E x \in Members \ {0} : i = 2 * Pairs + 13 + x /\ s = zrmv(TestZset, x)
      \/ /\ i \in {Pairs + 10, 2 * Pairs + 11, 2 * Pairs + 13, 3 * Pairs + 13, 3 * Pairs + 15}
         /\ s.ask.op = "zrange"
      \/ i = 3 * Pairs + 14 /\ s = del(TestZset)
  BY <1>1, Requested DEF TestStep
<1> QED
  BY <1>2, <1>3, <1>4, <1>5, <1>6, <1>7, <1>8

LEMMA TestZsetStep ==
    ASSUME TInv, TInv', IInv, TestZsetInv, NoStringInv, [Next]_vars, UNCHANGED phase
    PROVE  TestZsetInv'
<1>0. TestZset \in Keys /\ 0 \in 0 .. n /\ Pairs \in Nat
  BY BoundsAssumption DEF Keys
<1>1. Belongs(TestZset, 0)
  BY TouchTestZset, PhaseKeys DEF Belongs
<1>2. Moves(0, TestZset) /\ Stage' = Stage /\ Prog(0, TestZset) \in Nat
  BY <1>0, <1>1, StepMoves, ProgType
<1>3. strings[TestZset] = Missing
  BY <1>0, Kinds, KindsOf DEF NoStringInv, Bench
<1>4. ~Forced(TestZset)
  BY ForeverKeys DEF Forced
<1>5. CASE SameKey(TestZset) /\ Prog(0, TestZset)' = Prog(0, TestZset)
  BY <1>2, <1>5 DEF TestZsetInv, SameKey
<1>6. CASE /\ SameKey(TestZset) /\ Prog(0, TestZset)' = Prog(0, TestZset) + 1
           /\ \E s : ProgramStep(Stage, 0, Prog(0, TestZset) + 1, s) /\ TestZset \notin s.ask.keys
  <2>1. CASE Stage # 0
    BY <1>2, <1>6, <2>1 DEF TestZsetInv, SameKey
  <2>2. CASE Stage = 0
    <3>1. Prog(0, TestZset) + 1 < 10
      BY <1>2, <1>6, <2>2, TouchTestZset
    <3>2. ZsetAt(Prog(0, TestZset)) = {} /\ ZsetAt(Prog(0, TestZset) + 1) = {}
      BY <1>2, <3>1, ZEmpty
    <3> QED
      BY <1>2, <1>6, <2>2, <3>1, <3>2 DEF TestZsetInv, SameKey
  <2> QED
    BY <2>1, <2>2
<1>7. ASSUME NEW s, Prog(0, TestZset)' = Prog(0, TestZset) + 1,
             ProgramStep(Stage, 0, Prog(0, TestZset) + 1, s), TestZset \in s.ask.keys,
             Takes(0, TestZset, s.ask)
      PROVE  TestZsetInv'
  <2>1. PICK i \in Nat : i = Prog(0, TestZset) + 1
    BY <1>2
  <2>2. Stage = 0 /\ i \in 10 .. 3 * Pairs + 15 /\ TestStep(i, s)
    BY <1>7, <2>1, TouchTestZset, PhaseKeys
  <2>3. zsets[TestZset] = ZsetAt(i - 1) /\ i - 1 \in Nat
    BY <1>2, <2>1, <2>2 DEF TestZsetInv
  <2>4. TestZset \in zkeys <=> i > 10 /\ i < 3 * Pairs + 15
    BY <1>0, <1>2, <2>1, <2>2 DEF TestZsetInv
  <2>5. SUFFICES /\ TestZset \in zkeys' <=> i < 3 * Pairs + 14
                 /\ zsets'[TestZset] = ZsetAt(i)
    BY <1>2, <1>7, <2>1, <2>2, <2>5 DEF TestZsetInv
  <2>6. CASE Links(i, s)
    BY <1>3, <1>7, <2>3, <2>6 DEF Links, Takes
  <2>7. CASE Unlinks(i, s)
    BY <1>0, <1>7, <2>2, <2>3, <2>4, <2>7 DEF Unlinks, Takes
  <2>8. CASE Looks(i, s)
    BY <1>0, <1>7, <2>2, <2>3, <2>4, <2>8 DEF Looks, Takes, SameKey
  <2>9. CASE Deletes(i, s)
    <3>1. ZsetAt(i) = {}
      BY <1>0, <2>9, ZEmpty DEF Deletes
    <3> QED
      BY <1>0, <1>7, <2>9, <3>1 DEF Deletes, Takes, Emptied
  <2> QED
    BY <2>2, <2>6, <2>7, <2>8, <2>9, ZsetSteps
<1> QED
  BY <1>2, <1>4, <1>5, <1>6, <1>7 DEF Moves

LEMMA TestZsetJoin ==
    ASSUME TInv, IInv, TestZsetInv, Join
    PROVE  TestZsetInv'
<1>1. 0 \in 0 .. n /\ Pairs \in Nat /\ 3 * Pairs + 15 \in Nat
  BY BoundsAssumption
<1>2. Stage = 0 => Prog(0, TestZset) = 3 * Pairs + 15
  BY JoinMoves DEF Spawned, Steps
<1>3. Stage = 0 => zsets[TestZset] = ZsetAt(3 * Pairs + 15)
  BY <1>1, <1>2 DEF TestZsetInv
<1>4. ZsetAt(3 * Pairs + 15) = {} /\ ZsetAt(0) = {}
  BY <1>1, ZEmpty
<1>5. zsets[TestZset] = {} /\ TestZset \notin zkeys
  BY <1>1, <1>2, <1>3, <1>4 DEF TestZsetInv
<1>6. Prog(0, TestZset)' = 0 /\ UNCHANGED <<zkeys, zsets>>
  BY <1>1, JoinMoves
<1>7. zsets'[TestZset] = {} /\ ~(TestZset \in zkeys')
  BY <1>5, <1>6
<1>8. ASSUME NEW i \in Nat, Prog(0, TestZset)' = i PROVE ZsetAt(i) = {}
  BY <1>4, <1>6, <1>8
<1> QED
  BY <1>6, <1>7, <1>8 DEF TestZsetInv

-----------------------------------------------------------------------------
(* What the tasks are answered. *)

SInv == /\ HelloInv /\ PresentInv /\ BenchInv /\ NoStringInv
        /\ BenchZsetInv /\ TestZsetInv /\ ZkeysInv

\* A request of step s succeeds on its key k; and answer a says so.
Finds(s, k) == ~(s.ask.op \in {"query", "zrange"} /\ s.found = 0) /\ k \notin Absent
Right(s, k, a) == /\ a.status = "200" <=> Finds(s, k)
                  /\ Finds(s, k) => s.data \in {Any, a.data} /\ s.entries \in {Any, a.entries}

\* What each step expects.
LEMMA Demands ==
    /\ \A k, x : add(k, x).data = Any /\ add(k, x).entries = Any /\ add(k, x).found = 1
    /\ \A k : del(k).data = Any /\ del(k).entries = Any /\ del(k).found = 1
    /\ \A k, x : /\ batch(k, x).data = Any /\ batch(k, x).entries = Any
                 /\ batch(k, x).found = Cardinality(k)
    /\ \A k, a, m : /\ zadd(k, a, m).data = Any /\ zadd(k, a, m).entries = Any
                    /\ zadd(k, a, m).found = 1
    /\ \A k, m : zrmv(k, m).data = Any /\ zrmv(k, m).entries = Any /\ zrmv(k, m).found = 1
    /\ \A k, f, x : /\ query(k, f, x).data = x /\ query(k, f, x).entries = Any
                    /\ query(k, f, x).found = f
    /\ \A k, f, x : list(k, f, x).data = x /\ list(k, f, x).entries = Any /\ list(k, f, x).found = f
    /\ \A k, a, b, f, es : /\ zrange(k, a, b, f, es).data = Any
                           /\ zrange(k, a, b, f, es).entries = es
                           /\ zrange(k, a, b, f, es).found = f
BY DEF Step, add, del, batch, zadd, zrmv, query, list, zrange

\* Only query and list demand a value, only zrange entries.
LEMMA DemandsOf ==
    ASSUME NEW p, NEW t, NEW i, NEW s, ProgramStep(p, t, i, s)
    PROVE  /\ s.ask.op \in {"add", "batch", "del", "zadd", "zrmv", "query", "list", "zrange"}
           /\ s.ask.op \notin {"query", "list"} => s.data = Any
           /\ s.ask.op # "zrange" => s.entries = Any
<1>1. CASE p = 0
  <2>1. TestStep(i, s) /\ i \in 1 .. 3 * Pairs + 15 /\ Pairs \in Nat
    BY <1>1, PhaseKeys, BoundsAssumption
  <2>2. CASE i <= 9
    <3>1. \/ s = add(Hello, "world") \/ s = query(Hello, 1, "world") \/ s = del(Hello)
          \/ s = query(Hello, 0, Any) \/ s = batch(Present, "value")
          \/ \E k, f, x : s = list(k, f, x)
      BY <2>1, <2>2, TestAt
    <3> QED
      BY <3>1, Requested, Demands
  <2>3. CASE i >= 10
    BY <2>1, <2>3, Requested, Demands DEF TestStep
  <2> QED
    BY <2>1, <2>2, <2>3
<1>2. CASE p # 0
  BY <1>2, Requested, Demands DEF ProgramStep
<1> QED
  BY <1>1, <1>2

LEMMA AbsentListed ==
    ASSUME NEW p, NEW t, NEW i, NEW s, ProgramStep(p, t, i, s), NEW k \in s.ask.keys, k \in Absent
    PROVE  s.ask.op = "list"
BY TouchAbsent, PhaseKeys, TestAt, Requested

\* A step that looks for strings finds what it demands ...
LEMMA LookRight ==
    ASSUME TInv, SInv, NEW t \in 0 .. n, NEW k \in Keys, NEW s,
           ProgramStep(Stage, t, Prog(t, k) + 1, s), k \in s.ask.keys,
           s.ask.op \in {"query", "list"}
    PROVE  /\ strings[k] # Missing <=> Finds(s, k)
           /\ Finds(s, k) => s.data \in {Any, strings[k]}
<1>0. Prog(t, k) \in Nat
  BY ProgType
<1>1. CASE Stage = 0
  <2>1. /\ t = 0 /\ Prog(0, k) + 1 \in 1 .. 3 * Pairs + 15 /\ TestStep(Prog(0, k) + 1, s)
    BY <1>1, PhaseKeys
  <2>2. Prog(0, k) + 1 \in {2, 4, 6, 7, 8, 9}
    <3>1. Prog(0, k) + 1 < 10
      <4> SUFFICES ASSUME Prog(0, k) + 1 >= 10 PROVE FALSE
        BY <1>0, <2>1
      <4>1. Pairs \in Nat
        BY BoundsAssumption
      <4>2. s.ask.op \in {"zadd", "zrmv", "zrange", "del"}
        BY <2>1, <4>1, ZsetSteps, <1>0 DEF Links, Unlinks, Looks, Deletes
      <4> QED
        BY <4>2
    <3> QED
      BY <1>0, <2>1, <3>1, TestAt, Requested
  <2>3. CASE Prog(0, k) + 1 = 2
    <3>1. s = query(Hello, 1, "world") /\ k = Hello
      BY <2>1, <2>3, TestAt, Requested
    <3>2. strings[k] = "world" /\ k \notin Absent
      <4>1. Prog(0, Hello) = 1
        BY <1>0, <2>1, <2>3, <3>1
      <4> QED
        BY <1>1, <3>1, <4>1, KindsOf DEF SInv, HelloInv
    <3> QED
      BY <3>1, <3>2, Requested, Demands, MissingAssumption DEF Finds
  <2>4. CASE Prog(0, k) + 1 = 4
    <3>1. s = query(Hello, 0, Any) /\ k = Hello
      BY <2>1, <2>4, TestAt, Requested
    <3>2. strings[k] = Missing
      <4>1. Prog(0, Hello) = 3
        BY <1>0, <2>1, <2>4, <3>1
      <4> QED
        BY <1>1, <3>1, <4>1 DEF SInv, HelloInv
    <3> QED
      BY <3>1, <3>2, Requested, Demands DEF Finds
  <2>5. CASE Prog(0, k) + 1 \in {6, 7, 8, 9}
    <3>1. /\ s.ask.op = "list" /\ s.data \in {Any, "value"} /\ k \in Present \cup Absent
      BY <2>1, <2>5, TestAt, Requested, Demands, KindsOf
    <3>2. k \in Present => strings[k] = "value"
      <4>1. Prog(0, k) >= 5
        BY <1>0, <2>1, <2>5
      <4> QED
        BY <1>1, <4>1 DEF SInv, PresentInv
    <3>3. k \in Absent => strings[k] = Missing
      <4>1. k \in Absent => k \notin Present \cup Bench \cup {Hello}
        BY KindsOf DEF Bench
      <4> QED
        BY <4>1 DEF SInv, NoStringInv
    <3>4. Finds(s, k) <=> k \in Present
      BY <3>1, KindsOf DEF Finds
    <3> QED
      BY <3>1, <3>2, <3>3, <3>4, MissingAssumption
  <2> QED
    BY <2>2, <2>3, <2>4, <2>5
<1>2. CASE Stage # 0
  <2>1. Stage \in {2, 5} /\ s.data = Any /\ ~(s.ask.op = "query" /\ s.found = 0)
    BY <1>2, Requested, Demands DEF ProgramStep
  <2>2. PICK j \in Tasks : k = BenchKey(j)
    BY <2>1, PhaseKeys DEF ChunkKeys
  <2>3. strings[k] # Missing /\ k \notin Absent
    BY <2>1, <2>2, KindsOf DEF SInv, BenchInv, BenchIs
  <2> QED
    BY <2>1, <2>3 DEF Finds
<1> QED
  BY <1>1, <1>2

\* ... and so does one that looks for entries.
LEMMA Ranges ==
    /\ Server!Range(ZsetAt(Pairs + 9), 0, (Pairs - 1) \div 2)
         = {[member |-> m, score |-> m \div 2] : m \in Members}
    /\ Server!Range(ZsetAt(2 * Pairs + 10), 0, (Pairs - 1) * 2)
         = {[member |-> m, score |-> m * 2] : m \in Members}
    /\ Server!Range(ZsetAt(2 * Pairs + 12), 0, 0) = {}
    /\ Server!Range(ZsetAt(3 * Pairs + 12), 0, 0) = {}
<1>1. Pairs \in Nat /\ Pairs >= 1 /\ Members = 0 .. Pairs - 1
  BY BoundsAssumption DEF Members
<1>2. Server!Range(ZsetAt(Pairs + 9), 0, (Pairs - 1) \div 2)
         = {[member |-> m, score |-> m \div 2] : m \in Members}
  <2>1. ASSUME NEW m \in Members
        PROVE  /\ Linked(m, Pairs + 9) /\ ScoreAt(m, Pairs + 9) = m \div 2
               /\ 0 <= m \div 2 /\ m \div 2 <= (Pairs - 1) \div 2
    <3>1. m \in Nat /\ m <= Pairs - 1
      BY <1>1
    <3>2. Linked(m, Pairs + 9) /\ ScoreAt(m, Pairs + 9) = m \div 2
      BY <1>1, <3>1 DEF Linked, ScoreAt
    <3> QED
      BY <1>1, <3>1, <3>2
  <2>2. ZsetAt(Pairs + 9) = {[member |-> m, score |-> m \div 2] : m \in Members}
    BY <2>1 DEF ZsetAt, EntryAt
  <2>3. \A e \in ZsetAt(Pairs + 9) : 0 <= e.score /\ e.score <= (Pairs - 1) \div 2
    <3> SUFFICES ASSUME NEW m \in Members
                 PROVE  0 <= m \div 2 /\ m \div 2 <= (Pairs - 1) \div 2
      BY <2>2
    <3> QED
      BY <2>1
  <2> QED
    BY <2>2, <2>3 DEF Server!Range
<1>3. Server!Range(ZsetAt(2 * Pairs + 10), 0, (Pairs - 1) * 2)
         = {[member |-> m, score |-> m * 2] : m \in Members}
  <2>1. ASSUME NEW m \in Members
        PROVE  /\ Linked(m, 2 * Pairs + 10) /\ ScoreAt(m, 2 * Pairs + 10) = m * 2
               /\ 0 <= m * 2 /\ m * 2 <= (Pairs - 1) * 2
    <3>1. m \in Nat /\ m <= Pairs - 1
      BY <1>1
    <3> QED
      BY <1>1, <3>1 DEF Linked, ScoreAt
  <2>2. ZsetAt(2 * Pairs + 10) = {[member |-> m, score |-> m * 2] : m \in Members}
    BY <2>1 DEF ZsetAt, EntryAt
  <2>3. \A e \in ZsetAt(2 * Pairs + 10) : 0 <= e.score /\ e.score <= (Pairs - 1) * 2
    <3> SUFFICES ASSUME NEW m \in Members
                 PROVE  0 <= m * 2 /\ m * 2 <= (Pairs - 1) * 2
      BY <2>2
    <3> QED
      BY <2>1
  <2> QED
    BY <2>2, <2>3 DEF Server!Range
<1>4. Server!Range(ZsetAt(2 * Pairs + 12), 0, 0) = {}
  <2>1. ASSUME NEW m \in Members, Linked(m, 2 * Pairs + 12)
        PROVE  ~(ScoreAt(m, 2 * Pairs + 12) <= 0)
    BY <1>1, <2>1 DEF Linked, ScoreAt
  <2> QED
    BY <2>1 DEF ZsetAt, EntryAt, Server!Range
<1>5. Server!Range(ZsetAt(3 * Pairs + 12), 0, 0) = {}
  <2>1. ASSUME NEW m \in Members, Linked(m, 3 * Pairs + 12)
        PROVE  ~(ScoreAt(m, 3 * Pairs + 12) <= 0)
    BY <1>1, <2>1 DEF Linked, ScoreAt
  <2> QED
    BY <2>1 DEF ZsetAt, EntryAt, Server!Range
<1> QED
  BY <1>2, <1>3, <1>4, <1>5

LEMMA RangeRight ==
    ASSUME TInv, SInv, NEW t \in 0 .. n, NEW k \in Keys, NEW s,
           ProgramStep(Stage, t, Prog(t, k) + 1, s), k \in s.ask.keys,
           s.ask.op = "zrange"
    PROVE  /\ k \in zkeys <=> Finds(s, k)
           /\ Finds(s, k) =>
                s.entries \in {Any, Server!Range(zsets[k], s.ask.score, s.ask.max_score)}
<1>0. Prog(t, k) \in Nat /\ Pairs \in Nat /\ Pairs >= 1
  BY ProgType, BoundsAssumption
<1>1. CASE Stage = 0
  <2>1. /\ t = 0 /\ Prog(0, k) + 1 \in 1 .. 3 * Pairs + 15 /\ TestStep(Prog(0, k) + 1, s)
    BY <1>1, PhaseKeys
  <2> DEFINE i == Prog(0, k) + 1
  <2>2. \/ i = Pairs + 10 /\ s = zrange(TestZset, 0, (Pairs - 1) \div 2, 1,
                                    {[member |-> m, score |-> m \div 2] : m \in Members})
        \/ i = 2 * Pairs + 11 /\ s = zrange(TestZset, 0, (Pairs - 1) * 2, 1,
                                        {[member |-> m, score |-> m * 2] : m \in Members})
        \/ i \in {2 * Pairs + 13, 3 * Pairs + 13} /\ s = zrange(TestZset, 0, 0, 1, {})
        \/ i = 3 * Pairs + 15 /\ s = zrange(TestZset, 0, 0, 0, Any)
    BY <2>1, Requested DEF TestStep
  <2>3. k = TestZset /\ k \notin Absent
    BY <2>2, Requested, KindsOf
  <2>4. /\ k \in zkeys <=> i > 10 /\ i < 3 * Pairs + 15
        /\ zsets[k] = ZsetAt(Prog(0, k))
    BY <1>0, <1>1, <2>1, <2>3 DEF SInv, TestZsetInv
  <2>5. CASE i = Pairs + 10 /\ s = zrange(TestZset, 0, (Pairs - 1) \div 2, 1,
                                    {[member |-> m, score |-> m \div 2] : m \in Members})
    <3>1. Prog(0, k) = Pairs + 9 /\ k \in zkeys
      BY <1>0, <2>1, <2>4, <2>5
    <3>2. Server!Range(zsets[k], s.ask.score, s.ask.max_score) = s.entries
      <4>1. zsets[k] = ZsetAt(Pairs + 9)
        BY <2>4, <3>1
      <4>2. s.ask.score = 0 /\ s.ask.max_score = (Pairs - 1) \div 2
        BY <2>5, Requested
      <4>3. s.entries = {[member |-> m, score |-> m \div 2] : m \in Members}
        BY <2>5, Demands
      <4> QED
        BY <4>1, <4>2, <4>3, Ranges
    <3> QED
      BY <2>3, <2>5, <3>1, <3>2, Requested, Demands DEF Finds
  <2>6. CASE i = 2 * Pairs + 11 /\ s = zrange(TestZset, 0, (Pairs - 1) * 2, 1,
                                        {[member |-> m, score |-> m * 2] : m \in Members})
    <3>1. Prog(0, k) = 2 * Pairs + 10 /\ k \in zkeys
      BY <1>0, <2>1, <2>4, <2>6
    <3>2. Server!Range(zsets[k], s.ask.score, s.ask.max_score) = s.entries
      <4>1. zsets[k] = ZsetAt(2 * Pairs + 10)
        BY <2>4, <3>1
      <4>2. s.ask.score = 0 /\ s.ask.max_score = (Pairs - 1) * 2
        BY <2>6, Requested
      <4>3. s.entries = {[member |-> m, score |-> m * 2] : m \in Members}
        BY <2>6, Demands
      <4> QED
        BY <4>1, <4>2, <4>3, Ranges
    <3> QED
      BY <2>3, <2>6, <3>1, <3>2, Requested, Demands DEF Finds
  <2>7. CASE i \in {2 * Pairs + 13, 3 * Pairs + 13} /\ s = zrange(TestZset, 0, 0, 1, {})
    <3>1. Prog(0, k) \in {2 * Pairs + 12, 3 * Pairs + 12} /\ k \in zkeys
      BY <1>0, <2>1, <2>4, <2>7
    <3>2. Server!Range(zsets[k], s.ask.score, s.ask.max_score) = s.entries
      <4>1. zsets[k] \in {ZsetAt(2 * Pairs + 12), ZsetAt(3 * Pairs + 12)}
        BY <2>4, <3>1
      <4>2. s.ask.score = 0 /\ s.ask.max_score = 0
        BY <2>7, Requested
      <4>3. s.entries = {}
        BY <2>7, Demands
      <4> QED
        BY <4>1, <4>2, <4>3, Ranges
    <3> QED
      BY <2>3, <2>7, <3>1, <3>2, Requested, Demands DEF Finds
  <2>8. CASE i = 3 * Pairs + 15 /\ s = zrange(TestZset, 0, 0, 0, Any)
    BY <1>0, <2>4, <2>8, Requested, Demands DEF Finds
  <2> QED
    BY <2>2, <2>5, <2>6, <2>7, <2>8
<1>2. CASE Stage # 0
  <2>1. Stage = 7 /\ s.entries = Any /\ s.found = 1 /\ t \in Tasks /\ k = BenchZset(t)
    BY <1>2, Requested, Demands DEF ProgramStep
  <2>2. k \in zkeys /\ k \notin Absent
    BY <2>1, KindsOf DEF SInv, BenchZsetInv, BenchZsetIs
  <2> QED
    BY <2>1, <2>2 DEF Finds
<1> QED
  BY <1>1, <1>2

\* So every step that takes effect on a key is answered as its task demands.
LEMMA TakesRight ==
    ASSUME TInv, SInv, NEW t \in 0 .. n, NEW k \in Keys, NEW s,
           ProgramStep(Stage, t, Prog(t, k) + 1, s), k \in s.ask.keys, Takes(t, k, s.ask)
    PROVE  Right(s, k, ans'[t][k])
<1>1. CASE s.ask.op \in {"query", "list"}
  <2>1. ans'[t][k] = IF strings[k] = Missing THEN Server!NotFound
                     ELSE Server!Result("200", strings[k], {})
    BY <1>1 DEF Takes
  <2>2. s.entries = Any
    BY <1>1, DemandsOf
  <2> QED
    BY <1>1, <2>1, <2>2, LookRight DEF Right, Server!NotFound, Server!Result
<1>2. CASE s.ask.op = "zrange"
  <2>1. ans'[t][k] = IF k \in zkeys
                     THEN Server!Result("200", Missing, Server!Range(zsets[k], s.ask.score, s.ask.max_score))
                     ELSE Server!NotFound
    BY <1>2 DEF Takes
  <2>2. s.data = Any
    BY <1>2, DemandsOf
  <2> QED
    BY <1>2, <2>1, <2>2, RangeRight DEF Right, Server!NotFound, Server!Result
<1>3. CASE s.ask.op \notin {"query", "list", "zrange"}
  <2>1. s.data = Any /\ s.entries = Any
    BY <1>3, DemandsOf
  <2>2. Finds(s, k)
    BY <1>3, AbsentListed DEF Finds
  <2>3. s.ask.op = "zadd" => strings[k] = Missing
    <3>1. s.ask.op = "zadd" => k \in {TestZset} \cup {BenchZset(j) : j \in Tasks}
      BY ZaddKeys
    <3>2. s.ask.op = "zadd" => k \notin Present \cup Bench \cup {Hello}
      BY <3>1, Kinds, KindsOf DEF Bench
    <3> QED
      BY <3>2 DEF SInv, NoStringInv
  <2>4. ans'[t][k] = Server!Ok
    BY <1>3, <2>3 DEF Takes
  <2> QED
    BY <2>1, <2>2, <2>4 DEF Right, Server!Ok, Server!Result
<1> QED
  BY <1>1, <1>2, <1>3

\* Which is on as many keys as it demands.
LEMMA PresentCount == IsFiniteSet(Present) /\ Cardinality(Present) = Pairs
<1>1. Pairs \in Nat
  BY BoundsAssumption
<1> DEFINE f == [i \in 1 .. Pairs |-> TestKey(i)]
<1>2. f \in [1 .. Pairs -> Present] /\ \A a, b \in 1 .. Pairs : f[a] = f[b] => a = b
  BY Kinds DEF Present
<1>3. \A k \in Present : \E i \in 1 .. Pairs : f[i] = k
  BY DEF Present
<1> HIDE DEF f
<1>4. f \in Bijection(1 .. Pairs, Present)
  BY <1>2, <1>3, Fun_IsBij
<1>5. ExistsBijection(1 .. Pairs, Present)
  BY <1>4 DEF ExistsBijection
<1>6. IsFiniteSet(1 .. Pairs) /\ Cardinality(1 .. Pairs) = Pairs
  BY <1>1, FS_Interval
<1> QED
  BY <1>5, <1>6, FS_Bijection

LEMMA FoundCount ==
    ASSUME NEW p, NEW t, NEW i, NEW s, ProgramStep(p, t, i, s)
    PROVE  Cardinality({k \in s.ask.keys : Finds(s, k)}) = s.found
<1> DEFINE F == {k \in s.ask.keys : Finds(s, k)}
<1>1. CASE \E x : s.ask.keys = {x} /\ s.found = 1 /\ s.ask.keys \cap Absent = {}
  <2>1. PICK x : s.ask.keys = {x} /\ s.found = 1 /\ s.ask.keys \cap Absent = {}
    BY <1>1
  <2>2. F = {x}
    BY <2>1 DEF Finds
  <2> QED
    BY <2>1, <2>2, FS_Singleton
<1>2. CASE s.ask.op \in {"query", "zrange"} /\ s.found = 0
  <2>1. F = {}
    BY <1>2 DEF Finds
  <2> QED
    BY <1>2, <2>1, FS_EmptySet
<1>3. CASE s.ask.op \in {"batch", "list"} /\ s.found = Cardinality(s.ask.keys \ Absent)
  <2>1. F = s.ask.keys \ Absent
    BY <1>3 DEF Finds
  <2> QED
    BY <1>3, <2>1
<1>4. CASE p = 0
  <2>1. TestStep(i, s) /\ i \in 1 .. 3 * Pairs + 15 /\ Pairs \in Nat
    BY <1>4, PhaseKeys, BoundsAssumption
  <2>2. CASE i \in 1 .. 4
    <3>1. \/ s = query(Hello, 0, Any)
          \/ s \in {add(Hello, "world"), query(Hello, 1, "world"), del(Hello)}
      BY <2>1, <2>2, TestAt
    <3> QED
      <4>1. s.ask.keys = {Hello}
        BY <3>1, Requested
      <4>2. s.found = 1 \/ (s.ask.op \in {"query", "zrange"} /\ s.found = 0)
        BY <3>1, Requested, Demands
      <4> QED
        BY <1>1, <1>2, <4>1, <4>2, KindsOf
  <2>3. CASE i \in 5 .. 9
    <3>1. /\ Present \ Absent = Present /\ (Present \cup Absent) \ Absent = Present
          /\ Absent \ Absent = {} /\ {TestKey(1)} \ Absent = {TestKey(1)}
      BY KindsOf
    <3>2. CASE i = 5
      <4>1. s = batch(Present, "value")
        BY <2>1, <3>2, TestAt
      <4>2. /\ s.ask.op = "batch" /\ s.ask.keys = Present
            /\ s.found = Cardinality(Present)
        BY <4>1, Requested, Demands
      <4> QED
        BY <1>3, <3>1, <4>2
    <3>3. CASE i \in {6, 7}
      <4>1. \/ s = list(Present, Pairs, "value")
            \/ s = list(Present \cup Absent, Pairs, Any)
        BY <2>1, <3>3, TestAt
      <4>2. /\ s.ask.op = "list" /\ s.ask.keys \in {Present, Present \cup Absent}
            /\ s.found = Pairs
        BY <4>1, Requested, Demands
      <4> QED
        BY <1>3, <3>1, <4>2, PresentCount
    <3>4. CASE i = 8
      <4>1. s = list(Absent, 0, Any)
        BY <2>1, <3>4, TestAt
      <4>2. s.ask.op = "list" /\ s.ask.keys = Absent /\ s.found = 0
        BY <4>1, Requested, Demands
      <4> QED
        BY <1>3, <3>1, <4>2, FS_EmptySet
    <3>5. CASE i = 9
      <4>1. s = list({TestKey(1)}, 1, Any)
        BY <2>1, <3>5, TestAt
      <4>2. s.ask.op = "list" /\ s.ask.keys = {TestKey(1)} /\ s.found = 1
        BY <4>1, Requested, Demands
      <4> QED
        BY <1>3, <3>1, <4>2, FS_Singleton
    <3> QED
      BY <2>3, <3>2, <3>3, <3>4, <3>5
  <2>4. CASE i >= 10
    <3>1. s.ask.keys = {TestZset}
      BY <2>1, <2>4, TestKeys
    <3>2. s.found = 1 \/ (s.ask.op = "zrange" /\ s.found = 0)
      BY <2>1, <2>4, Requested, Demands DEF TestStep
    <3> QED
      BY <1>1, <1>2, <3>1, <3>2, KindsOf
  <2> QED
    BY <2>1, <2>2, <2>3, <2>4
<1>5. CASE p \in {4, 5}
  <2>1. PICK c : s.ask.keys = ChunkKeys(c) /\ s.ask.op \in {"batch", "list"}
                 /\ s.found = Cardinality(ChunkKeys(c))
    BY <1>5, Requested, Demands DEF ProgramStep
  <2>2. ChunkKeys(c) \ Absent = ChunkKeys(c)
    BY KindsOf DEF ChunkKeys
  <2> QED
    BY <1>3, <2>1, <2>2
<1>6. CASE p \in {1, 2, 3, 6, 7, 8, 9}
  <2>1. s.found = 1
    BY <1>6, Demands DEF ProgramStep
  <2>2. \E x : s.ask.keys = {x} /\ x \notin Absent
    BY <1>6, PhaseKeys, KindsOf
  <2> QED
    BY <1>1, <2>1, <2>2
<1> QED
  BY <1>4, <1>5, <1>6, PhaseKeys

-----------------------------------------------------------------------------
(* client.rs does not panic, and cleans up. *)

AnsInv == \A t \in 0 .. n : arg[t] # NoRequest =>
    \A k \in arg[t].keys \ todo[t] : Right(Expected(t), k, ans[t][k])

CInv == SInv /\ AnsInv /\ panicked = FALSE

LEMMA InitCInv == Init => CInv
<1> SUFFICES ASSUME Init PROVE CInv
  OBVIOUS
<1>1. /\ \A k \in Keys : strings[k] = Missing /\ zsets[k] = {}
      /\ zkeys = {} /\ phase = 0 /\ panicked = FALSE
      /\ \A t \in 0 .. n : arg[t] = NoRequest /\ at[t] = 0
  BY Connections DEF Init, Server!Init
<1>2. Stage = 0
  BY <1>1, ProgramAt DEF Stage
<1>3. \A t \in 0 .. n : \A k : Prog(t, k) = 0
  BY <1>1 DEF Prog
<1>4. /\ 0 \in 0 .. n /\ Tasks \subseteq 0 .. n /\ Hello \in Keys /\ TestZset \in Keys
      /\ Present \subseteq Keys /\ \A j \in Tasks : BenchKey(j) \in Keys
  BY BoundsAssumption DEF Keys, Tasks, Bench
<1>5. HelloInv /\ PresentInv /\ NoStringInv
  BY <1>1, <1>2, <1>3, <1>4 DEF HelloInv, PresentInv, NoStringInv
<1>6. BenchInv /\ BenchZsetInv /\ ZkeysInv
  BY <1>1, <1>2, <1>4 DEF BenchInv, BenchIs, BenchZsetInv, BenchZsetIs, ZkeysInv
<1>7. TestZsetInv
  <2>1. ZsetAt(0) = {} /\ Prog(0, TestZset) = 0 /\ zsets[TestZset] = {}
    BY <1>1, <1>3, <1>4, ZEmpty
  <2> QED
    BY <1>1, <1>2, <2>1 DEF TestZsetInv
<1>8. AnsInv
  BY <1>1 DEF AnsInv
<1> QED
  BY <1>1, <1>5, <1>6, <1>7, <1>8 DEF CInv, SInv

\* What the store holds changes only as the steps of the phase, and the batches, say.
LEMMA StepSInv ==
    ASSUME TInv, TInv', IInv, SInv, [Next]_vars
    PROVE  SInv'
<1>1. CASE UNCHANGED phase
  BY <1>1, HelloStep, PresentStep, BenchStep, NoStringStep, BenchZsetStep, TestZsetStep, ZkeysStep
  DEF SInv
<1>2. CASE ~UNCHANGED phase
  <2>1. Join
    BY <1>2 DEF Next, Work, WorkServed, BatchesServed, BatchesEnd, Acquire, Ask, Receive, Serve,
                SendBatch, BatchEnds, Break, vars
  <2> QED
    BY <2>1, HelloJoin, PresentJoin, BenchJoin, NoStringJoin, BenchZsetJoin, TestZsetJoin, ZkeysStep
    DEF SInv
<1> QED
  BY <1>1, <1>2

\* A task that has been answered on all its keys is satisfied.
LEMMA ReceiveRight ==
    ASSUME TInv, IInv, CInv, NEW t \in 0 .. n, Receive(t)
    PROVE  Satisfied(t)
<1>1. /\ arg[t] # NoRequest /\ todo[t] = {} /\ arg[t] = Expected(t).ask
      /\ ProgramStep(Stage, t, at[t] + 1, Expected(t))
  BY ReceiveStep
<1>2. \A k \in arg[t].keys : Right(Expected(t), k, ans[t][k])
  BY <1>1 DEF CInv, AnsInv
<1>3. {k \in arg[t].keys : ans[t][k].status = "200"}
        = {k \in Expected(t).ask.keys : Finds(Expected(t), k)}
  BY <1>1, <1>2 DEF Right
<1>4. Cardinality({k \in Expected(t).ask.keys : Finds(Expected(t), k)}) = Expected(t).found
  BY <1>1, FoundCount
<1>5. \A k \in {l \in arg[t].keys : ans[t][l].status = "200"} :
         /\ Expected(t).data \in {Any, ans[t][k].data}
         /\ Expected(t).entries \in {Any, ans[t][k].entries}
  BY <1>2 DEF Right
<1> QED
  BY <1>3, <1>4, <1>5 DEF Satisfied

\* The answers a task has got are not changed by what the others do.
LEMMA SameAnswers ==
    ASSUME AnsInv, UNCHANGED phase, NEW t \in 0 .. n,
           arg'[t] = arg[t], todo'[t] = todo[t], ans'[t] = ans[t], at'[t] = at[t],
           arg[t] # NoRequest, NEW k \in arg[t].keys \ todo[t]
    PROVE  Right(Expected(t)', k, ans'[t][k])
<1>1. Expected(t)' = Expected(t)
  BY DEF Expected, Now
<1> QED
  BY <1>1 DEF AnsInv

LEMMA ServeAnsInv ==
    ASSUME TInv, IInv, CInv, NEW u \in 0 .. n, Serve(u)
    PROVE  AnsInv'
<1>1. PICK ks \in SUBSET todo[u] :
             /\ arg[u] # NoRequest /\ ks \subseteq Keys /\ ks \subseteq arg[u].keys
             /\ UNCHANGED <<arg, phase, at>>
             /\ todo'[u] = todo[u] \ ks
             /\ \A d \in Conns \ {u} : todo'[d] = todo[d] /\ ans'[d] = ans[d]
             /\ ProgramStep(Stage, u, at[u] + 1, Expected(u)) /\ arg[u] = Expected(u).ask
             /\ \A l \in ks : Takes(u, l, arg[u])
             /\ \A l \in Keys \ ks : SameKey(l) /\ ans'[u][l] = ans[u][l]
  BY ServeTask
<1>2. arg[u].keys \subseteq Keys
  BY <1>1, ExpectedStep DEF TInv, AskedInv
<1>3. 0 .. n \subseteq Conns
  BY Connections
<1> SUFFICES ASSUME NEW t \in 0 .. n, arg'[t] # NoRequest, NEW k \in arg'[t].keys \ todo'[t]
             PROVE  Right(Expected(t)', k, ans'[t][k])
  BY DEF AnsInv
<1>4. CASE t # u
  BY <1>1, <1>3, <1>4, SameAnswers DEF CInv
<1>5. CASE t = u
  <2>1. Expected(u)' = Expected(u)
    BY <1>1 DEF Expected, Now
  <2>2. CASE k \in ks
    <3>1. Prog(u, k) = at[u] /\ k \in Keys /\ k \in arg[u].keys
      BY <1>1, <2>2 DEF Prog
    <3>2. Right(Expected(u), k, ans'[u][k])
      BY <1>1, <2>2, <3>1, TakesRight DEF CInv
    <3> QED
      BY <1>5, <2>1, <3>2
  <2>3. CASE k \notin ks
    <3>1. k \in arg[u].keys \ todo[u] /\ ans'[u][k] = ans[u][k]
      BY <1>1, <1>2, <1>5, <2>3
    <3> QED
      BY <1>1, <1>5, <2>1, <3>1 DEF CInv, AnsInv
  <2> QED
    BY <2>2, <2>3
<1> QED
  BY <1>4, <1>5

LEMMA StepAnsInv ==
    ASSUME TInv, IInv, CInv, [Next]_vars
    PROVE  AnsInv'
<1>0. 0 .. n \subseteq Conns /\ (0 .. n) \cap Batches = {} /\ Batches \subseteq Conns
  BY Connections
<1>1. ASSUME UNCHANGED <<phase, at, arg, todo, ans>> PROVE AnsInv'
  BY <1>1, SameAnswers DEF CInv, AnsInv
<1>2. ASSUME NEW u \in 0 .. n, Ask(u) PROVE AnsInv'
  <2>1. Call(u, Expected(u).ask) /\ UNCHANGED <<phase, at, ans>>
    BY <1>2 DEF Ask, Call
  <2>2. /\ todo'[u] = arg'[u].keys
        /\ \A d \in (0 .. n) \ {u} : arg'[d] = arg[d] /\ todo'[d] = todo[d]
    BY <1>0, <2>1 DEF Call, TInv, ConnInv, IInv, ArgInv
  <2> SUFFICES ASSUME NEW t \in 0 .. n, arg'[t] # NoRequest, NEW k \in arg'[t].keys \ todo'[t]
               PROVE  Right(Expected(t)', k, ans'[t][k])
    BY DEF AnsInv
  <2>3. t # u
    BY <2>2
  <2> QED
    BY <2>1, <2>2, <2>3, SameAnswers DEF CInv
<1>3. ASSUME NEW u \in 0 .. n, Receive(u) PROVE AnsInv'
  <2> SUFFICES ASSUME NEW t \in 0 .. n, arg'[t] # NoRequest, NEW k \in arg'[t].keys \ todo'[t]
               PROVE  Right(Expected(t)', k, ans'[t][k])
    BY DEF AnsInv
  <2>1. t # u
    BY <1>3, ReceiveStep
  <2> QED
    BY <1>3, <2>1, ReceiveStep, SameAnswers DEF CInv
<1>4. ASSUME Join PROVE AnsInv'
  <2>1. \A t \in 0 .. n : arg'[t] = NoRequest
    BY <1>4, JoinIdle DEF Join, server
  <2> QED
    BY <2>1 DEF AnsInv
<1>5. ASSUME NEW g \in Batches, Serve(g) PROVE AnsInv'
  <2> SUFFICES ASSUME NEW t \in 0 .. n, arg'[t] # NoRequest, NEW k \in arg'[t].keys \ todo'[t]
               PROVE  Right(Expected(t)', k, ans'[t][k])
    BY DEF AnsInv
  <2> QED
    BY <1>5, ServeBatch, SameAnswers DEF CInv
<1>6. ASSUME SendBatch PROVE AnsInv'
  <2>1. PICK g \in Batches : Call(g, Forever)
    BY <1>6 DEF SendBatch
  <2>2. UNCHANGED <<phase, at, ans>> /\ \A t \in 0 .. n : arg'[t] = arg[t] /\ todo'[t] = todo[t]
    BY <1>0, <1>6, <2>1 DEF SendBatch, Call, TInv, ConnInv, IInv, ArgInv
  <2> SUFFICES ASSUME NEW t \in 0 .. n, arg'[t] # NoRequest, NEW k \in arg'[t].keys \ todo'[t]
               PROVE  Right(Expected(t)', k, ans'[t][k])
    BY DEF AnsInv
  <2> QED
    BY <2>2, SameAnswers DEF CInv
<1>7. ASSUME NEW g \in Batches, BatchEnds(g) PROVE AnsInv'
  <2>1. UNCHANGED <<phase, at, todo>> /\ \A t \in 0 .. n : arg'[t] = arg[t] /\ ans'[t] = ans[t]
    BY <1>0, <1>7, AnswerConn DEF BatchEnds
  <2> SUFFICES ASSUME NEW t \in 0 .. n, arg'[t] # NoRequest, NEW k \in arg'[t].keys \ todo'[t]
               PROVE  Right(Expected(t)', k, ans'[t][k])
    BY DEF AnsInv
  <2> QED
    BY <2>1, SameAnswers DEF CInv
<1>8. CASE Work
  <2>1. CASE \E t \in Tasks : Acquire(t)
    BY <1>1, <2>1 DEF Acquire, server
  <2> QED
    BY <1>2, <1>3, <1>4, <1>8, <2>1 DEF Work
<1>9. CASE \E g \in Batches : Break(g)
  BY <1>1, <1>9 DEF Break, server
<1>10. CASE UNCHANGED vars
  BY <1>1, <1>10 DEF vars, server
<1> QED
  BY <1>5, <1>6, <1>7, <1>8, <1>9, <1>10, ServeAnsInv DEF Next, WorkServed, BatchesServed, BatchesEnd

LEMMA StepCInv == TInv /\ TInv' /\ IInv /\ CInv /\ [Next]_vars => CInv'
<1> SUFFICES ASSUME TInv, TInv', IInv, CInv, [Next]_vars PROVE CInv'
  OBVIOUS
<1>1. SInv' /\ AnsInv'
  BY StepSInv, StepAnsInv DEF CInv
<1>2. panicked' = FALSE
  <2>1. CASE \E t \in 0 .. n : Receive(t)
    <3>1. PICK t \in 0 .. n : Receive(t)
      BY <2>1
    <3>2. Satisfied(t) /\ panicked' = ~Satisfied(t)
      BY <3>1, ReceiveRight DEF Receive
    <3> QED
      BY <3>2
  <2>2. CASE UNCHANGED panicked
    BY <2>2 DEF CInv
  <2> QED
    BY <2>1, <2>2 DEF Next, Work, WorkServed, BatchesServed, BatchesEnd, Acquire, Ask, Join, Serve,
                      SendBatch, BatchEnds, Break, vars
<1> QED
  BY <1>1, <1>2 DEF CInv

\* No answer makes client.rs panic, in any run, for any number of keys and pairs and
\* whatever batch-forever does meanwhile (client.rs:175-179, batch-forever.rs:56-70).
THEOREM NoPanicCorrect == Spec => []NoPanic
<1>1. CInv => NoPanic
  BY DEF CInv, NoPanic
<1> QED
  BY <1>1, InitInv, StepInv, InitTInv, StepTInv, InitCInv, StepCInv, PTL DEF Spec

\* A run of client.rs that has ended has deleted all it added but the pairs of its batch
\* test; batch-forever adds its own keys again (client.rs:476-490).
THEOREM LeavesOnlyPairsCorrect == Spec => []LeavesOnlyPairs
<1>1. IInv /\ TInv /\ CInv => LeavesOnlyPairs
  <2> SUFFICES ASSUME TInv, SInv, Stage = 0, Asking(0 .. n) = {}, at[0] = 0
               PROVE  /\ zkeys = {}
                      /\ {k \in Keys : strings[k] # Missing} \subseteq Present \cup Forever.keys
    BY DEF LeavesOnlyPairs, CInv, Stage
  <2>0. 0 \in 0 .. n
    BY BoundsAssumption
  <2>1. \A k : Prog(0, k) = 0
    BY <2>0 DEF Prog, Asking
  <2>2. TestZset \notin zkeys
    BY <2>1 DEF SInv, TestZsetInv
  <2>3. \A j \in Tasks : BenchZset(j) \notin zkeys
    BY DEF SInv, BenchZsetInv, BenchZsetIs
  <2>4. zkeys = {}
    BY <2>2, <2>3 DEF SInv, ZkeysInv
  <2>5. ASSUME NEW k \in Keys, strings[k] # Missing
        PROVE  k \in Present \cup Forever.keys
    <3>1. strings[Hello] = Missing
      BY <2>1 DEF SInv, HelloInv
    <3>2. k \in Present \cup Bench
      BY <2>5, <3>1 DEF SInv, NoStringInv
    <3> QED
      BY <2>5, <3>2 DEF SInv, BenchInv, BenchIs, Bench
  <2> QED
    BY <2>4, <2>5
<1> QED
  BY <1>1, InitInv, StepInv, InitTInv, StepTInv, InitCInv, StepCInv, PTL DEF Spec
=============================================================================
