------------------------------- MODULE Cache -------------------------------
(***************************************************************************)
(* What the HTTP API promises: a key holds a string, or a sorted set, or   *)
(* nothing, and a request takes effect on each of its keys at one instant  *)
(* between its call and its answer.  A request for several keys may take   *)
(* them at several instants.  The sharded C++ server (ShardedStorage)      *)
(* implements it.                                                          *)
(***************************************************************************)
EXTENDS Naturals

CONSTANTS Conns,     \* connections, each with one request at a time
          Keys,
          Requests,  \* what clients ask
          NoRequest, NoAnswer,
          Missing    \* no string

VARIABLES strings,   \* strings[k]: the value that was added for k
          zkeys,     \* the keys that hold a sorted set
          zsets,     \* zsets[k]: its members with their scores
          arg,       \* arg[c]: the request of connection c
          todo,      \* todo[c]: its keys that have still to be looked at
          ans        \* ans[c][k]: what it found for key k

store == <<strings, zkeys, zsets>>
vars  == <<store, arg, todo, ans>>

Put(f, ks, x) == [k \in Keys |-> IF k \in ks THEN x ELSE f[k]]

Result(status, x, es) == [status |-> status, data |-> x, entries |-> es]

Ok         == Result("200", Missing, {})
NotFound   == Result("404", Missing, {})
BadRequest == Result("400", Missing, {})
Range(z, lo, hi) == {e \in z : lo <= e.score /\ e.score <= hi}

Init == /\ strings = [k \in Keys |-> Missing]
        /\ zkeys = {}
        /\ zsets = [k \in Keys |-> {}]
        /\ arg = [c \in Conns |-> NoRequest]
        /\ todo = [c \in Conns |-> {}]
        /\ ans = [c \in Conns |-> [k \in Keys |-> NoAnswer]]

Call(c) == /\ arg[c] = NoRequest
           /\ \E r \in Requests : /\ arg' = [arg EXCEPT ![c] = r]
                                  /\ todo' = [todo EXCEPT ![c] = r.keys]
           /\ UNCHANGED <<store, ans>>

Answers(c, ks, answer) == ans' = [ans EXCEPT ![c] = Put(@, ks, answer)]

\* The effects of the requests on the keys ks, of those on one key on that key.
Look(c, ks) ==
    /\ arg[c].op \in {"query", "list"}
    /\ ans' = [ans EXCEPT ![c] =
         [k \in Keys |-> IF k \notin ks THEN @[k]
                         ELSE IF strings[k] = Missing THEN NotFound ELSE Result("200", strings[k], {})]]
    /\ UNCHANGED store

Add(c, ks) == /\ arg[c].op \in {"add", "batch"}
              /\ strings' = Put(strings, ks, arg[c].data)
              /\ zkeys' = zkeys \ ks
              /\ zsets' = Put(zsets, ks, {})
              /\ Answers(c, ks, Ok)

Del(c, ks) == /\ arg[c].op = "del"
              /\ strings' = Put(strings, ks, Missing)
              /\ zkeys' = zkeys \ ks
              /\ zsets' = Put(zsets, ks, {})
              /\ Answers(c, ks, Ok)

ZaddRefused(c, k) == /\ arg[c].op = "zadd" /\ strings[k] # Missing
                     /\ Answers(c, {k}, BadRequest)
                     /\ UNCHANGED store

Others(k, m) == {e \in zsets[k] : e.member # m}

Zadd(c, k) ==
    /\ arg[c].op = "zadd" /\ strings[k] = Missing
    /\ zkeys' = zkeys \cup {k}
    /\ zsets' = Put(zsets, {k}, Others(k, arg[c].member)
                      \cup {[member |-> arg[c].member, score |-> arg[c].score]})
    /\ Answers(c, {k}, Ok)
    /\ UNCHANGED strings

Zrmv(c, k) ==
    /\ arg[c].op = "zrmv"
    /\ zsets' = Put(zsets, {k}, Others(k, arg[c].member))
    /\ Answers(c, {k}, Ok)
    /\ UNCHANGED <<strings, zkeys>>

Zrange(c, k) == /\ arg[c].op = "zrange"
                /\ Answers(c, {k},
                     IF k \in zkeys
                     THEN Result("200", Missing, Range(zsets[k], arg[c].score, arg[c].max_score))
                     ELSE NotFound)
                /\ UNCHANGED store

Effect(c, ks) == \/ Look(c, ks) \/ Add(c, ks) \/ Del(c, ks)
                 \/ \E k \in ks : \/ ZaddRefused(c, k) \/ Zadd(c, k)
                                  \/ Zrmv(c, k) \/ Zrange(c, k)

Apply(c) == /\ \E ks \in SUBSET todo[c] :
                 /\ ks # {}
                 /\ todo' = [todo EXCEPT ![c] = @ \ ks]
                 /\ Effect(c, ks)
            /\ UNCHANGED arg

Answer(c) == /\ arg[c] # NoRequest
             /\ todo[c] = {}
             /\ arg' = [arg EXCEPT ![c] = NoRequest]
             /\ ans' = [ans EXCEPT ![c] = [k \in Keys |-> NoAnswer]]
             /\ UNCHANGED <<store, todo>>

Next == \E c \in Conns : Call(c) \/ Apply(c) \/ Answer(c)

Spec == Init /\ [][Next]_vars
=============================================================================
