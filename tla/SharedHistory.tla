--------------------------- MODULE SharedHistory ---------------------------
(***************************************************************************)
(* SharedStorage with history variables: what the requests that were       *)
(* answered make of each key, and what nobody has written since a thread's *)
(* request began.                                                          *)
(***************************************************************************)
EXTENDS SharedStorage

VARIABLES promised,  \* promised[k]: the string or sorted set clients were told of
          calm       \* calm[t]: the parts of the keys nobody writes during t's request

hvars == <<vars, promised, calm>>

Nothing == [string |-> Missing, zkey |-> FALSE, entries |-> {}]

\* What request r makes of a key that is as p says.
After(p, r) ==
    LET others == {e \in p.entries : e.member # r.member} IN
    IF r.op \in {"add", "batch"} THEN [Nothing EXCEPT !.string = r.data]
    ELSE IF r.op = "del" THEN Nothing
    ELSE IF r.op = "zrmv" THEN [p EXCEPT !.entries = others]
    ELSE IF p.string # Missing THEN p
    ELSE [p EXCEPT !.zkey = TRUE,
                   !.entries = others \cup {[member |-> r.member, score |-> r.score]}]

\* A member of a key, or with Missing all of the key.
Parts == Keys \X (Members \cup {Missing})
Touches(r, k, m) == Writes(r) /\ k \in r.keys /\ (Missing \in {r.member, m} \/ r.member = m)
Untouched == {p \in Parts : \A t \in Threads : Running(t) => ~Touches(arg[t], p[1], p[2])}

Ends(t) == Running(t) /\ ~Running(t)'

HInit == /\ Init
         /\ promised = [k \in Keys |-> Nothing]
         /\ calm = [t \in Threads |-> {}]

HNext == \E t \in Threads :
    /\ Call(t) \/ Step(t) \/ Answer(t)
    /\ promised' = [k \in Keys |-> IF Ends(t) /\ Writes(arg[t]) /\ k \in arg[t].keys
                                   THEN After(promised[k], arg[t]) ELSE promised[k]]
    /\ calm' = [u \in Threads |-> IF pc'[u] = "idle" THEN {}
                                  ELSE IF pc[u] = "idle" THEN Untouched'
                                  ELSE calm[u] \cap Untouched']

HSpec == HInit /\ [][HNext]_hvars

-----------------------------------------------------------------------------
Shown(k) == [string |-> kv_[k], zkey |-> zsets_[k] # Missing, entries |-> EntriesOf(zsets_[k])]
Of(es, m) == {e \in es : m = Missing \/ e.member = m}

\* A key nobody is writing is what the answered requests made of it, and so is each
\* member nobody is writing, while other members are: a zadd that was answered is in
\* the sorted set the next zrange finds, whoever created that.
AckedVisible ==
    \A p \in Untouched :
        LET k == p[1]  m == p[2] IN
        /\ m = Missing => Shown(k) = promised[k]
        /\ Of(Shown(k).entries, m) = Of(promised[k].entries, m)

\* A read answers what was promised of all that nobody wrote during it, although it
\* looks up the sorted set first and copies its members later: only a write that
\* overlaps can make it miss a key.
StableReads ==
    \A t \in Threads : \A p \in calm[t] :
        LET k == p[1]  m == p[2]  p0 == promised[k]  a == ans[t][k] IN
        At(t, "answer") /\ k \in arg[t].keys =>
            /\ arg[t].op \in {"query", "list"} /\ m = Missing =>
                 a = Result(IF p0.string = Missing THEN "404" ELSE "200", p0.string, {})
            /\ arg[t].op = "zrange" =>
                 /\ m = Missing => a.status = IF p0.zkey THEN "200" ELSE "404"
                 /\ Of(a.entries, m) = Of(Within(p0.entries, arg[t]), m)
=============================================================================
